------------------------------- MODULE Engine -------------------------------
(***************************************************************************)
(* The engine (mini_runtime/engine.py): the life of a request from         *)
(* submit() to its answer, through the waiting queue, the requests being   *)
(* prefilled chunk by chunk and the running batch, on top of the block     *)
(* manager and the prefix cache.                                           *)
(*                                                                         *)
(* The engine is one task of an asyncio event loop, and suspends itself in *)
(* one place only: decode_one_step sleeps when nothing runs.  pc says      *)
(* where the scheduler loop is; clients and timers act only while it       *)
(* sleeps, or once it is over.  (waiting_queue.put() never suspends: the   *)
(* queue has no bound.)                                                    *)
(*                                                                         *)
(* The tokens the model generates are left out but for the end of the      *)
(* sequence, which may come at any decode step, and so are the clock and   *)
(* the metrics taken from it; the metrics that count requests are there.   *)
(* The backend may raise in any call: Crash, and FinishFails where it is   *)
(* asked for the text of an answer.  A step that would raise the           *)
(* ValueError of dec_ref leaves pool.err set, where the model stops:       *)
(* NothingReleasedTwice says when this cannot happen.                      *)
(***************************************************************************)
EXTENDS PrefixCache

CONSTANTS
    Requests,        \* the requests clients may submit
    Prompts,         \* their prompts, as token sequences
    Limits,          \* their max_new_tokens
    MaxBatch,        \* max_batch_size
    MaxChunk,        \* MAX_TOKENS_PER_PREFILL_CHUNK
    MaxStep          \* MAX_TOKENS_PER_PREFILL_STEP

ASSUME EngineAssumption == /\ IsFiniteSet(Requests)
                           /\ Prompts \subseteq Seq(UNION {ToSet(p) : p \in Prompts}) \ {<<>>}
                           /\ Limits \subseteq Nat \ {0}
                           /\ {MaxBatch, MaxChunk, MaxStep} \subseteq Nat \ {0}

VARIABLES
    tree,         \* prefix_cache
    pool,         \* kv_manager
    queue,        \* waiting_queue
    prefilling,   \* prefilling_requests
    running,      \* running_requests
    req,          \* what the engine keeps of each request
    future,       \* its future: "new" before submit()
    backend,      \* the requests the backend keeps a past length for
    metrics,      \* those of the metrics that count requests
    pc            \* where the scheduler loop is

vars == <<tree, pool, queue, prefilling, running, req, future, backend, metrics, pc>>

Settled == {"result", "error", "timeout", "cancelled"}
LoopFree == {"sleep", "dead", "stopped"}

NoMatch == MatchStart(EmptyTree)
NothingCounted ==
    [submitted |-> 0, success |-> 0, timeout |-> 0, cancelled |-> 0, oom |-> 0]
Request(p, n) == [prompt |-> p, max |-> n, table |-> <<>>, offset |-> 0,
                  match |-> NoMatch, progress |-> 0, gen |-> 0]

Init ==
    /\ tree = EmptyTree
    /\ pool = NewPool
    /\ queue = <<>> /\ prefilling = <<>> /\ running = <<>>
    /\ req = [r \in Requests |-> Request(<<>>, 0)]
    /\ future = [r \in Requests |-> "new"]
    /\ backend = {}
    /\ metrics = NothingCounted
    /\ pc = "sleep"

(* Mutant: future.done() is not looked at.                                   *)
SettleAgain(R, value) ==
    [r \in Requests |-> IF r \in R /\ future[r] # "new" THEN value ELSE future[r]]

(* set_result(value) on those futures of R that are not done.                *)
Settle(R, value) ==
    [r \in Requests |-> IF r \in R /\ future[r] = "pending" THEN value ELSE future[r]]

(* Those of R whose future is not done.                                      *)
Pending(R) == {r \in R : future[r] = "pending"}

(* Mutant: a request that timed out counts as a success when it finishes.    *)
CountAnyEnd(refused, finished) ==
    [metrics EXCEPT !.oom = @ + Cardinality(refused),
                    !.success = @ + Cardinality(finished),
                    !.cancelled = @ + Cardinality(refused \ Pending(refused))]

(* What decode_one_step and finish_request count: a request whose future is  *)
(* done by then is "cancelled", besides what it was counted as before.       *)
CountEnds(refused, finished) ==
    [metrics EXCEPT
        !.oom = @ + Cardinality(refused),
        !.success = @ + Cardinality(Pending(finished)),
        !.cancelled = @ + Cardinality((refused \cup finished) \ Pending(refused \cup finished))]

(* Mutant: the requests in prefill are forgotten when the engine ends.       *)
OwnedButPrefilling == ToSet(queue \o running)

(* Whom shutdown() and _fail_all_requests() look for.                        *)
Owned == ToSet(queue \o prefilling \o running)

(* Those of a list who are in S, in the order of the list: SelectSeq, as a    *)
(* fold, which can be reasoned about.                                        *)
Keep(S, kept, r) == IF r \in S THEN Append(kept, r) ELSE kept
Only(list, S) == FoldLeft(LAMBDA kept, r : Keep(S, kept, r), <<>>, list)

(* Mutant: free() forgets the references.                                    *)
TablesOfNobody(requests, list) == <<>>

(* The blocks of the tables of a list of requests, one table after another.  *)
TablesOf(requests, list) ==
    FoldLeft(LAMBDA s, r : s \o requests[r].table, <<>>, list)

(* free() for those in list, one by one, and then release_all() for whatever *)
(* the prefix cache has: everything but the tree is let go.                  *)
LetGo(p, requests, list) ==
    /\ pool' = ReleaseAllBlocks(DecRefs(p, TablesOf(requests, list)))
    /\ queue' = <<>> /\ prefilling' = <<>> /\ running' = <<>>
    /\ req' = [r \in Requests |->
                  IF r \in Owned THEN [requests[r] EXCEPT !.table = <<>>, !.match = NoMatch]
                  ELSE requests[r]]

-----------------------------------------------------------------------------
(* The clients.                                                              *)
Submit(r, p, n) ==
    /\ pc \in LoopFree
    /\ future[r] = "new"
    /\ future' = [future EXCEPT ![r] = "pending"]
    /\ req' = [req EXCEPT ![r] = Request(p, n)]
    /\ queue' = Append(queue, r)
    /\ metrics' = [metrics EXCEPT !.submitted = @ + 1]
    /\ UNCHANGED <<tree, pool, prefilling, running, backend, pc>>

(* wait_for() gives up: the future is cancelled, the engine is not told.     *)
Timeout(r) ==
    /\ pc \in LoopFree
    /\ future[r] = "pending"
    /\ future' = [future EXCEPT ![r] = "timeout"]
    /\ metrics' = [metrics EXCEPT !.timeout = @ + 1]
    /\ UNCHANGED <<tree, pool, queue, prefilling, running, req, backend, pc>>

Shutdown ==
    /\ pc \in LoopFree
    /\ future' = Settle(Owned, "cancelled")
    /\ metrics' = [metrics EXCEPT !.cancelled = @ + Cardinality(Pending(Owned))]
    /\ LetGo(pool, req, prefilling \o running)
    /\ tree' = Collect(tree, {})
    /\ pc' = "stopped"
    /\ UNCHANGED backend

-----------------------------------------------------------------------------
(* The scheduler loop.                                                       *)
Wake ==
    /\ pc = "sleep" /\ ~pool.err
    /\ pc' = "admit"
    /\ UNCHANGED <<tree, pool, queue, prefilling, running, req, future, backend, metrics>>

(* The nodes that the match results of requests in prefill refer to.         *)
MatchedNodes(requests) ==
    UNION {{requests[r].match.node, requests[r].match.child} : r \in Requests}

(* Mutants: one request too many; a test that counts those who wait.         *)
MayAdmitOneMore == Len(running) + Len(prefilling) <= MaxBatch /\ queue # <<>>
MayAdmitFew == Len(running) + Len(prefilling) + Len(queue) < MaxBatch /\ queue # <<>>

MayAdmit == Len(running) + Len(prefilling) < MaxBatch /\ queue # <<>>

(* admit_requests, one request per step: match, reuse, allocate, and evict   *)
(* while there is no room.  The last case is the request that gets none: it  *)
(* leaves the queue, what it reused is given back, and the loop ends.        *)
Admit ==
    LET r == Head(queue)
        tokens == req[r].prompt
        m == Match(tree, tokens)
        reused == IncRefs(pool, m.blocks)
        room == EvictUntilRoom(m.tree, reused, Len(m.blocks), Len(tokens))
        start == [req[r] EXCEPT !.offset = m.offset,
                                !.match = [m EXCEPT !.tree = EmptyTree],
                                !.progress = m.pos]
    IN  /\ pc = "admit" /\ ~pool.err
        /\ MayAdmit
        /\ queue' = Tail(queue)
        /\ \/ /\ Remaining(tokens, m) = <<>>
              /\ tree' = m.tree
              /\ pool' = reused
              /\ req' = [req EXCEPT ![r] = [start EXCEPT !.table = m.blocks]]
              /\ prefilling' = Append(prefilling, r)
              /\ UNCHANGED <<metrics, pc>>
           \/ /\ Remaining(tokens, m) # <<>>
              /\ CanAllocate(room.pool, Len(m.blocks), Len(tokens))
              /\ pool' = Allocate(room.pool, Len(m.blocks), Len(tokens))
              /\ LET got == Allocated(room.pool, Len(m.blocks), Len(tokens))
                 IN  req' = [req EXCEPT ![r] = [start EXCEPT !.table = m.blocks \o got]]
              /\ tree' = Collect(room.tree, MatchedNodes(req'))
              /\ prefilling' = Append(prefilling, r)
              /\ UNCHANGED <<metrics, pc>>
           \/ /\ Remaining(tokens, m) # <<>>
              /\ ~CanAllocate(room.pool, Len(m.blocks), Len(tokens))
              /\ tree' = Collect(room.tree, MatchedNodes(req))
              /\ pool' = DecRefs(room.pool, m.blocks)
              /\ pc' = "prefill"
              /\ metrics' = [metrics EXCEPT !.oom = @ + 1]
              /\ UNCHANGED <<req, prefilling>>
        /\ UNCHANGED <<running, future, backend>>

AdmitNoMore ==
    /\ pc = "admit" /\ ~pool.err
    /\ ~MayAdmit
    /\ pc' = "prefill"
    /\ UNCHANGED <<tree, pool, queue, prefilling, running, req, future, backend, metrics>>

(* Mutants: a chunk may go past the end of the prompt; or over the budget.   *)
ChunkPastEnd(q, budget) == Min({budget, MaxChunk})
ChunkOverBudget(q, budget) == Min({MaxChunk, Len(q.prompt) - q.progress})

Chunk(q, budget) == Min({budget, MaxChunk, Len(q.prompt) - q.progress})

(* The chunk of each request in this step: the requests share a budget of    *)
(* MaxStep tokens in the order of the list, until it is used up.             *)
Give(s, r) ==
    LET chunk == Chunk(req[r], s.budget)
    IN  IF s.budget <= 0 THEN s
        ELSE [budget |-> s.budget - chunk,
              end |-> [q \in DOMAIN s.end \cup {r} |->
                          IF q = r THEN req[r].progress + chunk ELSE s.end[q]]]
ChunkEnds == FoldLeft(Give, [budget |-> MaxStep, end |-> <<>>], prefilling).end

(* prefill_step: requests whose last chunk this is enter the prefix cache,   *)
(* have their first token, and join the batch.                               *)
Prefill ==
    LET end == ChunkEnds
        last == {r \in DOMAIN end : end[r] = Len(req[r].prompt)}
        done == Only(prefilling, last)
        Cache(s, r) ==
            LET ins == Insert(s.tree, req[r].prompt, req[r].table, req[r].match)
            IN  [tree |-> ins.tree, pool |-> IncRefs(s.pool, ins.new)]
        cached == FoldLeft(Cache, [tree |-> tree, pool |-> pool], done)
    IN  /\ pc = "prefill" /\ ~pool.err
        /\ req' = [r \in Requests |->
                      IF r \notin DOMAIN end THEN req[r]
                      ELSE IF r \notin last THEN [req[r] EXCEPT !.progress = end[r]]
                      ELSE [req[r] EXCEPT !.progress = end[r], !.gen = 1, !.match = NoMatch]]
        /\ tree' = Collect(cached.tree, MatchedNodes(req'))
        /\ pool' = cached.pool
        /\ prefilling' = Only(prefilling, Requests \ last)
        /\ running' = running \o done
        /\ backend' = backend \cup DOMAIN end
        /\ pc' = "decode"
        /\ UNCHANGED <<queue, future, metrics>>

Capacity(q) == Len(q.table) * BlockSize - q.offset
TotalTokens(q) == Len(q.prompt) + q.gen

(* The running requests that need one get a block, in the order of the list; *)
(* those for which eviction makes no room go to oom.                         *)
Grow(s, r) ==
    LET len == Len(s.req[r].table)
        total == TotalTokens(s.req[r])
        room == EvictUntilRoom(s.tree, s.pool, len, total)
        roomy == [s EXCEPT !.tree = room.tree, !.pool = room.pool]
    IN  IF total <= Capacity(s.req[r]) THEN s
        ELSE IF ~CanAllocate(room.pool, len, total)
             THEN [roomy EXCEPT !.oom = Append(@, r)]
        ELSE [roomy EXCEPT !.pool = Allocate(@, len, total),
                           !.req[r].table = @ \o Allocated(room.pool, len, total)]
Grown == FoldLeft(Grow, [tree |-> tree, pool |-> pool, req |-> req, oom |-> <<>>], running)

Freed(requests, list) ==
    [r \in Requests |-> IF r \in ToSet(list) THEN [requests[r] EXCEPT !.table = <<>>]
                        ELSE requests[r]]

(* backend.release(): only finish_request() calls it.                        *)
Release(list) == backend \ ToSet(list)

(* Mutant: the loop polls instead of sleeping.                               *)
SleepNot ==
    /\ pc = "decode" /\ ~pool.err
    /\ running = <<>>
    /\ pc' = "admit"
    /\ UNCHANGED <<tree, pool, queue, prefilling, running, req, future, backend, metrics>>

Sleep ==
    /\ pc = "decode" /\ ~pool.err
    /\ running = <<>>
    /\ pc' = "sleep"
    /\ UNCHANGED <<tree, pool, queue, prefilling, running, req, future, backend, metrics>>

(* "OOM" for those who were refused a block, their tokens for the finished.  *)
Answered(refused, finished) ==
    [r \in Requests |-> IF r \in refused THEN Settle({r}, "error")[r]
                        ELSE Settle(finished, "result")[r]]

(* Those left to decode for; and those of them who end here: the ones in     *)
(* eos, and who has all the tokens it asked for.                             *)
Left(g) == Only(running, Requests \ ToSet(g.oom))
Finished(g, alive, eos) ==
    Only(alive, eos \cup {r \in Requests : g.req[r].gen + 1 >= g.req[r].max})

(* Each of those who are left has a token more.                              *)
Counted(g, alive) ==
    [r \in Requests |-> IF Contains(alive, r) THEN [g.req[r] EXCEPT !.gen = @ + 1]
                        ELSE g.req[r]]

(* decode_one_step, when someone is left to decode for, with g what growing  *)
(* has come to.                                                              *)
DecodeFor(g, alive, eos) ==
    LET finished == Finished(g, alive, eos)
    IN  /\ alive # <<>>
        /\ running' = Only(alive, Requests \ ToSet(finished))
        /\ req' = Freed(Counted(g, alive), g.oom \o finished)
        /\ pool' = DecRefs(g.pool, TablesOf(g.req, g.oom \o finished))
        /\ future' = Answered(ToSet(g.oom), ToSet(finished))
        /\ metrics' = CountEnds(ToSet(g.oom), ToSet(finished))
        /\ backend' = Release(finished)
        /\ tree' = Collect(g.tree, MatchedNodes(req))
        /\ pc' = "admit"
        /\ UNCHANGED <<queue, prefilling>>

(* The end of a sequence may come for anyone.  (g and alive have one value   *)
(* each: they are bound, not defined, because TLC would put a definition's   *)
(* text wherever it is used.)                                                *)
Decode ==
    /\ pc = "decode" /\ ~pool.err
    /\ \E g \in {Grown} : \E alive \in {Left(g)} : \E eos \in SUBSET ToSet(alive) :
          DecodeFor(g, alive, eos)

(* _fail_all_requests, when a step fails that has come to g: the loop ends.  *)
(* Before that the step has freed the tables of those in freed, and answered *)
(* and counted who was refused a block, and who is done.                     *)
FailAll(g, freed, done) ==
    LET left == Owned \ ToSet(g.oom \o done)
    IN  /\ future' = Answered(Owned \ ToSet(done), ToSet(done))
        /\ metrics' = [CountEnds(ToSet(g.oom), ToSet(done)) EXCEPT
                          !.oom = @ + Cardinality(Pending(left))]
        /\ LetGo(g.pool, g.req,
                 freed \o prefilling \o Only(running, Requests \ ToSet(freed)))
        /\ tree' = Collect(g.tree, {})
        /\ pc' = "dead"

(* Nobody is left: read_layer of the empty batch raises (torch.cat of no     *)
(* tensors, kv_cache.py:222).                                                *)
DecodeNobody ==
    LET g == Grown
    IN  /\ pc = "decode" /\ ~pool.err
        /\ running # <<>>
        /\ ToSet(running) \subseteq ToSet(g.oom)
        /\ FailAll(g, g.oom, <<>>)
        /\ UNCHANGED backend

(* The backend raises in batch_prefill or in batch_decode: torch is out of   *)
(* memory, or anything else went wrong.  What the backend already keeps for  *)
(* the requests of the call, which may be some of them only, stays there.    *)
Crash ==
    /\ ~pool.err
    /\ \/ /\ pc = "prefill" /\ prefilling # <<>>
          /\ \E S \in SUBSET DOMAIN ChunkEnds : backend' = backend \cup S
          /\ FailAll([tree |-> tree, pool |-> pool, req |-> req, oom |-> <<>>], <<>>, <<>>)
       \/ /\ pc = "decode" /\ ~(ToSet(running) \subseteq ToSet(Grown.oom))
          /\ backend' = backend
          /\ FailAll(Grown, Grown.oom, <<>>)

(* finish_request raises when it puts the answer of the k-th who is done     *)
(* into words (engine.py:350): those before are answered; this one is freed  *)
(* and released, and fails with all the others.                              *)
FinishFails ==
    /\ pc = "decode" /\ ~pool.err
    /\ \E g \in {Grown} : \E alive \in {Left(g)} : \E eos \in SUBSET ToSet(alive) :
          LET finished == Finished(g, alive, eos)
          IN  \E k \in DOMAIN finished :
                 /\ future[finished[k]] = "pending"
                 /\ backend' = Release(SubSeq(finished, 1, k))
                 /\ FailAll([g EXCEPT !.req = Counted(g, alive)],
                            g.oom \o SubSeq(finished, 1, k), SubSeq(finished, 1, k - 1))

Scheduler == Wake \/ Admit \/ AdmitNoMore \/ Prefill \/ Sleep \/ Decode \/ DecodeNobody

Next ==
    \/ \E r \in Requests, p \in Prompts, n \in Limits : Submit(r, p, n)
    \/ \E r \in Requests : Timeout(r)
    \/ Shutdown
    \/ Scheduler
    \/ Crash \/ FinishFails

Spec == Init /\ [][Next]_vars

(* What the splits that are still to come will hang into the tree, as the    *)
(* match at admission found it, and all that is below it.                    *)
ToPutBack ==
    ReachableFrom(tree, {req[r].match.child : r \in {q \in Requests : req[q].match.split}})

(* The loops of engine.py:143 and :272 evict no leaf with a block that such  *)
(* a split will put back into the tree (the finding evicted_match).          *)
SparesSplits ==
    pc \in {"admit", "decode"} =>
        \A n \in InTree(tree) \ InTree(tree') : \A m \in ToPutBack' :
            ToSet(tree.node[n].blocks) \cap ToSet(tree'.node[m].blocks) = {}

CarefulSpec == Init /\ [][Next /\ SparesSplits]_vars

(* The event loop gives the engine's task its turn when its sleep is over,   *)
(* and runs every timer that has expired whenever it has control again.      *)
(* Turn is what ENABLED Scheduler comes to, and the first conjunct is weak   *)
(* fairness of Scheduler with it written out.                                *)
Turn == pc \notin {"dead", "stopped"} /\ ~pool.err

Fairness == /\ []<>~Turn \/ []<><<Scheduler>>_vars
            /\ \A r \in Requests : SF_vars(Timeout(r))

FairSpec == Spec /\ Fairness

-----------------------------------------------------------------------------
Admitted == prefilling \o running
HoldersOf(b) == {r \in Requests : Contains(req[r].table, b)}
NodesWith == LET nodes == InTree(tree)
             IN  [b \in Blocks |-> {n \in nodes : Contains(tree.node[n].blocks, b)}]

TypeOK ==
    /\ pool.free \in Seq(Blocks) /\ pool.used \subseteq Blocks
    /\ pool.ref \in [Blocks -> Int]
    /\ {queue, prefilling, running} \subseteq Seq(Requests)
    /\ future \in [Requests -> {"new", "pending"} \cup Settled]
    /\ backend \subseteq Requests
    /\ pc \in LoopFree \cup {"admit", "prefill", "decode"}
    /\ \A r \in Requests : /\ req[r].prompt \in Prompts \cup {<<>>}
                           /\ req[r].table \in Seq(Blocks)
                           /\ req[r].progress \in 0 .. Len(req[r].prompt)
                           /\ req[r].gen \in Nat
    /\ \A m \in DOMAIN metrics : metrics[m] \in Nat

(* Whatever becomes of the counts of the blocks, and whichever way out of    *)
(* the engine a request takes: a block is in the free list, once, or in use, *)
(* so that allocate() (kv_cache.py:57) gives nothing away that is in use and *)
(* nothing twice, and no block disappears from both.                         *)
EachBlockIsFreeOrUsed ==
    IsInjective(pool.free) /\ ToSet(pool.free) = Blocks \ pool.used

(* A request is in one list at most, once; the batch is never larger than    *)
(* max_batch_size (engine.py:120); and blocks are held by admitted requests  *)
(* only, whichever of the ways out of the engine the others took.            *)
ListsAreSound ==
    /\ IsInjective(queue \o Admitted)
    /\ Len(Admitted) <= MaxBatch
    /\ \A r \in Requests : req[r].table # <<>> => Contains(Admitted, r)

(* ch10:125: a future is settled once.  A request that timed out while it    *)
(* ran is finished, refused a block, failed or shut down like any other, and *)
(* none of these may settle it again.                                        *)
SettledOnce ==
    [][\A r \in Requests : future[r] \in Settled => future'[r] = future[r]]_vars

(* The references of a block cover all who hold it: the tables and the nodes *)
(* of the prefix tree.  With less, the block is freed under one of them.     *)
HoldersAreCounted ==
    pc \notin {"dead", "stopped"} =>
        LET nodes == NodesWith
        IN  \A b \in Blocks :
                pool.ref[b] >= Cardinality(HoldersOf(b)) + Cardinality(nodes[b])

(* The blocks with a reference too many: they are never free again (ch12:194 *)
(* "inc and dec must be paired").                                            *)
Lost ==
    LET nodes == NodesWith
    IN  {b \in Blocks : pool.ref[b] > Cardinality(HoldersOf(b)) + Cardinality(nodes[b])}

(* match() would not return any more what it returned at admission.          *)
IsOutdated(r) ==
    LET now == Match(tree, req[r].prompt)
        then == req[r].match
    IN  <<now.node, now.child, now.pos>> # <<then.node, then.child, then.pos>>

(* A block is lost in one way only: a request enters the prefix cache with   *)
(* the match of its admission, although others who start alike have changed  *)
(* the tree since, before this step or in it, and replaces the node of one   *)
(* (prefix_cache.py:199).  No eviction, refusal, end or failure loses one.   *)
LostByReplacementOnly ==
    [][~ (Lost' \subseteq Lost) =>
          LET entering == ToSet(prefilling) \cap ToSet(running')
          IN  \E r \in entering :
                 \/ IsOutdated(r)
                 \/ \E o \in entering \ {r} : Head(req[o].prompt) = Head(req[r].prompt)
      ]_vars

(* engine.py:139: the evict-and-retry loop of admission ends without room    *)
(* only when the tables of the others, what the request reuses, and what is  *)
(* lost leave it too few blocks: the cache never costs anyone a place.       *)
RefusedForWantOfBlocks ==
    [][pc = "admit" /\ pc' = "prefill" /\ queue' # queue =>
          LET tokens == req[Head(queue)].prompt
              reused == Match(tree, tokens).blocks
              held == {b \in Blocks : HoldersOf(b) # {}} \cup ToSet(reused) \cup Lost'
          IN  NumNeed(Len(reused), Len(tokens)) > NumBlocks - Cardinality(held)
      ]_vars

(* dec_ref never lets go of a block that is not in use.                      *)
NothingReleasedTwice == ~pool.err

(* The positions of the tokens whose KV a request writes in its next prefill *)
(* and decode steps, as far as its table reaches.                            *)
WritesOf(r) == req[r].progress .. TotalTokens(req[r]) - 1

(* prefix_cache.py:20 "only complete blocks are reused": nobody else reads   *)
(* the block a request is going to write to, neither a request nor, through  *)
(* the prefix cache, one to come.                                            *)
WriteTargetIsPrivate ==
    \A r \in ToSet(Admitted) :
        \A b \in {req[r].table[(req[r].offset + i) \div BlockSize + 1] :
                     i \in {j \in WritesOf(r) : j < Capacity(req[r])}} :
            /\ HoldersOf(b) = {r}
            /\ r \in ToSet(running) => NodesWith[b] = {}

(* The table of an admitted request covers the prompt and, when it runs, all *)
(* tokens but the last one, which has no KV yet: no write is out of range.   *)
TableCoversTokens ==
    /\ \A r \in ToSet(prefilling) : Capacity(req[r]) >= Len(req[r].prompt)
    /\ \A r \in ToSet(running) : Capacity(req[r]) >= TotalTokens(req[r]) - 1

(* One prefill step computes at most MaxStep tokens (ch09:102), and a        *)
(* request gets some only when all that were admitted before it have all     *)
(* they may have.                                                            *)
Computed(r) == req'[r].progress - req[r].progress
PrefillWithinBudget ==
    [][pc = "prefill" /\ pc' = "decode" =>
          /\ SumFunctionOnSet([r \in Requests |-> Computed(r)], Requests) <= MaxStep
          /\ \A i, j \in DOMAIN prefilling :
                i < j /\ Computed(prefilling[j]) > 0 =>
                    LET q == req[prefilling[i]]
                    IN  Computed(prefilling[i]) = Min({MaxChunk, Len(q.prompt) - q.progress})
      ]_vars

(* native.py:406: the backend keeps nothing for a request that has left the  *)
(* engine, by whichever door, while the engine goes on.                      *)
BackendForgets ==
    pc \notin {"dead", "stopped"} => \A r \in backend : Contains(Admitted, r)

(* ch15:131: a request that finds no block is not fatal to the engine.       *)
NoRoomIsNotFatal ==
    [][pc = "decode" /\ running # <<>> /\ ToSet(running) \subseteq ToSet(Grown.oom)
          => pc' # "dead"]_vars

(* Every request is counted by its outcome; and only one whose client gave   *)
(* up, or that admission dropped, may be counted once more, or twice: as     *)
(* "oom" and as "cancelled" (engine.py:281-291 and :330-334).                *)
OutcomesAreCounted ==
    LET Number(value) == Cardinality({r \in Requests : future[r] = value})
        dropped == {r \in Requests : future[r] = "pending" /\ r \notin Owned}
        answered == Number("error") + Number("cancelled")
    IN  /\ metrics.submitted = Cardinality(Requests) - Number("new")
        /\ metrics.success = Number("result") /\ metrics.timeout = Number("timeout")
        /\ metrics.oom >= Number("error") /\ metrics.cancelled >= Number("cancelled")
        /\ metrics.oom + metrics.cancelled
              <= answered + 2 * metrics.timeout + Cardinality(dropped)

(* Every submitted request is answered, be it by its timeout.                *)
EveryoneIsAnswered ==
    \A r \in Requests : future[r] = "pending" ~> future[r] \in Settled

(* Without any timeout: as long as the loop is not over a request leaves the *)
(* queue, and an admitted one leaves the engine (ch07:147 "no starvation").  *)
QueueMovesOn ==
    \A r \in Requests :
        Contains(queue, r) ~> \/ pc \in {"dead", "stopped"}
                              \/ ~Contains(queue \o Admitted, r)

(* The engine as its clients see it (Service): in line, in the batch, tokens *)
(* one by one, one answer.  Where a prompt may find no room, admission lets  *)
(* the request it fails for go without an answer (engine.py:149-155).        *)
Answering == INSTANCE Service
    WITH waiting <- queue, batch <- ToSet(Admitted),
         limit <- [r \in Requests |-> req[r].max],
         got <- [r \in Requests |-> req[r].gen],
         answer <- future, over <- pc \in {"dead", "stopped"}, MayDrop <- FALSE

Dropping == INSTANCE Service
    WITH waiting <- queue, batch <- ToSet(Admitted),
         limit <- [r \in Requests |-> req[r].max],
         got <- [r \in Requests |-> req[r].gen],
         answer <- future, over <- pc \in {"dead", "stopped"}, MayDrop <- TRUE

(* Every request that is not given up by its client is answered by the       *)
(* engine, once, in the order of submission, with one token per step of the  *)
(* batch and, but for the second, which everyone gets, never more than it    *)
(* asked for.                                                                *)
AnswersEveryone == Answering!Spec

(* The same where the pool may be too small for a prompt.                    *)
AnswersTheAdmitted == Dropping!Spec

=============================================================================
