# mini-runtime in TLA+

A verification development of `mini_runtime`, an LLM inference runtime: an
asyncio engine that batches requests, computes their prompts in chunks, decodes
them token by token, keeps their attention state (KV) in a pool of fixed blocks
with reference counts, and shares blocks between prompts through a radix tree.
The source is `src/mini_runtime/`; the book under `src/book/` is its design
document, and the tests under `src/tests/` exercise cache and manager. The
runtime the engine replaced, with static batches and worker tasks, is kept as
`src/archive/runtime_v0.py` and is modelled too.

Contents: [1 the system](#1-the-system) - [2 the modules](#2-the-modules) -
[3 the runs](#3-the-runs) - [4 fairness](#4-fairness) -
[5 the proofs](#5-the-proofs) - [6 findings](#6-findings) -
[7 not modelled](#7-not-modelled) - [8 plan](#8-plan)

## 1 The system

### Components, their state and their operations

| component | state | operations |
|---|---|---|
| `KVCacheManager`, `BlockTable` (`cache/kv_cache.py`) | per block a `ref_count`; `free_blocks_ids` (a deque, FIFO), `used_blocks_ids`; per request a table of block ids with an offset | `allocate`, `inc_ref`, `dec_ref`, `free`, `release_all` |
| `BlockPool` (same file) | per block and layer the K and V tensors, created at the first write, dropped at release | `write_token`, `write_chunk_kv`, `read_layer`, `release` |
| `PrefixCache` (`cache/prefix_cache.py`) | a radix tree; a node has an edge (tokens), blocks, an offset within the first, its last access; a clock | `match`, `insert` (new branch, or split of an edge), `evict` (the LRU leaf) |
| `Engine` (`engine.py`) | `waiting_queue`, `prefilling_requests`, `running_requests`; per request its table, match result, progress, tokens, future | clients: `submit`, timeout, `shutdown`; loop: `admit_requests`, `prefill_step`, `decode_one_step`, `finish_request`, `_fail_all_requests` |
| `NativeBackend` (`backend/native.py`) | `_past_len` per request | `batch_prefill`, `batch_decode`, `release`; any of them may raise |
| metrics | counts of requests by outcome, of steps, sums of times | changed where a request is submitted, answered, refused or gives up; read by reports |
| first runtime (`archive/runtime_v0.py`) | `request_queue`, `batch_queue`; the scheduler's list, each worker's batch; metrics | `submit`, timeout, `scheduler`, `worker`, `shutdown` |
| profilers, model, benchmark driver | records, weights | read by reports only |

### How they interact

The engine is one asyncio task. Its loop admits requests, runs one prefill step
and one decode step, for ever. It calls manager, cache and backend directly, so
a whole step is atomic; the task suspends in **one** place, the
`asyncio.sleep` of `decode_one_step` when nothing runs (`engine.py:251`).
`submit()`, the timers of `wait_for` and `shutdown()` run while it sleeps there,
or after the loop has ended. (The other `await`s of the loop call coroutines
that do not suspend, and `Queue.put` on a queue without bound does not either.)

Admission matches the prompt in the tree, takes a reference on every block it
reuses, allocates the rest, and evicts leaves until there is room. The match
*result*, which names nodes of the tree, is kept until the last prefill chunk,
where `insert` uses it and the engine takes one reference per new block for the
cache. In between other requests are admitted, inserted and evicted. Decode
grows a table by a block when needed, evicts for that too, and frees who finds
no room. Finishing frees the table; blocks in the tree live on through the
cache's reference.

The first runtime is several tasks over two queues. `submit()` puts a request
into the first; the scheduler takes requests out one by one and puts a batch into
the second when it is full or when no request has come for `batch_timeout`;
each worker takes a batch, generates and settles the futures. `shutdown()` joins
the first queue, then the second, and cancels scheduler and workers. The tasks
interleave at every `await`, and the queues' counts of unfinished items are what
tells `shutdown()` that the work is done.

### What is hard here

- references are counted in five places and must agree with two kinds of holders
  that come and go in any order (tables, tree nodes);
- a match result is stale when it is used: after the eviction loop that follows
  it, and after all that happens up to the last chunk;
- splitting an edge has to cut tokens and blocks consistently when the fork lies
  within a block;
- a request can leave by six doors (finished, no room at admission, no room at
  decode, failure of a step, shutdown, client timeout while it is anywhere), and
  on each its future is to be settled once, its blocks given back once;
- the pool may be full at each of the points where a block is asked for;
- the engine starves everything else on the event loop while a batch runs;
- in the first runtime work moves through five places (queue, list, queue, worker,
  answer) between which tasks interleave, and the shutdown has to know from two
  counters that no place holds any.

`PROJECT.json` lists these as hazards, each at its line with the properties that
cover it.

### What makes each component correct

- *manager*: the count of a block is the number of its holders; free list and
  used list partition the blocks accordingly; tensors exist for blocks in use
  only, and are dropped with the last holder; a block handed out is clean.
- *tree*: a match lies within a served prompt, is the longest, comes with blocks
  that cover it and hold its KV; eviction takes the LRU leaf and nothing else;
  the cache never keeps a prompt that fits from its room.
- *backend*: what is read for a request is the KV of its own tokens, in order and
  complete, whatever batches it was in; a token is decoded from all tokens before
  it; KV that is there is never written again.
- *engine*: batch and lists are sound; everybody is answered, once; references
  cover holders; a block somebody writes to has no other reader; tables are as
  long as what is written; the prefill budget is kept, in order; the loop never
  stops serving; a block is lost in the one known way only; outcomes are counted.
- *first runtime*: a request does not wait for company for ever; batches and
  counts add up; `shutdown()` ends, and not before the batches are done.

## 2 The modules

| module | models | |
|---|---|---|
| `KVCacheManager` | the manager as a state machine, in the uses the engine makes of it; the users keep their side | proved in `KVCacheManager_proofs` |
| `KVBlocks` | the manager's methods as operators on a record, step by step, assuming nothing of the caller | used by `PrefixCache` |
| `PrefixCache` | `match`, `insert`, `evict` as operators on a heap of nodes | used by the next two |
| `PrefixReuse` | one request at a time through tree and manager, with the content of every slot | |
| `Engine` | clients, scheduler loop and backend over tree and manager | proved in `Engine_proofs`, its data in `EngineData_proofs` |
| `NativeBackend` | `batch_prefill`, `prefill`, `batch_decode`, and the slots of `BlockPool`; the engine is its environment | proved in `NativeBackend_proofs` |
| `RuntimeV0` | the first runtime: clients, scheduler, workers, shutdown, with their tasks interleaved | proved in `RuntimeV0_proofs` |
| `BlockOwnership` | abstract: blocks have owners and data, nothing is counted | implemented by `KVCacheManager`; proved in `KVCacheManager_proofs` |
| `Service` | abstract: a line, a batch, tokens in lockstep, one answer | implemented by `Engine`; `Service_proofs` |
| `Folding` | nothing of the code: what `FoldLeft` and `FoldSet` do, and an induction, for the proofs | used by the proofs about folds |
| `MCKVCacheManager`, `MCPrefixReuse`, `MCEngine`, `MCNativeBackend`, `MCRuntimeV0` | instances for TLC: prompts, symmetry | |

Definitions commented `Mutant` are variants of the definition below them with a
plausible mistake (a dropped guard, a missing reset, an off-by-one). No
specification uses them. They say of a property what it can find: with the
variant in place of the original TLC reports that property violated;
`PROJECT.json` pairs them.

### KVCacheManager

`ref`, `free`, `used`, `stored` are `ref_count`, `free_blocks_ids`,
`used_blocks_ids`, and the blocks whose entry in the pool is not `None`. `table`
and `matched` are per request; `cached` is the set of blocks the tree holds, the
tree itself being abstracted away. Each action is one atomic use: `Admit`
(`inc_ref` on the reused blocks, `allocate`), `Insert` (last chunk: the cache
counts the fresh blocks), `Grow` (decode), `Write` (prefill and decode write KV),
`Free`, `Evict`, `ReleaseAll`. Two loops of the code are closed forms here:
allocation takes a prefix of the free list, and `dec_ref` over a table appends
the released blocks to the free list in table order (`InOrderOf`). Evict may come
at any time, of any sequence of cached blocks, which covers every order the LRU
rule may produce.

The module states the contract: it supposes that the cache holds what it was
given and that a table does not reuse a block twice. `Engine` and `PrefixReuse`
use `KVBlocks`, where nothing is supposed, and this is where the contract turns
out to be broken in the corners that section 6 lists.

### BlockOwnership

What the manager promises its users: a block has a set of owners; it comes to its
first one blank; only an owner writes; the data stay exactly as long as somebody
owns the block. `KVCacheManager` implements it (`ImplementsOwnership`) with
`owners` mapped to the holders of each block, tables and cache alike, and `data`
to `stored`. Reference counts, free list and the order of the loops do not occur
in it: they are how the manager keeps the promise.

### KVBlocks and PrefixCache

`KVBlocks` has `DecRef` with its three cases: the count is not 1; it is 1 and the
block is in the used list; it is 1 and it is not (`list.remove` raises:
`err`). `PrefixCache` keeps nodes in a function from ids, because `match()` hands
out node references which `insert()` uses later whatever happened to them, and
the dicts of children in another, because a split makes the tail node *share*
the dict of the node it replaces (`prefix_cache.py:165`); a request whose match
result still names the old node then changes the tail's children. `Collect` drops
what neither the tree nor a match result reaches, which is garbage collection
and has no effect on behaviour. `Descend` is one turn of the loop of `match`,
`EvictUntilRoom` the evict-and-retry loop around `allocate`.

### PrefixReuse

`Serve` is a request from match to free; `ServeFails` is one for which not even
an empty tree has room, so that everything is evicted in vain; `Evict` is `evict()` called from outside, as
`tests/test_evict.py` does. `data` holds what each slot was last written with: the
KV of a token depends on the tokens before it, so a slot holds the token sequence
up to its own. That makes "reused KV is right" a statement about content.

### Engine

`pc` is where the loop is (`sleep`, `admit`, `prefill`, `decode`, and the end
states `dead` after `_fail_all_requests`, `stopped` after `shutdown`). `Admit` is one turn of the
loop of `admit_requests`, `AdmitNoMore` its exit; `Prefill` is all of
`prefill_step`; `Decode`, `DecodeNobody` and `Sleep` are `decode_one_step` with
somebody left to decode for, with nobody left because all were refused, and with
nobody running; `Crash` is an exception out of a call of the backend, in prefill (when some of the
requests may have been recorded already) or decode; `FinishFails` is one out of
`finish_request`, where it asks the backend for the text of an answer: those who
finished before it in the same step are answered, this one is freed and released but
not answered. All of these go through `FailAll`, which is `_fail_all_requests` together with
what the step had done by then: who was refused a block is freed, answered and counted, and everyone who
is left is freed one by one (`LetGo`), then answered, before `release_all` empties the pool
under the tree. `Shutdown` goes through `LetGo` too. Clients' actions need the loop to be suspended or over. A timeout
may come at any moment the event loop has control, whatever the request's state.
The end of a sequence is a choice at every decode step.

`Decode` is put together from who found no room (`Grown.oom`), who is `Finished`
after the token of this step, and who has `Left` the list either way. `Answered`
is what becomes of the futures, `DecodeFor` the whole handler for one choice of
who ended. `metrics` counts `submitted`, `success`, `timeout`, `oom` and
`cancelled` at every place that does so; steps and times are left out. The
counts of a request that timed out while it was in the engine are the code's:
it is counted as `timeout`, and again as `cancelled` when it finishes, and once
more as `oom` when it is refused a block on the way.

`CarefulSpec` is `Spec` without the steps in which an eviction loop takes a leaf that
has a block in common with what a pending split will put back into the tree (`SparesSplits`). The
run `evicted_match` shows what such a step leads to, in the code as in the model; `CarefulSpec` is
there to ask whether anything *else* goes wrong when prompts fork, edges are split and leaves
are evicted around one another. Where no prompt is forked it is `Spec`.

### Service

The engine as its clients see it: `Submit` to the line, `Enter` the batch in this
order, a `FirstToken`, then `Step`: one token for each who has the first, some of
whom find no room and some of whom are done. `End` answers everybody, and `Break` is
a step that fails halfway, with an answer for those who were done by then and an error for all
others. The
mapping takes `waiting_queue` for the line, prefilling and running requests for
the batch, generated tokens for tokens got. `Engine` implements it twice: with
`MayDrop` false where every prompt has room (`AnswersEveryone`), and with `MayDrop`
true where admission may fail and let go of a request without an answer
(`AnswersTheAdmitted`). The second is also proved, for every instance, so that
whatever is a theorem of `Service` is true of `Engine` (section 5).

### NativeBackend

`kv` is `pool._blocks`, one function from slots per block that has tensors;
`past` is `_past_len`; `req` and `phase` are what the engine passes in with each
call. KV and logits are abstracted to *the tokens they were computed from*:
`Attend` gives the sequence a row depends on, and `Junk` if the columns it sees are
not the KV of one sequence from its start. `Read` and `PastColumns` are
`read_layer` (blocks without tensors are skipped, the first block begins at the
offset, short pasts are padded), `Visible` is the mask, `Stored` and `Written` are
`write_chunk_kv` or `write_token`, `Filled` is `write_blocks`, `BatchPrefill` is all
of `batch_prefill` with its two kinds of input, `Decode` all of `batch_decode` with
the engine's test for the end of a sequence. `PrefillChunk` and `PrefillFull` are
the two branches of the unbatched `prefill`, which the engine no longer calls: the
public interface of the backend still has it, and the chunk branch leaves its
KV to be read by the batched calls.

The environment is the engine's contract: a table's fresh blocks are nobody
else's, reused ones are full and hold the beginning of the prompt, a table is
extended before it is too short, and the last holder's leaving drops the tensors.
It is wider than the engine in one way: a prefill step takes any waiting requests
and chunks of any size. `shared_tail` and `evicted_match` show where the engine breaks this
contract; here it is kept, and the backend's own part is checked. `Offsets` is
`{0, 1}` because tables can begin within a block
(`tests/test_offset.py`). A full prefill comes only before any chunk of the
request, and, when its table begins within a block, only if that block is reused:
`write_blocks` knows of no offset.

A row of padding attends to nothing. The model supposes that its values do not
reach other rows through the mask; with versions of torch whose attention gives NaN
for such rows, they might.

### RuntimeV0

A step is what a task does between two suspensions: `Take` is the scheduler's
`get()` with all that follows until the next one, `HandOverRest` the expiry of the
batch timer, `Start`, `Generate`, `Finish` and `Fail` are a worker's way through a
batch (`generate_batch` is called once for each request of the batch, each time for all of
it), `Shutdown` and `ResumeShutdown` the parts of `shutdown()` between its two joins, and
`Timeout` is `wait_for` giving up at any time. A join ends when the last item is
marked done, which is how `Take` and `Return` change `stage`. `due` is a history
variable: who was in a batch when `shutdown()` was called.

## 3 The runs

All runs use blocks of two tokens: the smallest size at which a block can be
partly filled, so that "within a block" and "at its boundary" differ. Distinct
states are given in parentheses.

| run | bounds | what it shows |
|---|---|---|
| `kv_manager` (105 766) | 2 requests, cache, 3 blocks, up to 5 tokens | counts are exact, nothing is lost or given out twice, a request's fresh blocks are its own; the manager implements `BlockOwnership` |
| `prefix_paged` (9 388) | 5 prompts of whole blocks and one longer than the pool, up to 4 served, 7 blocks; 2 evictions from outside | the tree finds the longest cached prefix; its blocks hold that prefix's KV; eviction takes the LRU leaf only, also when everything is evicted in vain |
| `engine_roomy` (535 094) | 3 requests, limits 1 and 3, batch of 2, chunks of 2 under a budget of 3, 8 blocks | chunking, reuse, timeouts, failures and shutdown everywhere: the engine implements `Service`, nobody is settled twice, writes are private, the budget is kept in order |
| `engine_tight` (489 675) | as above, limits 1 and 4, 4 blocks, two prompts of 2 blocks that fork and one of 3; `CarefulSpec` | the same while admission and decode evict and refuse, and edges are split: `Service` with `Drop`; references cover the holders, one is lost in one way only, nothing is released twice by any way out, tables are long enough, no block is missing from both lists or in both, admission refuses for want of blocks only, outcomes are counted |
| `engine_live` (108 391) | 3 requests, two prompts, batch of 2, 3 blocks, fairness | everybody is answered, the queue moves, also for who waits while the batch is full |
| `backend` (25 380) | 3 requests, 4 blocks, chunks up to 2, prompts of 1 to 3 tokens, batched and unbatched calls mixed | each request reads its own KV and nothing else, decodes from all its tokens, and no KV is overwritten, whatever is batched with what |
| `runtime_v0` (45 424) | 3 requests, 2 workers, batches of 2, fairness | batches add up, nobody waits for ever, a shutdown ends and waits for the batches |
| `shared_tail`, `no_room`, `kept_past`, `evicted_match`, `first_token` | 2 requests, or 3 served | one disagreement each between the code and what it says of itself: section 6 |

Why these bounds are enough for the interesting cases. Three blocks and two
requests let a block be shared by two tables and the cache while another is
fresh and a third free. Four served prompts of up to three blocks give a tree
with a split, a further split below it, and an eviction in between. A batch of
two of three requests makes the third wait for whoever leaves; chunk 2 and
budget 3 make a second request's chunk end off a block boundary, and make a
budget run out within the list. Four blocks for prompts of up to three make
admission fail, decode fail, and both after evictions of some or all leaves, one of which may be the
part of a split edge. `Limits` of 4 let a running
request cross a block boundary in decode, and limits of 1 are the case in which it gets one token more than
it asked for. In `prefix_paged` and the three `engine` runs prompts
are whole pages that diverge at page boundaries. This is a restriction and it is deliberate:
outside it the code does what section 6 says, and inside it everything holds.

In `backend`, prompts of one to three tokens give pasts and chunks of different
lengths in one batch, two of them share a first block, and three decoded tokens cross a
block boundary. In `runtime_v0` three requests make a full batch and a partial one, which
two workers may have at the same time, and a timeout, a failing call or
the shutdown may fall between any two of their steps.

Symmetry: requests are interchangeable in every safety run, and so are the blocks in
`backend`, where the environment chooses them in any order; `engine_live` and
`runtime_v0`, which check liveness, use none. The refinements are checked under
symmetry: they are safety properties, and the mapping treats all requests
alike.

Deadlock is checked in `kv_manager` only. The other models stop where the
system does: a `PrefixReuse` that has served its bound, a `NativeBackend` whose requests are gone, an `Engine` that is dead
or stopped and whose requests are all settled, a `RuntimeV0` whose tasks are cancelled.

## 4 Fairness

`FairSpec` assumes of the asyncio event loop:

1. the scheduler's task gets its turn: weak fairness of `Scheduler`. It is
   written out with `Turn`, the state predicate that says when `Scheduler` is
   enabled (the loop is not over), because evaluating ENABLED on `Prefill` and
   `Decode` makes TLC many times slower;
2. a timer that has expired fires: strong fairness of `Timeout(r)`. It is strong
   because a timer fires only while the loop is suspended, and the suspensions
   come and go; asyncio runs every expired timer each time it has control.

Nothing is assumed of clients, `Shutdown`, `Crash` or `FinishFails`: they may never come. With
(1) alone, `QueueMovesOn` says that the batch drains: each decode step gives each
running request a token up to its limit. `EveryoneIsAnswered` needs (2) as well,
precisely because of the request that is refused at admission and never
answered (section 6): only its timeout settles it.

`FairSpec` of `RuntimeV0` is weak fairness of each thing a task does: `Take` and
`HandOverRest` of the scheduler (its task gets its turn, and the timer of a `get()`
that brings nothing expires), `Start(w)` of each worker, `Generate(w)`, `Finish(w)` or
`Fail(w)` (a call comes back, one way or the other) and `ResumeShutdown`. It
is weak because an `asyncio.Queue` hands an item to a waiting task, so nobody can
take a turn away for ever: what `Start(w)` waits for is there until a worker
takes it, and there are finitely many. Clients, timeouts and `Shutdown` may
never come.

## 5 The proofs

`KVCacheManager_proofs` proves, for every finite set of requests, every number of
blocks, every block size and token bound:

| theorem | says |
|---|---|
| `TypeCorrect` | types; no table and no free list repeats a block; an idle request holds none |
| `RefCountsExact` | the count of a block is the number of tables with it, plus one if it is cached |
| `NoLeakNoDoubleUse` | a block is free exactly when it is unreferenced, in use exactly otherwise |
| `TensorsAreReturned` | only blocks in use have tensors |
| `FreshBlocksExclusive` | what admission allocated has one holder until it is cached |
| `TensorsOutliveHolders` | no step drops the tensors of a block somebody holds after it |
| `AllocatedBlocksAreClean` | a block that enters a table from the free list had no holder and no data |

Assumptions: `RequestsAssumption` (finitely many requests, the cache is not one),
`SizesAssumption` (naturals, block size positive).

The inductive invariant is `IInv`, the conjunction of the five state properties;
no part is inductive alone. The count of a block is only right after a
release if it was right before and the table repeats no block (`TypeOK`). The
free list stays without repetition only if what is appended was in use
(`FreeIffUnreferenced`), and what is released was in use only because somebody
held it and counts are exact (`RefCountIsHolders`). `Insert` adds one holder
to each fresh block only if the cache did not hold it before, which is
`FreshBlocksAreOwned`, and that stays true when others allocate because an
allocated block comes from the free list and has no holder. Lemmas: cutting and
joining sequences without repetition (`SplitDistinct`, `JoinDistinct`), what is
appended to the free list (`InOrderOfEnumerates`), holders and counts under
allocation and release (`AllocateKeepsCounts`, `DecRefKeepsCounts`), then one
lemma per action and `NextKeepsIInv`. The two action properties follow from
`IInv`: a released block had count 1, so one holder, the one that leaves.

Of `BlockOwnership` the same module proves that a block nobody
owns is blank (`UnownedIsBlank`) and that data come and go with owners
(`DataBelongToOwners`), and then that the manager implements
it for every size (`Implements`): each action of the manager maps to one of
`BlockOwnership`. Joining and leaving are shown per block, from `RefCountIsHolders`:
the blocks released are those whose count was 1, which are those whose only
holder leaves (`PartIsLeave`); the blocks allocated are free, so nobody's, so
without data (`JoinIsAcquire`). `IInv` is what makes these steps go through.
`NoStaleData` carries `DataBelongToOwners` over to the manager. This is the
argument why a reused block never shows what an earlier owner wrote.

`Service_proofs` proves of the service, for every set of requests and limits
(`Parameters`: finitely many requests, limits and batch size are naturals):

| theorem | says |
|---|---|
| `BatchIsBounded` | types, and the batch never exceeds `MaxBatch` |
| `NobodyForgotten` | without `Drop`, who has no answer is in line or in the batch |
| `NoTokenTooMany` | nobody gets more tokens than asked for, but for the two everyone gets |
| `OneAnswerEach` | an answer is never changed |
| `InLockstep` | no one in the batch gets ahead of another |

from one inductive invariant: nobody is in line twice or both in line and batch,
who is in line has no token, who stays in the batch is below the limit.

`Engine_proofs` starts with what each operation of `KVBlocks` and `PrefixCache` keeps of a pool
and of a tree, which `EngineData_proofs` needs, and then proves of the engine itself, for any finite set of
requests, any prompts that are not empty, limits, batch, chunk and step sizes
(`EngineAssumption`), any pool, and whatever the tree does:

| theorem | says |
|---|---|
| `FuturesAreSettledOnce` | a future is settled once |
| `EngineInvariant` | the inductive invariant below |
| `ListsStaySound` | nobody is in two lists, or twice in one; the batch is within `max_batch_size`; only who was admitted holds blocks |
| `EveryOutcomeIsCounted` | the counters agree with the futures, and what is counted twice is bounded |
| `EngineImplementsService` | every step of the engine is one of `Service`, or a stutter |
| `NobodyGetsTooMuch` | through the refinement: no request has more tokens than it asked for, but for the two everyone gets |
| `BatchStaysInStep` | through the refinement: who goes on running gets as many tokens in a step as the others |

The inductive invariant (`EngineInv`) says of each request in which *place* it is
(`IsInPlace`): who was not submitted is in no list and holds nothing; who is in the queue
is in no other list, holds nothing and has no token; who is in prefill has
no token and is not running; who runs has at least one and, from its second, fewer than
its limit; who is nowhere holds no blocks. The lists alone would not do: that
an admitted request is not in a list already comes from its having been in the
queue, that a batch never has too many from `MayAdmit`, and that the filter
which takes finished requests out of `running` takes out all of them from no list
having anyone twice. For each action one lemma says where it moves whom
(`AdmitMoves`, `PrefillMoves`, `DecodeMoves`, `AllIsLetGo`), and the invariant, the
counts and the refinement are all proved from these.

`OutcomesAreCounted` bounds what is counted twice by the number of timeouts, which is
not inductive: a request that timed out and is still in the engine will be counted
again. `CountInv` counts those who have *left* since (`Gone`), and who was dropped
at admission, and adds them to what may have been counted.

The step from the engine to the service needs that
the lists keep their order, so that the head of `waiting_queue` is who enters, and that the prefill and decode loops
give each request what one step of `Service` gives it. These loops are folds
over the lists. What a fold does is induction over data, for which the
library's theorems have an operator as parameter and cannot be cited. `Folding`
gets around this: `IntervalInduction` takes a *set* in place of the predicate and
rests on every set of naturals having a least element (`WFMin`); `FoldIsDefined`
proves with it that the recursion over subsets by which the community modules
define a fold has a solution; and `FoldSteps` that the fold then is the last of a
series of states, each made by one step from the one before. What the loops
preserve is proved along this series (`OnlyThose`: a filtered list keeps order and has those
of the set; `GrownOnlyGrows`: growing tables changes tables only, and refuses only who
runs; `ChunksOfThePrefilling`). The filters of `Engine` are written as folds over a named
step (`Only`) for this reason.

Nothing about blocks and tree is needed for any of this, and nothing is assumed of them: the
engine's own order of business is right whatever `match`, `insert` and `evict` return.

`EngineData_proofs` proves what becomes of the data, for any requests, prompts, pool and sizes:

| theorem | says |
|---|---|
| `NoReferenceDangles` | the inductive invariant below |
| `EngineTypesHold` | tables and free list name blocks of the pool, nobody's progress passes the end of its prompt, no counter is negative |
| `NoBlockGoesMissing` | a block is in the free list, once, or in use; never in both, never in neither |
| `PrefillStaysWithinBudget` | a prefill step keeps within its budget, and goes down the list in order |

The inductive invariant is `DataInv`. The tree is a heap whose nodes name dicts that are there, and
whose dicts name nodes that are there (`IsHeap`), the children of a node that a split
or an eviction took away included. A match result names nodes of the heap, the position it
gives is within the prompt, and where a split is pending the child's edge is
longer than what matched of it (`IsMatch`, `ReferencesHold`): without this
`SplitEdge` would take the token after the end of an edge. This is where stale results
matter. An eviction, an insert or another split between a match and its
`insert` changes dicts but no edge and no blocks of a node (`HasNodesOf`), and garbage collection keeps what a
result names (`CollectIsHeap`). The pool (`IsPool`) needs nothing of this: `dec_ref` moves a block
from one list to the other or touches neither, whatever its count is, so that each block is in one of them
even in the states of section 6 where counts are wrong.
`match`, the eviction loop, the prefill loop and the growing of tables are folds, and
`Folding` carries them, those over sets included (`SetFoldSteps`). The tokens of a prefill step are
summed along the list by the code and over the set of requests by the property; that this is the same
is `SumsAgree`, which rests on the order of a fold over a set not mattering (`SetFoldAnyOrder`).

`RuntimeV0_proofs` proves `ShutdownWaits`, `EachRequestIsInOnePlace` and `MetricsAddUp`. The first: when the tasks are cancelled, everyone has
an answer who was in a batch when `shutdown()` was called, for any number of
requests, workers and any batch size. The invariant says that who is due and without an
answer is in a batch in the queue or with a worker (`DueAreHeld`), and that
nobody is, once the second join has ended (`DueAreDone`). It needs that only who was
submitted is in a batch (`NobodyIsNew`): a request that is not submitted yet is settled by
nobody. `RuntimeAssumption`: finitely many requests and workers, batches of at least one.

`EachRequestIsInOnePlace` is about who is where: a request is in one place at most,
and no batch is empty or too large.

`MetricsAddUp` says that `BatchesAddUp` always holds. Its invariant says where a
request is: entering (in the queue or the scheduler's list), held (in a batch), or
neither, and in one batch at most (`PlaceInv`); and that `total_batch_size` *is* the number of
requests that were submitted and are not entering (`Put`), and `cancelled` at most
the number of errors and of those who gave up and have left their batch (`Gone`). The
bounds of `BatchesAddUp` are then inclusions between sets of requests.

`NativeBackend_proofs` proves all that the run `backend` checks, for any finite
sets of requests and blocks, any prompts of positive numbers, any block size, offsets within a
block, chunk size and number of tokens (`BackendAssumption`):

| theorem | says |
|---|---|
| `BackendReadsItsOwn` | what a request reads is the KV of its own tokens, each computed from all before it, and `_past_len` is their number |
| `BackendDecodesFromAll` | from its second token on, a token is computed from the prompt and all tokens before it |
| `BackendWritesOnce` | a slot that has KV is not written again while its block has tensors |
| `BackendIsTyped` | blocks of the pool only, and nobody has too many tokens |

The inductive invariant (`IInv`) is about slots. The slots of the tokens whose
KV has been computed, `TokensOf`, hold it (`HoldsInv`); those after them, as far as the
table goes, hold nothing (`BlankInv`); a block that two tables name ends before either of the two
will write again (`SharedInv`); a table repeats no block and has room (`Room`); and `_past_len` is the
number of these tokens once there is one, and before that the request is at the beginning
or at the end of a block (`PastInv`), which `_prefill_full` counts on. The argument
is then the same for every action. *Reading* (`Reading`): the code joins the slots of the
blocks one after the other, skipping those without tensors; if the tokens stand in their slots
this gives them in order, and cutting the result at the past length removes
exactly what is not theirs, padding included (`VisiblePast`). *Computing*: a row that attends to the KV of the
first tokens, and to those after them in its chunk, depends on the beginning of the prompt
(`PrefillRow`), or on all tokens so far (`DecodeRow`). *Writing* (`WritingKeeps`): what is written are the next tokens of some requests;
these are apart from all tokens of everyone (`Apart`, from `SharedInv` and `Room`), so that nothing is
overwritten and nobody else's slots change. `write_blocks`, which fills whole blocks and
does not know of tokens, writes the same as `write_token` would (`FilledWrote`). The loop that joins the
slots is again a fold, and `Folding` carries it (`Flattening`).

Two things turned out in this proof. `TypeOK` said that nobody has more than `MaxNew` tokens,
and with `MaxNew = 1` it was false: everyone gets two (section 6); no run has this
value. And `_prefill_full` is right only before a request has any past length: its
`reused` counts whole blocks, so that it would not read the tokens in one that is filled in part,
and would write over them. This is a guard of `PrefillOne`, and `PastInv` is where the proof needs it.

Model-checked only:

- all of `PrefixReuse`;
- of `Engine`, what ties counts to holders and tables to tokens: `HoldersAreCounted`, `NothingReleasedTwice`,
  `LostByReplacementOnly`, `RefusedForWantOfBlocks`, `TableCoversTokens` and `WriteTargetIsPrivate`. Counts and
  private blocks fail for prompts in general (section 6). A theorem that assumes prompts which never fork, or fork
  at page boundaries only, says little of an engine that puts every prompt through one chat template
  (`engine.py:370`), and none without such an assumption has been proved yet (section 8).
  The runs check them for forks at page boundaries, with evictions that spare pending splits;
- `AnswersEveryone`, which holds where there is room for every prompt and every table and
  not elsewhere;
- liveness, in `Engine` and `RuntimeV0`.

## 6 Findings

With a run, each with the line it contradicts in `PROJECT.json`:

- `shared_tail`: `insert` caches the last, partly filled block of a prompt
  (`prefix_cache.py:194`), to which its owner, and whoever reuses it, goes on
  writing; line 20 promises that only complete blocks are reused.
- `no_room`: when all running requests are refused a block, decode is called
  with nobody, raises, and ends the engine for everyone.
- `kept_past`: a request that is refused a block at decode is freed and answered, but the
  backend is not told (`engine.py:281`): its past length stays while the engine works on;
  `native.py:406` says that the state of a request is cleared when it is completed or released.
- `evicted_match`: the eviction loop of a request can evict the leaf this request
  matched in part; `insert` then hangs freed blocks back into the tree.
- `first_token`: the chunks of a prefill batch are padded to the longest, and the
  first token of a shorter one is taken from the last, padded row.

Met while modelling, without a run of their own:

- a request refused at admission is in no list and its future is not settled
  (`engine.py:149-155`): it is why `Service` has `Drop`, `AnswersTheAdmitted` holds and
  `AnswersEveryone` does not where a prompt may find no room;
- two prompts that start alike, prefilled together: the second `insert` replaces the
  node of the first (`prefix_cache.py:199`), and the cache's references on its
  blocks are never given back. `LostByReplacementOnly` says, for the prompts of the
  run that checks it, that blocks are lost in this way and in no other;
- a request that timed out while it ran is counted as `timeout` and again as
  `cancelled` when it finishes, and as `oom` when it finds no block before
  (`engine.py:281-291`, `:330-334`; `OutcomesAreCounted` gives the bounds that hold);
- the first runtime computes a batch of n requests n times (`runtime_v0.py:138`: the
  call for the whole batch is inside the loop over its requests);
- a partial batch that is in the scheduler's hands when the request queue is
  empty at shutdown is in no queue, so that no join waits for it: the scheduler is
  cancelled and these requests are answered by their timeouts only
  (`runtime_v0.py:116`, `:193`). `BatchedWorkIsFinished` is about who had been handed over;
- a split within a block (`prefix_cache.py:162`) loses the tokens between the last boundary and the
  fork; a prompt without them matches in full and gets KV of other tokens
  (`MatchWasServed` in `PrefixReuse` with the prompts `<<1,0,2,3>>`, `<<1,0,2,4>>`, `<<1,0,3>>`);
- the same lines, `prefix_cache.py:181`: when both branches start with the same token, the new one
  overwrites the other, whose blocks are lost (prompts `<<1,0,2,2>>`,
  `<<1,0,2,3>>` in `PrefixReuse`);
- a fork within the first block makes a node with an empty edge, at which
  `match` stops, so that what is below it is never found (`<<1,2>>`, `<<1,3>>`);
- the match is documented as a multiple of the block size (line 45); whole edges that
  end within a block make it something else;
- `evicted_match` has a variant over two requests: one's admission evicts the
  leaf another one in prefill has matched in part, and the later insert splits it and hangs
  its freed blocks, which the first request has by then, back into the tree
  (`HoldersAreCounted` fails under `Spec` with the bounds of `engine_tight`; under `CarefulSpec`,
  which leaves out just these evictions, it holds);
- `max_new_tokens = 1` gives two tokens: prefill makes one, and decode makes
  another before the limit is looked at (`engine.py:233`, `:313`). The runs have this limit, and
  `Service` is written so that two tokens are right and three are not;
- the engine never suspends while a batch runs, so that a request submitted then cannot join it, as
  chapters 4 and 8 of the book have it: it waits until the queue, too, is
  empty (`Submit` needs `pc \in LoopFree`);
- a prompt that is reused in full has its last token computed again, one position further on,
  over its own KV (`native.py:238`): it, too, violates `FirstTokenFromPrompt`;
- a first token that is the end of the sequence is not noticed: prefill does not
  compare it with EOS, as decode does (`native.py:318`, `:375`).

## 7 Not modelled

- tensors, layers and numbers: the model, attention, rotary embedding, the weight
  loader. A token's KV is the sequence of tokens it depends on;
- `_generated` of the backend, which only a streaming query reads;
- the table's offset outside `NativeBackend`, beyond the values the tree returns; `allocate` ignores it;
- `is_free`, `max_allocated`, `RadixNode.ref_count`: written, not read to decide
  anything;
- the clock, times to first token and the metrics made of them, counts of steps,
  profilers: only reports read them;
- benchmark driver: it submits through `submit()`, so many at a time, and shuts
  down; the clients of `Engine` do this and more, and its own state is a report;
- tools, examples, tutorials: a comparison with another library, a chat script, a
  CUDA demonstration; and the archive's simulated backend, which only sleeps.

A `ValueError` out of `dec_ref` (a block let go that is not in use) would reach
`_fail_all_requests`, whose own `dec_ref` may raise again; the models set `err`, the scheduler
stops there, and `NothingReleasedTwice` says where it cannot happen, the loops of `free` in
`_fail_all_requests` and `shutdown` included.

## 8 Plan

Done: `KVCacheManager`, `BlockOwnership` and the refinement, with their proofs;
`KVBlocks`, `PrefixCache`, `PrefixReuse`; `Engine` over `Service`, both proved about,
and the refinement between them; `NativeBackend`, proved in full; `RuntimeV0` with its
shutdown and metrics proved.

What could follow:

1. `KVBlocks`'s folds against `KVCacheManager`'s closed forms, over bounded inputs.
2. A stream of KV per request that is only ever appended to, which
   `NativeBackend` implements.
3. Proofs: `HoldersAreCounted` and `NothingReleasedTwice` under `CarefulSpec` for all prompts;
   `TableCoversTokens` for all prompts, forks within a block included (it needs that the tokens and blocks of
   the tree stay in step below every split); counts that say how much is lost by replacement, for `LostByReplacementOnly`.
