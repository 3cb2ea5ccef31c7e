---------------------------- MODULE NativeBackend ----------------------------
(***************************************************************************)
(* The backend (mini_runtime/backend/native.py) on the block pool          *)
(* (BlockPool, mini_runtime/cache/kv_cache.py): what batch_prefill and     *)
(* batch_decode read from the blocks of the requests of a batch, compute,  *)
(* and write back.                                                         *)
(*                                                                         *)
(* The numbers are left out.  What matters of a token's KV, or of the      *)
(* logits of a row, is which tokens it was computed from: the model is a   *)
(* function of the sequence of tokens that a row attends to, so that this  *)
(* sequence stands for KV and logits.  A row that attends to anything else *)
(* than the KV of one sequence of tokens, in order and from its start, has *)
(* Junk.                                                                   *)
(*                                                                         *)
(* The engine's part is the environment: it gives a request a table of     *)
(* blocks that nobody else writes to, after some that hold the KV of its   *)
(* first tokens; extends the table before it is too short; and frees it.   *)
(* Engine and PrefixReuse say how far it keeps to that.                    *)
(***************************************************************************)
EXTENDS Integers, Sequences, FiniteSets, SequencesExt

CONSTANTS
    Requests,     \* the requests, each admitted once
    Prompts,      \* their prompts: sequences of positive numbers
    Vocabulary,   \* the tokens the model generates: positive numbers
    Blocks,       \* the pool's blocks
    BlockSize,    \* block_size, in tokens
    Offsets,      \* where in its first block a table may begin
    MaxChunk,     \* bound on the tokens of a chunk
    MaxNew        \* bound on the tokens generated

ASSUME BackendAssumption ==
    /\ IsFiniteSet(Requests) /\ IsFiniteSet(Blocks)
    /\ <<>> \notin Prompts
    /\ Prompts \subseteq Seq(Nat \ {0})
    /\ Vocabulary \subseteq Nat \ {0}
    /\ Offsets \subseteq 0 .. BlockSize - 1
    /\ {BlockSize, MaxChunk, MaxNew} \subseteq Nat \ {0}

VARIABLES
    kv,      \* pool._blocks: the blocks that have tensors, slot by slot
    past,    \* _past_len
    req,     \* prompt, table, offset, progress and tokens of each request
    phase,   \* where each request is: as in Engine, and "ended" before release
    seen     \* the tokens the latest token of each request was computed from

vars == <<kv, past, req, phase, seen>>

Slots == 0 .. BlockSize - 1
None == 0                    \* the end of the sequence, as next token
Pad == 0                     \* input_ids is zero where a row has no token
Zero == <<>>                 \* torch.zeros, as KV
Junk == <<Pad>>
Phases == {"new", "prefilling", "running", "ended", "gone"}

NoRequest == [prompt |-> <<>>, table |-> <<>>, offset |-> 0, progress |-> 0, out |-> <<>>]

Init ==
    /\ kv = <<>>
    /\ past = <<>>
    /\ req = [r \in Requests |-> NoRequest]
    /\ phase = [r \in Requests |-> "new"]
    /\ seen = [r \in Requests |-> <<>>]

In(p) == {r \in Requests : phase[r] = p}
InUse == UNION {ToSet(req[r].table) : r \in Requests}
Capacity(q) == Len(q.table) * BlockSize - q.offset

-----------------------------------------------------------------------------
(* The pool.                                                                 *)

(* Block and slot of token i (from 0) of a request.  Mutant: the offset is   *)
(* forgotten.                                                                *)
PlaceNoOffset(q, i) == <<q.table[i \div BlockSize + 1], i % BlockSize>>
Place(q, i) == LET at == q.offset + i
               IN  <<q.table[at \div BlockSize + 1], at % BlockSize>>

(* The pool after each slot in the domain of at, pairs of a block and a slot *)
(* of it, was given its value.  A block without tensors gets them, filled    *)
(* with zeros.  Mutant: it gets new ones each time.                          *)
StoredAnew(at) ==
    LET blocks == {p[1] : p \in DOMAIN at}
    IN  [b \in DOMAIN kv \cup blocks |->
            [s \in Slots |-> IF <<b, s>> \in DOMAIN at THEN at[<<b, s>>]
                             ELSE IF b \in DOMAIN kv \ blocks THEN kv[b][s] ELSE Zero]]

Stored(at) ==
    LET blocks == {p[1] : p \in DOMAIN at}
    IN  [b \in DOMAIN kv \cup blocks |->
            [s \in Slots |-> IF <<b, s>> \in DOMAIN at THEN at[<<b, s>>]
                             ELSE IF b \in DOMAIN kv THEN kv[b][s] ELSE Zero]]

(* write_token, or write_chunk_kv, for each token in the domain of new:      *)
(* pairs of a request and the number of its token, with new[w] what to write. *)
Written(new) ==
    LET place == [w \in DOMAIN new |-> Place(req[w[1]], w[2])]
    IN  Stored([p \in {place[w] : w \in DOMAIN new} |->
                  new[CHOOSE w \in DOMAIN new : place[w] = p]])

(* write_blocks: what is in new fills the blocks, each from its first slot;  *)
(* there are no more blocks than it takes.                                   *)
Filled(blocks, new) ==
    LET Number(w) == (w[1] - 1) * BlockSize + w[2] + 1
        slots == {w \in (DOMAIN blocks) \X Slots : Number(w) <= Len(new)}
    IN  Stored([p \in {<<blocks[w[1]], w[2]>> : w \in slots} |->
                  LET w == CHOOSE w \in slots : <<blocks[w[1]], w[2]>> = p
                  IN  new[Number(w)]])

(* read_layer for one request: the slots of its blocks, but those without    *)
(* tensors, one after the other and from the offset on, up to n of them.     *)
Read(q, n) ==
    LET SlotsOf(i) == IF q.table[i] \notin DOMAIN kv THEN <<>>
                      ELSE LET start == IF i = 1 THEN q.offset ELSE 0
                           IN  [j \in 1 .. BlockSize - start |-> kv[q.table[i]][start + j - 1]]
        all == FlattenSeq([i \in DOMAIN q.table |-> SlotsOf(i)])
    IN  SubSeq(all, 1, Min({n, Len(all)}))

(* ... padded at the end to the width of the longest past in the batch.      *)
PastColumns(q, n, width) == Read(q, n) \o [i \in 1 .. width - n |-> Zero]

(* Requests in one batch have the same number of columns, or torch.cat       *)
(* raises (they always do: ReadsItsOwnTokens).                               *)
SameWidth(R, n, width) == \A r \in R : Len(PastColumns(req[r], n[r], width)) = width

-----------------------------------------------------------------------------
(* What a row is computed from that attends to the KV of columns, and to     *)
(* tokens of its own chunk.  A row of padding attends to nothing; what torch  *)
(* makes of it is supposed not to reach the rows it is masked for.            *)
Attend(columns, tokens) ==
    IF columns = <<>> THEN tokens
    ELSE IF \A i \in DOMAIN columns : /\ Len(columns[i]) = i
                                      /\ IsPrefix(columns[i], Last(columns))
         THEN Last(columns) \o tokens
    ELSE Junk

(* The mask: of the past columns a row sees those of its own request.        *)
(* Mutant: the padding is seen too.                                          *)
VisibleAll(columns, n) == columns
Visible(columns, n) == SubSeq(columns, 1, n)

(* The past lengths after a prefill up to the tokens of end.                 *)
Recorded(end) ==
    [r \in DOMAIN past \cup DOMAIN end |-> IF r \in DOMAIN end THEN end[r] ELSE past[r]]

MaxOver(R, f) == Max({0} \cup {f[r] : r \in R})

(* batch_prefill of the requests R up to the token end[r] of each.  Who has  *)
(* nothing left to prefill is computed alone, with its last token once more, *)
(* and writes nothing.  The others are one batch, as wide as its longest     *)
(* chunk; those whose last chunk this is take the logits of the last row.    *)
BatchPrefill(R, end) ==
    LET start == [r \in R |-> req[r].progress]
        length == [r \in R |-> end[r] - start[r]]
        batch == {r \in R : length[r] > 0}
        width == MaxOver(batch, start)
        rows == MaxOver(batch, length)
        Past(r) == Visible(PastColumns(req[r], start[r], width), start[r])
        Row(r, j) == IF j > length[r] THEN Junk
                     ELSE Attend(Past(r), SubSeq(req[r].prompt, start[r] + 1, start[r] + j))
        Alone(r) == Attend(Read(req[r], start[r]), <<Last(req[r].prompt)>>)
        done == {r \in R : end[r] = Len(req[r].prompt)}
        tokens == UNION {{r} \X (start[r] .. end[r] - 1) : r \in batch}
    IN  /\ SameWidth(batch, start, width)
        /\ kv' = Written([w \in tokens |-> Row(w[1], w[2] - start[w[1]] + 1)])
        /\ past' = Recorded(end)
        /\ seen' = [r \in Requests |-> IF r \notin done THEN seen[r]
                                       ELSE IF r \in batch THEN Row(r, rows)
                                       ELSE Alone(r)]
        /\ \E first \in [done -> Vocabulary] :
              req' = [r \in Requests |->
                         IF r \in done
                         THEN [req[r] EXCEPT !.progress = end[r], !.out = <<first[r]>>]
                         ELSE IF r \in R THEN [req[r] EXCEPT !.progress = end[r]]
                         ELSE req[r]]
        /\ phase' = [r \in Requests |-> IF r \in done THEN "running" ELSE phase[r]]

(* The engine chooses whom to prefill, and how far: here any of those who    *)
(* wait, and for each a chunk of any size up to the bound, but not an empty  *)
(* one as long as something is left.                                         *)
Prefill ==
    \E R \in (SUBSET In("prefilling")) \ {{}} :
        \E end \in [R -> 1 .. MaxOver(R, [r \in R |-> Len(req[r].prompt)])] :
            /\ \A r \in R :
                  LET left == Len(req[r].prompt) - req[r].progress
                  IN  /\ end[r] - req[r].progress <= Min({MaxChunk, left})
                      /\ end[r] - req[r].progress >= Min({1, left})
            /\ BatchPrefill(R, end)

(* prefill(), which takes one request and has no caller: its own chunks      *)
(* again, without a batch; or the whole prompt at once.  columns is the KV   *)
(* before the chunk; the token after it, if it is the last, is the argmax of *)
(* a row that is there.                                                      *)
Answered(r, end, row) ==
    /\ past' = Recorded([q \in {r} |-> end])
    /\ IF end = Len(req[r].prompt)
       THEN /\ seen' = [seen EXCEPT ![r] = row]
            /\ \E first \in Vocabulary :
                  req' = [req EXCEPT ![r].progress = end, ![r].out = <<first>>]
            /\ phase' = [phase EXCEPT ![r] = "running"]
       ELSE /\ req' = [req EXCEPT ![r].progress = end]
            /\ UNCHANGED <<seen, phase>>

(* _prefill_chunk.  An empty chunk feeds the last token of the prompt once   *)
(* more, and its KV is not kept.                                             *)
PrefillChunk(r, end) ==
    LET start == req[r].progress
        columns == Read(req[r], start)
        Row(j) == Attend(columns, SubSeq(req[r].prompt, start + 1, start + j))
        tokens == {r} \X (start .. end - 1)
    IN  \/ /\ end = start
           /\ Answered(r, end, Attend(columns, <<Last(req[r].prompt)>>))
           /\ UNCHANGED kv
        \/ /\ end > start
           /\ kv' = Written([w \in tokens |-> Row(w[2] - start + 1)])
           /\ Answered(r, end, Row(end - start))

(* _prefill_full: it reads the blocks that are reused, and fills the others. *)
PrefillFull(r) ==
    LET start == req[r].progress
        reused == (req[r].offset + start) \div BlockSize
        columns == Read([req[r] EXCEPT !.table = SubSeq(@, 1, reused)], start)
        rest == SubSeq(req[r].prompt, start + 1, Len(req[r].prompt))
        Row(j) == Attend(columns, SubSeq(rest, 1, j))
    IN  \/ /\ rest = <<>>
           /\ Answered(r, start, Attend(columns, <<Last(req[r].prompt)>>))
           /\ UNCHANGED kv
        \/ /\ rest # <<>>
           /\ kv' = Filled(SubSeq(req[r].table, reused + 1, Len(req[r].table)),
                           [j \in DOMAIN rest |-> Row(j)])
           /\ Answered(r, Len(req[r].prompt), Row(Len(rest)))

(* A request may be prefilled in full before any chunk of it, and when its   *)
(* table begins within a block only if it reuses that block: write_blocks    *)
(* knows of no offset.                                                       *)
PrefillOne ==
    \E r \in In("prefilling") :
        LET q == req[r]
            left == Len(q.prompt) - q.progress
        IN  \/ \E n \in Min({1, left}) .. Min({MaxChunk, left}) : PrefillChunk(r, q.progress + n)
            \/ /\ r \notin DOMAIN past
               /\ q.progress = 0 => q.offset = 0
               /\ PrefillFull(r)

(* The past length of those who have a next token goes up.                   *)
Advanced(R, next) ==
    [r \in DOMAIN past |-> IF r \in R /\ next[r] # None THEN past[r] + 1 ELSE past[r]]

(* Who has None for next token, or all the tokens it asked for, ends.        *)
(* Mutant: one token too many.                                               *)
EndsLate(R, next) == {r \in R : next[r] = None \/ Len(req[r].out) + 1 > MaxNew}
Ends(R, next) == {r \in R : next[r] = None \/ Len(req[r].out) + 1 >= MaxNew}

(* batch_decode of all running requests, whose tables have room for the      *)
(* token they decode: its KV is written unless it turns out to be the last.  *)
Decode ==
    LET R == In("running")
        width == MaxOver(R, past)
        Past(r) == Visible(PastColumns(req[r], past[r], width), past[r])
        Row(r) == Attend(Past(r), <<Last(req[r].out)>>)
    IN  /\ R # {}
        /\ \A r \in R : Len(req[r].prompt) + Len(req[r].out) <= Capacity(req[r])
        /\ SameWidth(R, past, width)
        /\ \E next \in [R -> Vocabulary \cup {None}] :
              /\ kv' = Written([w \in {<<r, past[r]>> : r \in {q \in R : next[q] # None}} |->
                                  Row(w[1])])
              /\ past' = Advanced(R, next)
              /\ req' = [r \in Requests |->
                            IF r \in R /\ next[r] # None
                            THEN [req[r] EXCEPT !.out = Append(@, next[r])] ELSE req[r]]
              /\ phase' = [r \in Requests |->
                              IF r \in Ends(R, next) THEN "ended" ELSE phase[r]]
        /\ seen' = [r \in Requests |-> IF r \in R THEN Row(r) ELSE seen[r]]

-----------------------------------------------------------------------------
(* The engine: admission, with blocks to reuse and the free blocks of s.     *)
(* Those to reuse are the first of a running request, and full of the KV of  *)
(* tokens that this prompt begins with too.                                  *)
Admit(r, p, reused, s, offset) ==
    LET q == [NoRequest EXCEPT !.prompt = p, !.table = reused \o s, !.offset = offset,
                               !.progress = IF reused = <<>> THEN 0
                                            ELSE Len(reused) * BlockSize - offset]
    IN  /\ phase[r] = "new"
        /\ q.progress <= Len(p)
        /\ Capacity(q) >= Len(p) /\ Capacity(q) - BlockSize < Len(p)
        /\ req' = [req EXCEPT ![r] = q]
        /\ phase' = [phase EXCEPT ![r] = "prefilling"]
        /\ UNCHANGED <<kv, past, seen>>

AdmitNew(r, p) ==
    \E offset \in Offsets, n \in 1 .. Cardinality(Blocks) :
        \E s \in [1 .. n -> Blocks \ InUse] :
            /\ Cardinality(ToSet(s)) = n
            /\ Admit(r, p, <<>>, s, offset)

AdmitReuse(r, p) ==
    \E d \in In("running"), k \in 1 .. Cardinality(Blocks), n \in 0 .. Cardinality(Blocks) :
        LET covered == k * BlockSize - req[d].offset
        IN  /\ k <= Len(req[d].table)
            /\ covered <= Len(req[d].prompt) /\ covered <= Len(p)
            /\ SubSeq(p, 1, covered) = SubSeq(req[d].prompt, 1, covered)
            /\ \E s \in [1 .. n -> Blocks \ InUse] :
                  /\ Cardinality(ToSet(s)) = n
                  /\ Admit(r, p, SubSeq(req[d].table, 1, k), s, req[d].offset)

(* A table that is too short for the next token gets one more block.         *)
Extend(r) ==
    /\ phase[r] = "running"
    /\ Len(req[r].prompt) + Len(req[r].out) > Capacity(req[r])
    /\ \E b \in Blocks \ InUse : req' = [req EXCEPT ![r].table = Append(@, b)]
    /\ UNCHANGED <<kv, past, phase, seen>>

(* The table of r is freed: the blocks nobody else has lose their tensors.   *)
Freed(r) ==
    /\ kv' = Restrict(kv, {b \in DOMAIN kv :
                              \E o \in Requests \ {r} : Contains(req[o].table, b)})
    /\ req' = [req EXCEPT ![r] = NoRequest]
    /\ phase' = [phase EXCEPT ![r] = "gone"]
    /\ seen' = [seen EXCEPT ![r] = <<>>]

(* finish_request: the backend forgets the request.                          *)
Finish(r) ==
    /\ phase[r] = "ended"
    /\ Freed(r)
    /\ past' = Restrict(past, DOMAIN past \ {r})

(* A request that is refused a block: the backend is not told.               *)
Refuse(r) ==
    /\ phase[r] = "running"
    /\ Len(req[r].prompt) + Len(req[r].out) > Capacity(req[r])
    /\ Freed(r)
    /\ UNCHANGED past

Next ==
    \/ \E r \in Requests, p \in Prompts : AdmitNew(r, p) \/ AdmitReuse(r, p)
    \/ \E r \in Requests : Extend(r) \/ Finish(r) \/ Refuse(r)
    \/ Prefill \/ PrefillOne
    \/ Decode

Spec == Init /\ [][Next]_vars

-----------------------------------------------------------------------------
TypeOK ==
    /\ DOMAIN kv \subseteq Blocks
    /\ \A b \in DOMAIN kv : DOMAIN kv[b] = Slots
    /\ DOMAIN past \subseteq Requests
    /\ phase \in [Requests -> Phases]
    /\ \A r \in Requests : /\ req[r].table \in Seq(Blocks)
                           /\ req[r].progress \in 0 .. Len(req[r].prompt)
                           /\ Len(req[r].out) <= 2 \/ Len(req[r].out) <= MaxNew

(* The tokens of a request whose KV has been computed.                       *)
Computed(r) == IF phase[r] = "prefilling" THEN SubSeq(req[r].prompt, 1, req[r].progress)
               ELSE req[r].prompt \o Front(req[r].out)

(* What read_layer returns for a request is the KV of its own tokens, each   *)
(* computed from all the tokens before it, in order and none missing, at     *)
(* every point of chunked prefill and decode and whatever the others in its  *)
(* batches did.  _past_len says how many these are.                          *)
ReadsItsOwnTokens ==
    \A r \in In("prefilling") \cup In("running") :
        LET tokens == Computed(r)
        IN  /\ Read(req[r], Len(tokens)) = [i \in DOMAIN tokens |-> SubSeq(tokens, 1, i)]
            /\ phase[r] = "running" => past[r] = Len(tokens)

(* Each token a request decodes is computed from its prompt and all tokens   *)
(* before it.                                                                *)
DecodesFromAllTokens ==
    \A r \in In("running") :
        Len(req[r].out) > 1 => seen[r] = req[r].prompt \o Front(req[r].out)

(* ... and its first token from the prompt: the forward pass gives the       *)
(* logits of the last token (ch01:247).                                      *)
FirstTokenFromPrompt ==
    \A r \in In("running") : Len(req[r].out) = 1 => seen[r] = req[r].prompt

(* KV is written once: as long as a block keeps its tensors, no slot that    *)
(* was written is written again.  So what a request reuses, or what others   *)
(* reuse of it, does not change under it.                                    *)
NoKVIsOverwritten ==
    [][\A b \in DOMAIN kv : b \in DOMAIN kv' =>
          \A s \in Slots : kv[b][s] # Zero => kv'[b][s] = kv[b][s]]_vars

=============================================================================
