----------------------------- MODULE DecoderCache -----------------------------
(***************************************************************************)
(* What TransformerDecoder keeps while a decoder-only model generates: the *)
(* keys and values of each row, the mask of its left padding, the states   *)
(* of its linear attention, and the prefix cache that outlives a request.  *)
(* A prompt may be fed in chunks, each computed or restored from the       *)
(* prefix cache; tokens follow one at a time, rows being reordered or      *)
(* dropped between them, or several at once when drafts are verified.      *)
(*                                                                         *)
(* Numbers are abstracted to what they are computed from: a cell is the    *)
(* token written there and the <<position, token>> pairs its query         *)
(* attended, a linear state is the sequence of convolution windows fed to  *)
(* it.  Keys of the prefix cache are taken as collision-free.              *)
(***************************************************************************)
EXTENDS Integers, SequencesExt, FiniteSetsExt

CONSTANTS
    Tokens, Pad, Blank,   \* Pad is one of Tokens, Blank a cell never written
    Batches,              \* each a sequence of rows of equal length
    Paths,                \* beam_size
    MaxLength,            \* tokens fed after the prompt
    MaxDrafts,            \* 0 without self-speculative decoding
    Window,               \* sliding_window, 0 if there is none
    PrefillChunk,         \* prefill_chunk_size
    MaxEntries,           \* prefill_cache_size, 0 if there is none
    Kernel,               \* conv_kernel_size, 0 without linear attention
    DynamicShapes, KvMax, AddZeros,
    MaxRequests           \* bound

(* The window of a sliding model takes priority.                           *)
ChunkSize == IF Window > 0 THEN Window ELSE PrefillChunk

DecoderCacheAssumption ==
    /\ Pad \in Tokens /\ Blank \notin Tokens
    /\ \A batch \in Batches :
           /\ batch # <<>>
           /\ \A r \in DOMAIN batch :
                  batch[r] \in Seq(Tokens) /\ batch[r] # <<>> /\ Last(batch[r]) # Pad
           /\ \A r, s \in DOMAIN batch : Len(batch[r]) = Len(batch[s])
           /\ DynamicShapes \/ Len(batch[1]) + MaxLength <= KvMax
    /\ {Paths, AddZeros} \subseteq Nat \ {0}
    /\ {MaxLength, MaxDrafts, Window, PrefillChunk, MaxEntries, Kernel, KvMax} \subseteq Nat
    /\ ChunkSize > 0 => MaxDrafts < ChunkSize    \* verified in one chunk
    /\ DynamicShapes \in BOOLEAN

VARIABLES
    pc,          \* "idle", "prefill" or "decode"
    text,        \* rows: the tokens fed, left padding included
    decoder,     \* what the decoder keeps for the request
    out,         \* rows: what the next token is predicted from
    start,       \* tokens prefilled
    prev_keys,   \* rolling keys of the examples
    store,       \* the prefix cache, oldest entry first
    requests     \* number of requests so far

vars == <<pc, text, decoder, out, start, prev_keys, store, requests>>

Written(id, seen) == [id |-> id, seen |-> seen]
Zero == Written(Blank, {})
Zeros(n) == [i \in 1 .. n |-> Zero]
LastN(s, n) == SubSeq(s, Len(s) - n + 1, Len(s))

LeftPads(row) == CHOOSE n \in 0 .. Len(row) :
    /\ \A i \in 1 .. n : row[i] = Pad
    /\ n = Len(row) \/ row[n + 1] # Pad

(* _disable_cache                                                          *)
Disabled == [seqlen |-> 0, left |-> <<>>, kcache |-> <<>>, conv |-> <<>>, rec |-> <<>>]

Init ==
    /\ pc = "idle"
    /\ text = <<>>
    /\ decoder = Disabled
    /\ out = <<>>
    /\ start = 0
    /\ prev_keys = <<>>
    /\ store = <<>>
    /\ requests = 0

------------------------------------------------------------------------------
(* The decoder's state.                                                    *)

(* _init_cache: the cache has the length of the prompt, or its maximum.    *)
InitCache(batch) ==
    LET len == IF DynamicShapes THEN Len(batch[1]) ELSE KvMax
    IN  [seqlen |-> 0,
         left |-> [r \in DOMAIN batch |-> [k \in 1 .. len |-> k > LeftPads(batch[r])]],
         kcache |-> [r \in DOMAIN batch |-> Zeros(len)],
         conv |-> [r \in DOMAIN batch |-> [i \in 1 .. Kernel |-> Blank]],
         rec |-> [r \in DOMAIN batch |-> <<>>]]

(* _extend_cache                                                           *)
Extended(d, threshold, addzeros) ==
    IF ~DynamicShapes \/ Len(d.kcache[1]) - d.seqlen >= threshold THEN d
    ELSE [d EXCEPT
             !.kcache = [r \in DOMAIN @ |-> @[r] \o Zeros(addzeros)],
             !.left = [r \in DOMAIN @ |-> @[r] \o [i \in 1 .. addzeros |-> TRUE]]]

(* map_state: row r becomes a copy of row index[r].                        *)
MapState(d, index) ==
    [d EXCEPT !.left = [r \in DOMAIN index |-> @[index[r]]],
              !.kcache = [r \in DOMAIN index |-> @[index[r]]],
              !.conv = [r \in DOMAIN index |-> @[index[r]]],
              !.rec = [r \in DOMAIN index |-> @[index[r]]]]

WideChunkMask(d, r, n, q) ==
    {k \in DOMAIN d.left[r] :
        /\ k <= q
        /\ Window > 0 => k >= q - Window
        /\ d.left[r][k]}

(* _chunk_attn_mask: the keys attended by the query at q, when n tokens    *)
(* are fed after those seen.                                               *)
ChunkMask(d, r, n, q) ==
    {k \in DOMAIN d.left[r] :
        /\ k <= q
        /\ Window > 0 => k >= q - Window + 1
        /\ d.left[r][k]}

(* The mask of a single token: valid.                                      *)
DecodeMask(d, r) ==
    {k \in DOMAIN d.left[r] :
        /\ k <= d.seqlen + 1
        /\ d.left[r][k]
        /\ Window > 0 => k > d.seqlen + 1 - Window}

Mask(d, r, n, q) == IF n = 1 THEN DecodeMask(d, r) ELSE ChunkMask(d, r, n, q)

(* SelfMHA: the keys of the tokens are written, then attended.             *)
Attended(d, r, row) ==
    LET n == Len(row)
        id == [k \in DOMAIN d.kcache[r] |->
                  IF k \in d.seqlen + 1 .. d.seqlen + n THEN row[k - d.seqlen]
                  ELSE d.kcache[r][k].id]
    IN  [k \in DOMAIN id |->
            IF k \in d.seqlen + 1 .. d.seqlen + n
            THEN Written(id[k], {<<j, id[j]>> : j \in Mask(d, r, n, k)})
            ELSE d.kcache[r][k]]

(* GatedDeltaNet: padding enters as zeros, and only when several tokens    *)
(* are fed, as part of the prompt.                                         *)
Masked(as, row) ==
    IF as = "prompt" /\ Len(row) > 1
    THEN [i \in DOMAIN row |-> IF row[i] = Pad THEN Blank ELSE row[i]]
    ELSE row

Windows(history, inputs) ==
    [i \in DOMAIN inputs |-> LastN(history \o SubSeq(inputs, 1, i), Kernel)]

NoHistory == [i \in 1 .. Kernel |-> Blank]

(* What the convolution of the inputs starts from: the saved state when    *)
(* one token is fed or drafts are verified; a chunk of a prompt starts     *)
(* from nothing, whatever came before it.                                  *)
ConvHistory(as, d, r, inputs) ==
    IF Len(inputs) = 1 \/ as = "drafts" THEN d.conv[r] ELSE NoHistory

(* Masked positions do not enter the recurrent state.                      *)
Fed(as, d, r, inputs) ==
    SelectSeq(Windows(ConvHistory(as, d, r, inputs), inputs), LAMBDA w : Last(w) # Blank)

(* _forward_eager, of a part of the prompt or of drafts.                   *)
Forward(as, d, rows) ==
    LET inputs == [r \in DOMAIN rows |-> Masked(as, rows[r])]
    IN  [d EXCEPT
            !.seqlen = @ + Len(rows[1]),
            !.kcache = [r \in DOMAIN rows |-> Attended(d, r, rows[r])],
            !.conv = [r \in DOMAIN rows |->
                         LastN(ConvHistory(as, d, r, inputs[r]) \o inputs[r], Kernel)],
            !.rec = [r \in DOMAIN rows |->
                        IF Kernel = 0 THEN <<>> ELSE @[r] \o Fed(as, d, r, inputs[r])]]

(* The hidden state of the last token seen.                                *)
Output(d, r) ==
    [seen |-> IF d.seqlen \in DOMAIN d.kcache[r] THEN d.kcache[r][d.seqlen].seen ELSE {},
     rec |-> d.rec[r]]

Outputs(d) == [r \in DOMAIN d.kcache |-> Output(d, r)]

------------------------------------------------------------------------------
(* PrefillCache: an ordered dictionary.                                    *)

Keys(s) == {s[i].key : i \in DOMAIN s}
Entry(s, key) == s[CHOOSE i \in DOMAIN s : s[i].key = key]

(* get marks an entry as recently used.                                    *)
Touched(s, key) ==
    IF key \in Keys(s)
    THEN Append(SelectSeq(s, LAMBDA e : e.key # key), Entry(s, key))
    ELSE s

(* put replaces an entry, or evicts the least recently used.               *)
Put(s, entry) ==
    IF entry.key \in Keys(s)
    THEN Append(SelectSeq(s, LAMBDA e : e.key # entry.key), entry)
    ELSE Append(IF Len(s) >= MaxEntries THEN Tail(s) ELSE s, entry)

(* compute_key: the hash of the previous key and the tokens.               *)
RollingKey(prev_key, chunk) == Append(prev_key, chunk)

------------------------------------------------------------------------------
(* Prefill.                                                                *)

ExamplePath(r) == ((r - 1) \div Paths) + 1

(* fn_tile, after the initial step.                                        *)
Tiled(n) == [r \in 1 .. n * Paths |-> ExamplePath(r)]

UseCache == MaxEntries > 0
IsChunked == ChunkSize > 0 /\ Len(text[1]) > ChunkSize
Smaller(a, b) == IF a <= b THEN a ELSE b
ChunkEnd == IF IsChunked THEN Smaller(start + ChunkSize, Len(text[1])) ELSE Len(text[1])
Chunk == [b \in DOMAIN text |-> SubSeq(text[b], start + 1, ChunkEnd)]
CacheKeys == [b \in DOMAIN text |-> RollingKey(prev_keys[b], Chunk[b])]

(* After a chunk, and once the prompt is done.                             *)
AfterChunk(d, outputs) ==
    /\ start' = ChunkEnd
    /\ IF ChunkEnd < Len(text[1])
       THEN /\ decoder' = d
            /\ out' = outputs
            /\ UNCHANGED <<pc, text>>
       ELSE LET index == Tiled(Len(text))
            IN  /\ pc' = "decode"
                /\ decoder' = MapState(d, index)
                /\ out' = [r \in DOMAIN index |-> outputs[index[r]]]
                /\ text' = [r \in DOMAIN index |-> text[index[r]]]

Begin(batch) ==
    /\ pc = "idle"
    /\ requests < MaxRequests
    /\ pc' = "prefill"
    /\ text' = batch
    /\ decoder' = InitCache(batch)
    /\ start' = 0
    /\ prev_keys' = [b \in DOMAIN batch |-> <<>>]
    /\ requests' = requests + 1
    /\ UNCHANGED <<out, store>>

(* The prompt fits one chunk, or there is no prefix cache.                 *)
PrefillUncached ==
    /\ pc = "prefill"
    /\ ~(IsChunked /\ UseCache)
    /\ LET d == Forward("prompt", decoder, Chunk) IN AfterChunk(d, Outputs(d))
    /\ UNCHANGED <<prev_keys, store, requests>>

Looked == FoldLeft(LAMBDA s, key : Touched(s, key), store, CacheKeys)

IsHit == \A b \in DOMAIN text : CacheKeys[b] \in Keys(store)

(* What an entry keeps of row b.                                           *)
EntryOf(d, b) ==
    [key |-> CacheKeys[b],
     out |-> Output(d, b),
     kv |-> SubSeq(d.kcache[b], start + 1, ChunkEnd),
     conv |-> d.conv[b],
     rec |-> d.rec[b]]

RestoredWithoutConv(entries) ==
    [decoder EXCEPT
        !.seqlen = ChunkEnd,
        !.kcache = [b \in DOMAIN @ |->
                       [k \in DOMAIN @[b] |->
                           IF k \in start + 1 .. ChunkEnd THEN entries[b].kv[k - start]
                           ELSE @[b][k]]],
        !.conv = @,
        !.rec = [b \in DOMAIN @ |-> entries[b].rec]]

(* The keys and values go to their positions, the linear states replace    *)
(* those of the row.                                                       *)
Restored(entries) ==
    [decoder EXCEPT
        !.seqlen = ChunkEnd,
        !.kcache = [b \in DOMAIN @ |->
                       [k \in DOMAIN @[b] |->
                           IF k \in start + 1 .. ChunkEnd THEN entries[b].kv[k - start]
                           ELSE @[b][k]]],
        !.conv = [b \in DOMAIN @ |-> entries[b].conv],
        !.rec = [b \in DOMAIN @ |-> entries[b].rec]]

PrefillHit ==
    /\ pc = "prefill" /\ IsChunked /\ UseCache
    /\ IsHit
    /\ LET entries == [b \in DOMAIN text |-> Entry(store, CacheKeys[b])]
       IN  AfterChunk(Restored(entries), [b \in DOMAIN text |-> entries[b].out])
    /\ store' = Looked
    /\ prev_keys' = CacheKeys
    /\ UNCHANGED requests

(* One row missed: all are computed, and all are stored.                   *)
PrefillMiss ==
    /\ pc = "prefill" /\ IsChunked /\ UseCache
    /\ ~IsHit
    /\ LET d == Forward("prompt", decoder, Chunk)
       IN  /\ AfterChunk(d, Outputs(d))
           /\ store' = FoldLeft(LAMBDA s, b : Put(s, EntryOf(d, b)), Looked,
                                [b \in DOMAIN text |-> b])
    /\ prev_keys' = CacheKeys
    /\ UNCHANGED requests

------------------------------------------------------------------------------
(* Generation.                                                             *)

Generated == Len(text[1]) - start

(* Rows that stay, reordered or repeated.                                  *)
Selections ==
    UNION {[1 .. n -> DOMAIN text] : n \in 1 .. Len(text)}

(* map_state with the strategy's select_indices, _extend_cache, and a      *)
(* forward pass of a token for each row.                                   *)
DecodeOne(index, tokens) ==
    /\ pc = "decode"
    /\ Generated < MaxLength
    /\ LET d == Forward("drafts", Extended(MapState(decoder, index), 1, AddZeros),
                        [r \in DOMAIN index |-> <<tokens[r]>>])
       IN  decoder' = d /\ out' = Outputs(d)
    /\ text' = [r \in DOMAIN index |-> Append(text[index[r]], tokens[r])]
    /\ UNCHANGED <<pc, start, prev_keys, store, requests>>

(* commit_speculation: the convolution and recurrent states after the      *)
(* tokens kept; rewinding cache_seqlens hides the cells of the others.     *)
Commit(d, verified, kept, row) ==
    LET inputs == SubSeq(row, 1, kept)
    IN  [d EXCEPT !.seqlen = @ + kept, !.kcache = verified.kcache,
                  !.conv = [r \in DOMAIN @ |-> LastN(@[r] \o inputs, Kernel)],
                  !.rec = [r \in DOMAIN @ |->
                              IF Kernel = 0 THEN <<>>
                              ELSE @[r] \o SubSeq(Fed("drafts", d, r, row), 1, kept)]]

Larger(a, b) == IF a <= b THEN b ELSE a

(* _speculative_draft_verify: one row, the last token and its drafts.      *)
Verify(row, kept) ==
    /\ pc = "decode"
    /\ Len(text) = 1
    /\ Generated + Len(row) <= MaxLength
    /\ LET d == Extended(decoder, Len(row), Larger(AddZeros, Len(row)))
           c == Commit(d, Forward("drafts", d, <<row>>), kept, row)
       IN  decoder' = c /\ out' = Outputs(c)
    /\ text' = <<text[1] \o SubSeq(row, 1, kept)>>
    /\ UNCHANGED <<pc, start, prev_keys, store, requests>>

Finish ==
    /\ pc = "decode"
    /\ pc' = "idle"
    /\ text' = <<>>
    /\ decoder' = Disabled
    /\ out' = <<>>
    /\ start' = 0
    /\ UNCHANGED <<prev_keys, store, requests>>

Next ==
    \/ \E batch \in Batches : Begin(batch)
    \/ PrefillUncached
    \/ PrefillHit
    \/ PrefillMiss
    \/ /\ pc = "decode"
       /\ \/ \E index \in Selections : \E tokens \in [DOMAIN index -> Tokens] :
                 DecodeOne(index, tokens)
          \/ \E n \in 2 .. MaxDrafts + 1 : \E row \in [1 .. n -> Tokens] :
                 \E kept \in 1 .. n : Verify(row, kept)
    \/ Finish

Spec == Init /\ [][Next]_vars

------------------------------------------------------------------------------
(* Properties.                                                             *)

TypeOK ==
    /\ pc \in {"idle", "prefill", "decode"}
    /\ text \in Seq(Seq(Tokens))
    /\ decoder.seqlen \in Nat
    /\ \A r \in DOMAIN decoder.kcache :
           /\ decoder.seqlen <= Len(decoder.kcache[r])
           /\ Len(decoder.kcache[r]) = Len(decoder.left[r])
           /\ \A k \in DOMAIN decoder.kcache[r] :
                  decoder.kcache[r][k].id \in Tokens \cup {Blank}
    /\ Len(store) <= MaxEntries
    /\ IsInjective([i \in DOMAIN store |-> store[i].key])
    /\ requests \in 0 .. MaxRequests

(* The mask of the same text in training: _causal_attn_mask.               *)
CausalMask(r, q) ==
    {k \in 1 .. q : (Window > 0 => k >= q - (Window - 1)) /\ k > LeftPads(SubSeq(text[r], 1, start))}

(* Through chunks, restored entries, reordering, growth and rejected       *)
(* drafts, each row's next token is predicted from its own text: the keys  *)
(* a training pass over it would attend, and linear states that have seen  *)
(* each of its tokens, once and in order, with the window before it.  Not  *)
(* the linear states of a prompt fed in several chunks: the convolution of *)
(* a chunk does not see the end of the one before (ConvHistory).           *)
PredictsFromItsText ==
    pc = "decode" =>
        \A r \in DOMAIN text :
            LET n == Len(text[r])
                pads == LeftPads(SubSeq(text[r], 1, start))
                real == [i \in 1 .. n |-> IF i <= pads THEN Blank ELSE text[r][i]]
            IN  /\ decoder.seqlen = n
                /\ out[r].seen = {<<k, text[r][k]>> : k \in CausalMask(r, n)}
                /\ Kernel > 0 /\ (ChunkSize = 0 \/ start <= ChunkSize) =>
                       out[r].rec = SubSeq(Windows(NoHistory, real), pads + 1, n)

(* The chunks of the prompt fed up to n, without a prefix cache.           *)
Computed(row, n) ==
    LET last == (n + ChunkSize - 1) \div ChunkSize
        fed[i \in 0 .. last] ==
            IF i = 0 THEN InitCache(<<row>>)
            ELSE Forward("prompt", fed[i - 1],
                         <<SubSeq(row, (i - 1) * ChunkSize + 1, Smaller(i * ChunkSize, n))>>)
    IN  fed[last]

(* "Restoring them on a cache hit is equivalent to running the forward     *)
(* pass", whatever requests filled the prefix cache and what it evicted.   *)
RestoringIsComputing ==
    pc # "idle" /\ IsChunked /\ start > 0 /\ decoder.seqlen = start =>
        \A b \in DOMAIN text :
            LET d == Computed(text[b], start)
            IN  /\ decoder.kcache[b] = d.kcache[1]
                /\ decoder.conv[b] = d.conv[1]
                /\ decoder.rec[b] = d.rec[1]
                /\ decoder.seqlen = d.seqlen

(* "Older entries are evicted in LRU order": the entries of the prompt in  *)
(* hand stay as long as they fit.                                          *)
InUse == UNION {{SubSeq(prev_keys[b], 1, j) : j \in DOMAIN prev_keys[b]} :
                   b \in DOMAIN prev_keys}

KeepsWhatIsInUse ==
    UseCache /\ Cardinality(InUse) <= MaxEntries => InUse \subseteq Keys(store)
=============================================================================
