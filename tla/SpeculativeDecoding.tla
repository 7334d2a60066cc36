------------------------- MODULE SpeculativeDecoding -------------------------
(***************************************************************************)
(* Generation of one sequence by a decoder-only model, as                  *)
(* GeneratorLM._predict_batch_with_strategy_impl runs it: prefill, then    *)
(* either one token per forward pass, or the self-speculative cycle        *)
(* (_speculative_draft_verify): the MTP heads draft a few tokens, one pass *)
(* of the main model verifies them all, the accepted prefix and one token  *)
(* of the model's own are kept, and the caches are rewound to match.       *)
(*                                                                         *)
(* Hidden states and probabilities are abstracted to what they depend on.  *)
(* A pass of the main model sees two summaries of the text: the cells of   *)
(* the attention cache below its position and the state of the recurrent   *)
(* (GatedDeltaNet) layers.  When both describe the same text the result is *)
(* Argmax of that text; when they disagree it may be any token.  The MTP   *)
(* heads may draft any tokens at all.                                      *)
(***************************************************************************)
EXTENDS Integers, Sequences

CONSTANTS
    Tokens, Eos, Prompts, MaxLength, Weights, Argmax(_, _),
    NumDraft,   \* self_speculative_num_tokens
    NumHeads,   \* number of MTP heads
    Recurrent,  \* one head fed back on itself (Qwen) or one per position
    Dynamic,    \* dynamic_shapes: the cache grows on demand
    KvMax,      \* kvcache_maxsize: cells of a static cache
    AddZeros,   \* cells _extend_cache adds (32 in the code)
    Blank       \* content of a cell that was never written

ASSUME SpecAssumption ==
    /\ Eos \subseteq Tokens
    /\ Prompts \subseteq Seq(Tokens)
    /\ \A p \in Prompts : Len(p) \in Nat \ {0}
    /\ MaxLength \in Nat \ {0}
    /\ NumDraft \in Nat \ {0}
    /\ NumHeads \in Nat \ {0}
    /\ Recurrent \in BOOLEAN
    /\ Dynamic \in BOOLEAN
    /\ AddZeros \in Nat \ {0}
    /\ KvMax \in Nat
    /\ \A p \in Prompts : Len(p) + MaxLength <= KvMax

VARIABLES
    weights,    \* the loaded model
    pc,         \* "idle", "loop", "drafted", "verified", "done" or "failed"
    useSpec,    \* use_spec_decoding, decided per request
    plen,       \* prefill_length
    text,       \* the prompt and the tokens generated (alive_seq)
    streamed,   \* what the streamer was given
    kv,         \* the cells of the attention cache
    seen,       \* cache_seqlens
    rec,        \* the text summarised by the recurrent layers' state
    hidden,     \* hidden_position
    drafts,     \* the tokens drafted in this cycle
    predicted,  \* the verifier's argmax at every position of the chunk
    mtp         \* the MTP head's own cache: _mtp_cache_len and so on

vars == <<weights, pc, useSpec, plen, text, streamed, kv, seen, rec, hidden,
          drafts, predicted, mtp>>

NoMtp == [on |-> FALSE, len |-> 0, cap |-> 0, start |-> 0, first |-> 0,
          pos |-> -1, width |-> 0]

MtpType == [on : BOOLEAN, len : Nat, cap : Nat, start : Nat, first : Nat,
            pos : Int, width : Nat]
Cells == Seq(Tokens \cup {Blank})

TypeOK ==
    /\ weights \in Weights
    /\ pc \in {"idle", "loop", "drafted", "verified", "done", "failed"}
    /\ useSpec \in BOOLEAN
    /\ plen \in Nat
    /\ text \in Seq(Tokens)
    /\ streamed \in Seq(Tokens)
    /\ kv \in Cells
    /\ seen \in Nat
    /\ rec \in Seq(Tokens)
    /\ hidden \in Nat
    /\ drafts \in Seq(Tokens)
    /\ predicted \in Seq(Tokens)
    /\ mtp \in MtpType

Init ==
    /\ weights \in Weights
    /\ pc = "idle"
    /\ useSpec = FALSE
    /\ plen = 0
    /\ text = <<>>
    /\ streamed = <<>>
    /\ kv = <<>>
    /\ seen = 0
    /\ rec = <<>>
    /\ hidden = 0
    /\ drafts = <<>>
    /\ predicted = <<>>
    /\ mtp = NoMtp

------------------------------------------------------------------------------
Smaller(a, b) == IF a <= b THEN a ELSE b
Larger(a, b) == IF a <= b THEN b ELSE a
Active == pc \in {"loop", "drafted", "verified"}
Remaining == MaxLength - (Len(text) - plen)
Seed == text[Len(text)]

(* The cells a pass attends to, and what it may predict from them and a    *)
(* recurrent state.                                                        *)
Visible(cells, n) == SubSeq(cells, 1, Smaller(n, Len(cells)))
Predict(cells, state) ==
    {t \in Tokens : cells = state => t = Argmax(weights, cells)}

(* _extend_cache(threshold, addzeros): room for threshold more tokens.     *)
Extended(cells, used, threshold, addzeros) ==
    IF Dynamic /\ Len(cells) - used < threshold
    THEN cells \o [i \in 1 .. addzeros |-> Blank]
    ELSE cells

(* A pass over a chunk writes its keys and values behind the used cells.   *)
Written(cells, used, chunk) ==
    [i \in 1 .. Len(cells) |-> IF used < i /\ i <= used + Len(chunk)
                               THEN chunk[i - used] ELSE cells[i]]

(* is_finished_list after advance: an end-of-sequence token, or            *)
(* ensure_max_length.                                                      *)
Finished(t, p) == t[Len(t)] \in Eos \/ Len(t) - p = MaxLength

(* Outside the loop the caches are released.                               *)
ReleaseCaches ==
    /\ kv' = <<>>
    /\ seen' = 0
    /\ rec' = <<>>
    /\ mtp' = NoMtp

------------------------------------------------------------------------------
(* Mutant: the head's cache has no room for what will be generated.        *)
PrimedForPrompt(p) ==
    [on |-> TRUE, len |-> Len(p) - 1, cap |-> Len(p) - 1,
     start |-> 0, first |-> 0, pos |-> -1, width |-> 0]

(* _init_cache, the prefill pass over the prompt, advance, and             *)
(* init_mtp_cache, which primes the head with the prompt but its last      *)
(* token.                                                                  *)
PrefillCells(p) ==
    Written([i \in 1 .. (IF Dynamic THEN Len(p) ELSE KvMax) |-> Blank], 0, p)

PrimedMtp(p) == [on |-> TRUE, len |-> Len(p) - 1, cap |-> Len(p) - 1 + MaxLength + 2,
                 start |-> 0, first |-> 0, pos |-> -1, width |-> 0]

Prefill ==
    /\ ~Active
    /\ \E p \in Prompts, u \in BOOLEAN, t \in Tokens :
         /\ t \in Predict(Visible(PrefillCells(p), Len(p)), p)
         /\ useSpec' = u
         /\ plen' = Len(p)
         /\ text' = Append(p, t)
         /\ streamed' = <<t>>
         /\ hidden' = Len(p) - 1
         /\ IF Finished(text', plen')
            THEN pc' = "done" /\ ReleaseCaches
            ELSE /\ pc' = "loop"
                 /\ kv' = IF u THEN PrefillCells(p)
                               ELSE Extended(PrefillCells(p), Len(p), 1, AddZeros)
                 /\ seen' = Len(p)
                 /\ rec' = p
                 /\ mtp' = IF u /\ Recurrent THEN PrimedMtp(p) ELSE NoMtp
    /\ drafts' = <<>>
    /\ predicted' = <<>>
    /\ UNCHANGED weights

(* Mutant: speculative decoding never falls back to a single token.        *)
DecodeUnspeculated ==
    /\ pc = "loop" /\ ~useSpec
    /\ LET cells == Written(kv, seen, <<Seed>>)
       IN \E t \in Predict(Visible(cells, seen + 1), Append(rec, Seed)) :
            /\ text' = Append(text, t) /\ streamed' = Append(streamed, t)
            /\ IF Finished(text', plen)
               THEN pc' = "done" /\ ReleaseCaches
               ELSE /\ pc' = "loop"
                    /\ kv' = Extended(cells, seen + 1, 1, AddZeros)
                    /\ seen' = seen + 1 /\ rec' = Append(rec, Seed) /\ mtp' = mtp
    /\ hidden' = hidden + 1
    /\ UNCHANGED <<weights, useSpec, plen, drafts, predicted>>

(* One token in one pass: every iteration of normal decoding, and the last *)
(* token of speculative decoding, for which _speculative_draft_verify      *)
(* reserves the cell itself.                                               *)
DecodeOne ==
    /\ pc = "loop"
    /\ useSpec => Remaining <= 1
    /\ LET room == IF useSpec THEN Extended(kv, seen, 1, AddZeros) ELSE kv
           cells == Written(room, seen, <<Seed>>)
       IN \E t \in Predict(Visible(cells, seen + 1), Append(rec, Seed)) :
            /\ text' = Append(text, t)
            /\ streamed' = Append(streamed, t)
            /\ IF Finished(text', plen)
               THEN pc' = "done" /\ ReleaseCaches
               ELSE /\ pc' = "loop"
                    /\ kv' = IF useSpec THEN cells
                                        ELSE Extended(cells, seen + 1, 1, AddZeros)
                    /\ seen' = seen + 1
                    /\ rec' = Append(rec, Seed)
                    /\ UNCHANGED mtp
    /\ hidden' = hidden + 1
    /\ UNCHANGED <<weights, useSpec, plen, drafts, predicted>>

(* draft_mtp_tokens.  A recurrent head first catches up with the verified  *)
(* tokens queued by set_mtp_context, and raises when its cache does not    *)
(* end where they begin.                                                   *)
DraftCount ==
    LET wanted == Smaller(NumDraft, Remaining - 1)
    IN IF Recurrent THEN wanted ELSE Smaller(wanted, NumHeads)

FirstPosition == IF mtp.pos >= 0 THEN mtp.pos ELSE hidden
FirstWidth == IF mtp.pos >= 0 THEN mtp.width ELSE 1

DraftedMtp == [on |-> TRUE, len |-> mtp.len, cap |-> mtp.cap, start |-> mtp.len,
               first |-> FirstWidth, pos |-> -1, width |-> 0]

Draft ==
    /\ pc = "loop"
    /\ useSpec
    /\ Remaining > 1
    /\ mtp.on => mtp.len = FirstPosition
    /\ drafts' \in [1 .. DraftCount -> Tokens]
    /\ mtp' = IF mtp.on THEN DraftedMtp ELSE mtp
    /\ pc' = "drafted"
    /\ UNCHANGED <<weights, useSpec, plen, text, streamed, kv, seen, rec,
                   hidden, predicted>>

(* The verifying pass over the seed and the drafts.  The recurrent layers  *)
(* compute in their speculation buffers and leave rec alone.               *)
Chunk == <<Seed>> \o drafts

Verify ==
    /\ pc = "drafted"
    /\ kv' = Written(Extended(kv, seen, Len(Chunk), Larger(AddZeros, Len(Chunk))),
                     seen, Chunk)
    /\ seen' = seen + Len(Chunk)
    /\ predicted' \in [1 .. Len(Chunk) -> Tokens]
    /\ \A i \in 1 .. Len(Chunk) :
         predicted'[i] \in Predict(Visible(kv', seen + i),
                                   rec \o SubSeq(Chunk, 1, i))
    /\ pc' = "verified"
    /\ UNCHANGED <<weights, useSpec, plen, text, streamed, rec, hidden, drafts,
                   mtp>>

(* Mutant: drafts are accepted unseen.                                     *)
AcceptedUnseen(a) == a = Len(drafts)

(* The number of drafts accepted, and the number of tokens kept once the   *)
(* sequence is cut after its first end-of-sequence token.                  *)
Accepted(a) ==
    /\ \A i \in 1 .. a : predicted[i] = drafts[i]
    /\ a < Len(drafts) => predicted[a + 1] # drafts[a + 1]
Kept(c, a) ==
    /\ \A i \in 1 .. c - 1 : predicted[i] \notin Eos
    /\ c < a + 1 => predicted[c] \in Eos

CommittedMtp(c) ==
    [on |-> TRUE, len |-> mtp.start + mtp.first, cap |-> mtp.cap,
     start |-> mtp.start, first |-> mtp.first, pos |-> hidden + 1, width |-> c]

(* Mutant: the rejected drafts stay in the attention cache.                *)
KeepRejected(c, a) ==
    /\ text' = text \o SubSeq(predicted, 1, c)
    /\ streamed' = streamed \o SubSeq(predicted, 1, c)
    /\ hidden' = hidden + c
    /\ IF Finished(text', plen)
       THEN pc' = "done" /\ ReleaseCaches
       ELSE pc' = "loop" /\ UNCHANGED <<kv, seen, mtp>> /\ rec' = rec \o SubSeq(Chunk, 1, a + 1)

(* commit_mtp_draft, commit_speculation_group, the rewinding of            *)
(* cache_seqlens, advance_speculative and set_mtp_context, when a drafts   *)
(* are accepted and c tokens kept.                                         *)
Keep(c, a) ==
    /\ text' = text \o SubSeq(predicted, 1, c)
    /\ streamed' = streamed \o SubSeq(predicted, 1, c)
    /\ hidden' = hidden + c
    /\ IF Finished(text', plen)
       THEN pc' = "done" /\ ReleaseCaches
       ELSE /\ pc' = "loop"
            /\ kv' = kv
            /\ seen' = seen - (Len(drafts) - a)
            /\ rec' = rec \o SubSeq(Chunk, 1, a + 1)
            /\ mtp' = IF mtp.on THEN CommittedMtp(c) ELSE mtp

Commit ==
    /\ pc = "verified"
    /\ \E a \in 0 .. Len(drafts) : \E c \in 1 .. a + 1 :
         Accepted(a) /\ Kept(c, a) /\ Keep(c, a)
    /\ drafts' = <<>>
    /\ predicted' = <<>>
    /\ UNCHANGED <<weights, useSpec, plen>>

(* Any pass, the streamer or the drafting may raise;                       *)
(* _predict_batch_with_strategy restores the caches and lets it through.   *)
Fail ==
    /\ Active
    /\ pc' = "failed"
    /\ ReleaseCaches
    /\ drafts' = <<>>
    /\ predicted' = <<>>
    /\ UNCHANGED <<weights, useSpec, plen, text, streamed, hidden>>

Next == Prefill \/ DecodeOne \/ Draft \/ Verify \/ Commit \/ Fail

Spec == Init /\ [][Next]_vars

(* The loop runs until the request ends; nothing obliges a client to send  *)
(* another, or a pass to fail.                                             *)
FairSpec == Spec /\ WF_vars(DecodeOne \/ Draft \/ Verify \/ Commit)

------------------------------------------------------------------------------
(* Properties.                                                             *)

Consumed == SubSeq(text, 1, Len(text) - 1)

(* Before every pass both summaries of the text that the model works from  *)
(* describe all of it but the seed: the attention cache once the rejected  *)
(* drafts are rewound, the recurrent state once the accepted ones are      *)
(* committed.  A cell too many or too few would silently change every      *)
(* later token.                                                            *)
CachesDescribeText ==
    pc = "loop" => /\ SubSeq(kv, 1, seen) = Consumed
                   /\ rec = Consumed

(* "flash_attn_with_kvcache can write past the dynamic cache allocation"   *)
(* (generator.py, before the chunk is reserved): no pass does.  The MTP    *)
(* cache, sized once per request, has room for every draft as well.        *)
WritesStayInside ==
    /\ Active => seen <= Len(kv)
    /\ pc = "drafted" /\ mtp.on =>
         mtp.start + mtp.first + Len(drafts) - 1 <= mtp.cap

(* draft_mtp_tokens never raises "MTP prefix length does not match target  *)
(* position": the head's cache ends where the next verified block begins,  *)
(* and that block ends at the position the hidden state was taken from.    *)
MtpInStep ==
    pc = "loop" /\ useSpec /\ mtp.on =>
        /\ mtp.len = FirstPosition
        /\ FirstPosition + FirstWidth = seen

(* Speculation changes how many passes are made, never what is generated   *)
(* or streamed: the requirement of test_speculative_decoding.py for every  *)
(* model, every draft and every acceptance.                                *)
Greedy == INSTANCE GreedyDecoding WITH
    status <- IF Active THEN "running" ELSE pc
ImplementsGreedy == Greedy!Spec

(* Every cycle makes progress, also when nothing is accepted.              *)
RequestEnds == Active ~> ~Active

------------------------------------------------------------------------------
(* The inductive invariant, checked by TLC and used by the proofs in       *)
(* SpeculativeDecoding_proofs.                                             *)

(* The text is greedy so far and the request is not over.                  *)
TextInv == Active =>
    /\ plen > 0
    /\ plen + MaxLength <= KvMax
    /\ plen < Len(text)
    /\ Len(text) - plen < MaxLength
    /\ \A i \in plen + 1 .. Len(text) :
         text[i] = Argmax(weights, SubSeq(text, 1, i - 1)) /\ text[i] \notin Eos
    /\ streamed = SubSeq(text, plen + 1, Len(text))
    /\ hidden = Len(text) - 2

(* Both summaries describe the text but its last token.                    *)
CacheInv ==
    /\ Active /\ ~Dynamic => Len(kv) = KvMax
    /\ pc \in {"loop", "drafted"} =>
         /\ seen = Len(text) - 1
         /\ seen <= Len(kv)
         /\ \A j \in 1 .. seen : kv[j] = text[j]
         /\ rec = SubSeq(text, 1, seen)
    /\ pc = "loop" /\ ~useSpec => seen < Len(kv)

(* A verified chunk: the cache holds the drafts behind the text, and each  *)
(* prediction follows from the text and the drafts before it.              *)
ChunkInv ==
    /\ pc \in {"drafted", "verified"} =>
         useSpec /\ Len(drafts) \in 1 .. Remaining - 1
    /\ pc = "verified" =>
         /\ Len(predicted) = Len(drafts) + 1
         /\ seen = Len(text) + Len(drafts)
         /\ seen <= Len(kv)
         /\ rec = SubSeq(text, 1, Len(text) - 1)
         /\ \A j \in 1 .. seen : kv[j] = (text \o drafts)[j]
         /\ \A i \in 1 .. Len(predicted) :
              predicted[i] = Argmax(weights, SubSeq(text \o drafts, 1, Len(text) + i - 1))

(* The MTP cache ends where the block it will see next begins.             *)
MtpInv == mtp.on =>
    /\ Active /\ useSpec
    /\ mtp.cap = plen + MaxLength + 1
    /\ pc = "loop" => /\ mtp.len = FirstPosition
                      /\ FirstPosition + FirstWidth = Len(text) - 1
    /\ pc # "loop" => mtp.start + mtp.first = Len(text) - 1

IInv == TypeOK /\ TextInv /\ CacheInv /\ ChunkInv /\ MtpInv
==============================================================================
