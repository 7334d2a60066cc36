----------------------------- MODULE GreedySearch -----------------------------
(***************************************************************************)
(* Greedy search and sampling over a batch of prompts, as                  *)
(* GeneratorLM's loop drives GreedySearchLM: BeamSize rows for each        *)
(* prompt, each row one continuation.  With a dynamic batch a finished row *)
(* leaves and everything kept per row is reindexed; with a static batch it *)
(* stays, and what it goes on to generate is ignored.  Logits are          *)
(* abstracted to a class: a row takes any token of the least class there   *)
(* is, the others being too improbable to be drawn.                        *)
(***************************************************************************)
EXTENDS Integers, SequencesExt, FiniteSetsExt

CONSTANTS
    BatchSize, BeamSize,
    Tokens, EOS, BOS,     \* EOS a set of Tokens; BOS is not one of them
    MinLength, MaxLength,
    NgramRepeat,          \* block_ngram_repeat, 0 if nothing is blocked
    StaticBatchSize,
    LeftPad,              \* prompts are padded on the left
    Prompt                \* of each example

Examples == 1 .. BatchSize

(* What the options are checked for.                                       *)
GreedySearchAssumption ==
    /\ {BatchSize, BeamSize, MaxLength} \subseteq Nat \ {0}
    /\ EOS \subseteq Tokens /\ BOS \notin Tokens
    /\ {MinLength, NgramRepeat} \subseteq Nat
    /\ {StaticBatchSize, LeftPad} \subseteq BOOLEAN
    /\ Prompt \in [Examples -> Seq(Tokens) \ {<<>>}]

VARIABLES
    original_batch_idx,   \* rows: the example
    alive_seq,            \* rows: the start token and the tokens picked
    target_prefix,        \* rows: tokens that must be picked first
    scored,               \* rows: the tokens summed up in beams_scores
    src_len,              \* rows
    state,                \* rows of the caller's decoder: tokens it was fed
    forbidden_tokens,     \* rows of the first batch: n-grams seen
    is_finished_list,     \* rows before the last removal
    select_indices,       \* the rows that stayed, as rows before it
    sequence_finished,    \* rows of the first batch
    hypotheses,           \* of each example
    streamed,             \* the tokens the streamer was given
    done

rows == <<original_batch_idx, alive_seq, target_prefix, scored, src_len, state>>
vars == <<rows, forbidden_tokens, is_finished_list, select_indices,
          sequence_finished, hypotheses, streamed, done>>

(* fn_tile.                                                                *)
Example(r) == ((r - 1) \div BeamSize) + 1
AllRows == 1 .. BatchSize * BeamSize
Tile(value) == [r \in AllRows |-> value[Example(r)]]

------------------------------------------------------------------------------
(* split_src_to_prevent_padding: without left padding the model is first   *)
(* given as much of each prompt as the shortest has, the rest is forced.   *)
MinLen == Min({Len(Prompt[b]) : b \in Examples})
MaxLen == Max({Len(Prompt[b]) : b \in Examples})
IsSplit == ~LeftPad /\ MinLen < MaxLen

Src(b) == IF IsSplit THEN SubSeq(Prompt[b], 1, MinLen) ELSE Prompt[b]
Rest(b) == IF IsSplit THEN SubSeq(Prompt[b], MinLen + 1, Len(Prompt[b])) ELSE <<>>

(* DecodeStrategy.initialize takes the first column for a start token.     *)
TargetPrefix(b) == IF Rest(b) = <<>> THEN <<>> ELSE Tail(Rest(b))
PrefixLen == IF IsSplit THEN MaxLen - MinLen - 1 ELSE 0

(* The shortest prompt has nothing but padding in that tensor, from which  *)
(* one more is taken for an end token.                                     *)
MinLengthNow == IF IsSplit THEN MinLength - 1 ELSE MinLength

Init ==
    /\ original_batch_idx = Tile([b \in Examples |-> b])
    /\ alive_seq = [r \in AllRows |-> <<BOS>>]
    /\ target_prefix = Tile([b \in Examples |-> TargetPrefix(b)])
    /\ scored = [r \in AllRows |-> <<>>]
    /\ src_len = Tile([b \in Examples |-> Len(Src(b))])
    /\ state = [r \in AllRows |-> <<>>]
    /\ forbidden_tokens = [r \in AllRows |-> {}]
    /\ is_finished_list = [b \in Examples |-> FALSE]
    /\ select_indices = [r \in AllRows |-> r]
    /\ sequence_finished = [r \in AllRows |-> FALSE]
    /\ hypotheses = [b \in Examples |-> <<>>]
    /\ streamed = <<>>
    /\ done = FALSE

------------------------------------------------------------------------------
(* advance.                                                                *)

Rows == DOMAIN alive_seq
Step == Len(alive_seq[1])

(* The decoder is fed the prompts, then the last token of each row.        *)
Fed == [r \in Rows |->
           IF Step = 1 THEN Src(Example(r)) ELSE Append(state[r], Last(alive_seq[r]))]

LastN(s, n) == SubSeq(s, Len(s) - n + 1, Len(s))

(* block_ngram_repeats.  No step of this search records the n-grams it has *)
(* seen (maybe_update_forbidden_tokens), so that it blocks none.           *)
IsBlocked(r, t) ==
    /\ NgramRepeat > 1
    /\ Step >= NgramRepeat
    /\ Append(LastN(alive_seq[r], NgramRepeat - 1), t) \in forbidden_tokens[r]

(* ensure_min_length.                                                      *)
IsTooShort(r, t) == t \in EOS /\ Step <= MinLengthNow

(* target_prefixing, which an end token in the prefix leaves free.         *)
IsOffPrefix(r, t) ==
    /\ Step <= Len(target_prefix[r])
    /\ target_prefix[r][Step] \notin EOS
    /\ t # target_prefix[r][Step]

(* 0: as the model has it; 1: -10000; 2: -65504; 3: -10e20.                *)
TokenClass(r, t) ==
    IF StaticBatchSize /\ sequence_finished[r] THEN 2
    ELSE IF IsBlocked(r, t) THEN 3
    ELSE IF IsTooShort(r, t) THEN 2
    ELSE IF IsOffPrefix(r, t) THEN 1 ELSE 0

(* _pick, sample_with_temperature.                                         *)
MayPick(r) == {t \in Tokens : \A u \in Tokens : TokenClass(r, t) <= TokenClass(r, u)}

Picks ==
    LET upTo[n \in 0 .. Len(alive_seq)] ==
            IF n = 0 THEN {<<>>}
            ELSE {Append(both[1], both[2]) : both \in upTo[n - 1] \X MayPick(n)}
    IN  upTo[Len(alive_seq)]

(* align_select_indices: once rows were removed, those left are numbered   *)
(* anew.                                                                   *)
Aligned ==
    IF Len(is_finished_list) # Len(select_indices)
    THEN [i \in DOMAIN select_indices |-> i] ELSE select_indices

(* beams_scores: restarted where the prefix ends.                          *)
Scored(picks, r) ==
    IF PrefixLen > 0 /\ Step = PrefixLen THEN <<>>
    ELSE IF StaticBatchSize /\ sequence_finished[r] THEN scored[r]
    ELSE Append(scored[r], picks[r])

(* Also ensure_max_length.                                                 *)
IsFinished(picks, r) == picks[r] \in EOS \/ Step + 1 = MaxLength + 1

FinishedRows(picks) == {r \in Rows : IsFinished(picks, r)}

(* The caller gives the streamer the token of the first row.               *)
Put(picks) == Append(streamed, picks[1])

------------------------------------------------------------------------------
(* update_finished.                                                        *)

Stores(picks) ==
    {r \in FinishedRows(picks) : ~(StaticBatchSize /\ sequence_finished[r])}

BelongsByPlace(r) == Example(r)

Belongs(r) == original_batch_idx[r]

(* The hypotheses of an example, in the order of their rows.  text, for    *)
(* the properties, is what the model read before its last token.           *)
Stored(picks) ==
    [b \in Examples |->
        LET own == SetToSortSeq({r \in Stores(picks) : Belongs(r) = b}, <)
        IN  hypotheses[b] \o
            [j \in DOMAIN own |->
                LET r == own[j]
                IN  [pred |-> Append(Tail(alive_seq[r]), picks[r]),
                     scored |-> Scored(picks, r),
                     text |-> Fed[r]]]]

IsDone(picks) ==
    IF StaticBatchSize THEN \A r \in Rows : sequence_finished[r] \/ IsFinished(picks, r)
    ELSE FinishedRows(picks) = Rows

Extended(picks) == [r \in Rows |-> Append(alive_seq[r], picks[r])]

(* Nothing leaves.  map_state is called all the same if there are beams.   *)
KeepRows(picks) ==
    /\ alive_seq' = Extended(picks)
    /\ scored' = [r \in Rows |-> Scored(picks, r)]
    /\ src_len' = [r \in Rows |-> src_len[r] + 1]
    /\ select_indices' = Aligned
    /\ state' = IF BeamSize > 1 THEN [i \in DOMAIN Aligned |-> Fed[Aligned[i]]] ELSE Fed
    /\ UNCHANGED <<original_batch_idx, target_prefix>>

At(value, index) == [i \in DOMAIN index |-> value[index[i]]]

RemoveWithoutState(picks) ==
    LET kept == SetToSortSeq(Rows \ FinishedRows(picks), <)
    IN  /\ alive_seq' = At(Extended(picks), kept)
        /\ scored' = At([r \in Rows |-> Scored(picks, r)], kept)
        /\ src_len' = At([r \in Rows |-> src_len[r] + 1], kept)
        /\ original_batch_idx' = At(original_batch_idx, kept)
        /\ select_indices' = kept
        /\ state' = [i \in DOMAIN kept |-> Fed[i]]
        /\ UNCHANGED target_prefix

(* Finished rows leave, and the decoder's cache follows; the prefix too    *)
(* while there is one to follow (maybe_update_target_prefix).              *)
RemoveFinished(picks) ==
    LET kept == SetToSortSeq(Rows \ FinishedRows(picks), <)
    IN  /\ alive_seq' = At(Extended(picks), kept)
        /\ scored' = At([r \in Rows |-> Scored(picks, r)], kept)
        /\ src_len' = At([r \in Rows |-> src_len[r] + 1], kept)
        /\ original_batch_idx' = At(original_batch_idx, kept)
        /\ select_indices' = kept
        /\ state' = At(Fed, kept)
        /\ target_prefix' = IF Step + 1 > PrefixLen THEN target_prefix
                            ELSE At(target_prefix, kept)

------------------------------------------------------------------------------
(* A step of the caller's loop: the model, advance, the streamer, and if   *)
(* a row finished update_finished.                                         *)
Advance(picks) ==
    /\ is_finished_list' = [r \in Rows |-> IsFinished(picks, r)]
    /\ streamed' = Put(picks)
    /\ hypotheses' = Stored(picks)
    /\ sequence_finished' =
           [r \in AllRows |-> sequence_finished[r] \/ r \in Stores(picks)]
    /\ UNCHANGED forbidden_tokens

Leave(picks) ==
    /\ ~StaticBatchSize /\ FinishedRows(picks) # {} /\ ~IsDone(picks)
    /\ Advance(picks)
    /\ RemoveFinished(picks)
    /\ UNCHANGED done

Stay(picks) ==
    /\ StaticBatchSize \/ FinishedRows(picks) = {}
    /\ ~IsDone(picks)
    /\ Advance(picks)
    /\ KeepRows(picks)
    /\ UNCHANGED done

(* The search is done: the best hypotheses become the predictions and the  *)
(* loop ends before the cache follows the rows.                            *)
End(picks) ==
    /\ IsDone(picks)
    /\ Advance(picks)
    /\ alive_seq' = Extended(picks)
    /\ scored' = [r \in Rows |-> Scored(picks, r)]
    /\ src_len' = [r \in Rows |-> src_len[r] + 1]
    /\ select_indices' = Aligned
    /\ state' = Fed
    /\ done' = TRUE
    /\ UNCHANGED <<original_batch_idx, target_prefix>>

Next == ~done /\ \E picks \in Picks : Leave(picks) \/ Stay(picks) \/ End(picks)

Returned == done /\ UNCHANGED vars

Spec == Init /\ [][Next \/ Returned]_vars

------------------------------------------------------------------------------
(* Properties.                                                             *)

Hypothesis == [pred : Seq(Tokens), scored : Seq(Tokens), text : Seq(Tokens)]

TypeOK ==
    /\ alive_seq \in Seq(Seq(Tokens \cup {BOS}))
    /\ \A r \in Rows : Len(alive_seq[r]) \in 1 .. MaxLength + 1
    /\ original_batch_idx \in [Rows -> Examples]
    /\ scored \in [Rows -> Seq(Tokens)]
    /\ src_len \in [Rows -> Nat]
    /\ state \in [Rows -> Seq(Tokens)]
    /\ Len(target_prefix) >= Len(alive_seq)
    /\ select_indices \in Seq(AllRows)
    /\ is_finished_list \in Seq(BOOLEAN)
    /\ sequence_finished \in [AllRows -> BOOLEAN]
    /\ hypotheses \in [Examples -> Seq(Hypothesis)]
    /\ streamed \in Seq(Tokens)
    /\ done \in BOOLEAN

(* Whatever finished and left, everything kept for a row is about the same *)
(* continuation of the same example: its prefix, the length that goes with *)
(* its text, and the decoder's cache, which was fed that example's prompt  *)
(* and the row's own tokens and no other.                                  *)
RowsStayAligned ==
    ~done /\ Step > 1 => \A r \in Rows :
        LET b == original_batch_idx[r]
        IN  /\ state[r] = Src(b) \o Tail(Front(alive_seq[r]))
            /\ src_len[r] = Len(state[r]) + 1
            /\ Step <= PrefixLen => target_prefix[r] = TargetPrefix(b)

(* Each example ends with one hypothesis for each of its rows: none is     *)
(* lost with a row that left, none stored again by a row that stayed or    *)
(* credited to another example.                                            *)
EveryRowAnsweredOnce ==
    /\ \A b \in Examples : Len(hypotheses[b]) <= BeamSize
    /\ done => \A b \in Examples : Len(hypotheses[b]) = BeamSize

(* The score of a hypothesis sums up its own tokens, from the end of the   *)
(* forced prefix on.                                                       *)
ScoreIsOfPrediction ==
    \A b \in Examples : \A j \in DOMAIN hypotheses[b] :
        LET h == hypotheses[b][j]
        IN  h.scored = IF Len(h.pred) < PrefixLen THEN h.pred
                       ELSE SubSeq(h.pred, PrefixLen + 1, Len(h.pred))

(* What the model has read when a hypothesis ends is the prompt and a      *)
(* continuation of it.  A prompt that is split to avoid padding loses the  *)
(* token that initialize takes for a start token, and that one only.       *)
TextContinuesPrompt ==
    \A b \in Examples : \A j \in DOMAIN hypotheses[b] :
        LET read == Src(b) \o TargetPrefix(b)
            text == hypotheses[b][j].text
        IN  /\ IsPrefix(read, text) \/ IsPrefix(text, read)
            /\ Rest(b) = <<>> => IsPrefix(Prompt[b], text)

(* "Minimum prediction length": an end token comes after that many others, *)
(* if no prompt of the batch is split.                                     *)
MinLengthIsKept ==
    ~IsSplit => \A b \in Examples : \A j \in DOMAIN hypotheses[b] :
        Last(hypotheses[b][j].pred) \in EOS => Len(hypotheses[b][j].pred) > MinLength

(* "each newly generated token (for the first sequence) is pushed to the   *)
(* streamer": in the end the client has the tokens of one prediction, as   *)
(* long as there is one row; of several it has those of whichever is first.*)
StreamIsOnePrediction ==
    done /\ BatchSize * BeamSize = 1 => \E b \in Examples : \E j \in DOMAIN hypotheses[b] :
                hypotheses[b][j].pred = streamed
=============================================================================
