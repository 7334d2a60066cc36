------------------------------ MODULE BeamSearch ------------------------------
(***************************************************************************)
(* Beam search over a batch.  Everything kept per beam is one flat         *)
(* sequence of rows, BeamSize rows for each example still in the batch:    *)
(* each step picks the best continuations of an example's rows, stores the *)
(* finished ones, drops the examples that are done and reindexes the rows  *)
(* and the decoder's state.  Scores are abstracted to a class: a candidate *)
(* of a lower class wins over one of a higher, and within a class any may. *)
(***************************************************************************)
EXTENDS Integers, SequencesExt, FiniteSetsExt

CONSTANTS
    BatchSize, BeamSize, NBest,
    Tokens, EOS, BOS,     \* EOS is one of Tokens, BOS is not
    MinLength, MaxLength,
    NgramRepeat,          \* block_ngram_repeat, 0 if nothing is blocked
    ExclusionTokens,
    StaticBatchSize,
    Ratio,                \* whether ratio > 0
    SrcLen,               \* the length of each source
    Prefix                \* the target prefix of each example, maybe <<>>

Examples == 1 .. BatchSize

(* What the options are checked for.                                       *)
BeamSearchAssumption ==
    /\ {BatchSize, BeamSize, NBest} \subseteq Nat \ {0}
    /\ NBest <= BeamSize
    /\ EOS \in Tokens /\ BOS \notin Tokens
    /\ {MinLength, MaxLength, NgramRepeat} \subseteq Nat
    /\ ExclusionTokens \subseteq Tokens
    /\ {StaticBatchSize, Ratio} \subseteq BOOLEAN
    /\ SrcLen \in [Examples -> Nat]
    /\ Prefix \in [Examples -> Seq(Tokens \ {EOS})]
    /\ \A b \in Examples : Len(Prefix[b]) < MaxLength

VARIABLES
    batch_offset,         \* the example at each place of the batch
    alive_seq,            \* rows: the tokens
    class,                \* rows: the class of topk_log_probs
    forbidden_tokens,     \* rows: the n-grams seen
    src_len,              \* rows
    target_prefix,        \* rows
    enc_out, state,       \* rows of the caller: source, tokens in the cache
    batch_finished,       \* places, with a static batch
    hypotheses,           \* finished beams of each example
    predictions,          \* those the n best are taken from, for each time it is done
    done

rows == <<alive_seq, class, forbidden_tokens, src_len, target_prefix, enc_out, state>>
vars == <<batch_offset, rows, batch_finished, hypotheses, predictions, done>>

(* Classes of log-probabilities: live; pushed down by -10000 because the   *)
(* prefix asks for another token; masked with -65504; blocked with -10e20; *)
(* -inf.                                                                   *)
Live == 0
OffPrefix == 1
Masked == 2
Blocked == 3
Dead == 4

Places == DOMAIN batch_offset
Beams == 1 .. BeamSize
Row(p, k) == (p - 1) * BeamSize + k
PlaceOf(r) == ((r - 1) \div BeamSize) + 1
BeamOf(r) == ((r - 1) % BeamSize) + 1

(* fn_tile.                                                                *)
Tile(value) == [r \in 1 .. BatchSize * BeamSize |-> value[PlaceOf(r)]]

LongestPrefix == CHOOSE n \in {Len(Prefix[b]) : b \in Examples} :
                     \A b \in Examples : Len(Prefix[b]) <= n
ShortestPrefix == CHOOSE n \in {Len(Prefix[b]) : b \in Examples} :
                      \A b \in Examples : Len(Prefix[b]) >= n

(* The prefix tensor has an end token after the longest prefix.            *)
PrefixLen == IF LongestPrefix = 0 THEN 0 ELSE LongestPrefix + 1

Init ==
    /\ batch_offset = [b \in Examples |-> b]
    /\ alive_seq = Tile([b \in Examples |-> <<BOS>>])
    /\ class = [r \in 1 .. BatchSize * BeamSize |-> IF BeamOf(r) = 1 THEN Live ELSE Dead]
    /\ forbidden_tokens = Tile([b \in Examples |-> {}])
    /\ src_len = Tile(SrcLen)
    /\ target_prefix = Tile(Prefix)
    /\ enc_out = Tile([b \in Examples |-> b])
    /\ state = Tile([b \in Examples |-> <<>>])
    /\ batch_finished = [b \in Examples |-> FALSE]
    /\ hypotheses = [b \in Examples |-> <<>>]
    /\ predictions = [b \in Examples |-> <<>>]
    /\ done = FALSE

------------------------------------------------------------------------------
(* advance: what may be picked.                                            *)

Step == Len(alive_seq[1])

LastN(s, n) == SubSeq(s, Len(s) - n + 1, Len(s))

(* block_ngram_repeats.  The slice [-0:] that n = 0 asks for is the whole   *)
(* sequence, which is never a key: single tokens are not blocked.          *)
IsBlocked(r, t) ==
    /\ NgramRepeat > 1
    /\ Step >= NgramRepeat
    /\ Append(LastN(alive_seq[r], NgramRepeat - 1), t) \in forbidden_tokens[r]

FreeTooSoon(r, t) == Step < Len(target_prefix[r]) /\ t # target_prefix[r][Step]

(* target_prefixing                                                        *)
IsOffPrefix(r, t) == Step <= Len(target_prefix[r]) /\ t # target_prefix[r][Step]

(* ensure_min_length, counted from the shortest prefix, and the mask of    *)
(* finished examples of a static batch.                                    *)
IsMasked(r, t) ==
    \/ t = EOS /\ Step <= MinLength + ShortestPrefix
    \/ StaticBatchSize /\ batch_finished[PlaceOf(r)]

TokenClass(r, t) ==
    IF IsBlocked(r, t) THEN Blocked
    ELSE IF IsMasked(r, t) THEN Masked
    ELSE IF IsOffPrefix(r, t) THEN OffPrefix ELSE Live

Worse(c, d) == IF c > d THEN c ELSE d

(* At the end of the prefix the score of the first beam restarts at 0.     *)
RowClass(r) ==
    IF PrefixLen > 0 /\ Step = PrefixLen /\ BeamOf(r) = 1 THEN Live
    ELSE class[r]

Candidates(p) == {Row(p, k) : k \in Beams} \X Tokens

CandidateClass(c) == Worse(RowClass(c[1]), TokenClass(c[1], c[2]))

(* topk over the candidates of an example.                                 *)
Picks(p) ==
    {pick \in [Beams -> Candidates(p)] :
        /\ IsInjective(pick)
        /\ \A k \in Beams : \A c \in Candidates(p) :
               CandidateClass(c) < CandidateClass(pick[k]) =>
                   \E j \in 1 .. k - 1 : pick[j] = c}

------------------------------------------------------------------------------
(* advance: the rows that follow.                                          *)

Chosen(picks) == [r \in DOMAIN alive_seq |-> picks[PlaceOf(r)][BeamOf(r)]]

Extended(chosen) ==
    [r \in DOMAIN chosen |-> Append(alive_seq[chosen[r][1]], chosen[r][2])]

(* maybe_update_forbidden_tokens                                           *)
Forbidden(chosen) ==
    IF NgramRepeat = 0 \/ Step + 1 < NgramRepeat THEN forbidden_tokens
    ELSE [r \in DOMAIN chosen |->
             LET ngram == LastN(Extended(chosen)[r], NgramRepeat)
                 before == forbidden_tokens[chosen[r][1]]
             IN  IF ToSet(ngram) \cap ExclusionTokens # {} THEN before
                 ELSE before \cup {ngram}]

(* ensure_max_length finishes every beam.                                  *)
IsFinished(chosen, r) == chosen[r][2] = EOS \/ Step + 1 = MaxLength + 1

AnyFinished(chosen) == \E r \in DOMAIN chosen : IsFinished(chosen, r)

(* The caller feeds the last token of each row to the decoder, and has the *)
(* cache follow the rows it is told.                                       *)
Fed == [r \in DOMAIN alive_seq |-> Append(state[r], Last(alive_seq[r]))]

------------------------------------------------------------------------------
(* update_finished.                                                        *)

FinishedBeams(chosen, p) ==
    SelectSeq([k \in Beams |-> k], LAMBDA k : IsFinished(chosen, Row(p, k)))

Considered(p) == ~(StaticBatchSize /\ batch_finished[p])

Stored(p) == hypotheses[batch_offset[p]]

(* The hypotheses of the example once its finished beams are stored: the   *)
(* sequence without its start token, and how much of the attention is      *)
(* kept: src_len is indexed by the place, though it has a value per row.   *)
Hypotheses(chosen, p) ==
    LET beams == FinishedBeams(chosen, p)
    IN  IF ~Considered(p) THEN Stored(p)
        ELSE Stored(p) \o
             [j \in DOMAIN beams |->
                 LET pick == chosen[Row(p, beams[j])]
                 IN  [pred |-> Append(Tail(alive_seq[pick[1]]), pick[2]),
                      attn |-> src_len[p]]]

(* An example with a finished beam and its n best hypotheses may stop: if  *)
(* its top beam is finished or, with a ratio, as the scores have it, and   *)
(* certainly if all its beams are finished.                                *)
MayStop(chosen, p) ==
    /\ Considered(p)
    /\ FinishedBeams(chosen, p) # <<>>
    /\ Len(Hypotheses(chosen, p)) >= NBest
    /\ Ratio \/ IsFinished(chosen, Row(p, 1))

MustStop(chosen, p) == ~Ratio \/ Len(FinishedBeams(chosen, p)) = BeamSize

Stopping(chosen) ==
    LET may == {p \in Places : MayStop(chosen, p)}
    IN  {stops \in SUBSET may : \A p \in may : MustStop(chosen, p) => p \in stops}

GoesOn(stops) ==
    SelectSeq([p \in Places |-> p], LAMBDA p : Considered(p) /\ p \notin stops)

(* batch_offset tells which example is at a place.                         *)
PlacesHolding(b) == {p \in Places : batch_offset[p] = b}

(* predictions gets the n best of the hypotheses of an example that stops. *)
Store(chosen, stops) ==
    /\ hypotheses' = [b \in Examples |->
           IF PlacesHolding(b) = {} THEN hypotheses[b]
           ELSE Hypotheses(chosen, CHOOSE p \in PlacesHolding(b) : TRUE)]
    /\ predictions' = [b \in Examples |->
           IF PlacesHolding(b) \cap stops = {} THEN predictions[b]
           ELSE Append(predictions[b], hypotheses'[b])]

(* Finished beams are masked, with or without anything removed.            *)
MaskFinished(chosen) ==
    [r \in DOMAIN chosen |->
        IF IsFinished(chosen, r) THEN Masked ELSE CandidateClass(chosen[r])]

(* The rows that stay, as rows of this step.                               *)
Kept(places) ==
    [r \in 1 .. Len(places) * BeamSize |-> Row(places[PlaceOf(r)], BeamOf(r))]

At(value, index) == [r \in DOMAIN index |-> value[index[r]]]

RemoveWithoutState(chosen, places) ==
    LET kept == Kept(places)
        select_indices == [r \in DOMAIN kept |-> chosen[kept[r]][1]]
    IN  /\ batch_offset' = At(batch_offset, places)
        /\ alive_seq' = At(Extended(chosen), kept)
        /\ class' = At(MaskFinished(chosen), kept)
        /\ forbidden_tokens' = Forbidden(chosen)
        /\ src_len' = At(src_len, select_indices)
        /\ target_prefix' = IF Step + 1 > PrefixLen THEN target_prefix
                            ELSE At(target_prefix, select_indices)
        /\ enc_out' = At(enc_out, kept)
        /\ state' = At(Fed, kept)

(* remove_finished_batches: the rows that stay, and everything the caller  *)
(* and the strategy keep, except the n-grams.                              *)
RemoveFinished(chosen, places) ==
    LET kept == Kept(places)
        select_indices == [r \in DOMAIN kept |-> chosen[kept[r]][1]]
    IN  /\ batch_offset' = At(batch_offset, places)
        /\ alive_seq' = At(Extended(chosen), kept)
        /\ class' = At(MaskFinished(chosen), kept)
        /\ forbidden_tokens' = Forbidden(chosen)
        /\ src_len' = At(src_len, select_indices)
        /\ target_prefix' = IF Step + 1 > PrefixLen THEN target_prefix
                            ELSE At(target_prefix, select_indices)
        /\ enc_out' = At(enc_out, select_indices)
        /\ state' = At(Fed, select_indices)

KeepRows(chosen, classes) ==
    /\ alive_seq' = Extended(chosen)
    /\ class' = classes
    /\ forbidden_tokens' = Forbidden(chosen)
    /\ state' = [r \in DOMAIN chosen |-> Fed[chosen[r][1]]]
    /\ UNCHANGED <<batch_offset, src_len, target_prefix, enc_out>>

(* No beam finishes: advance alone.                                        *)
Advance(chosen) ==
    /\ ~AnyFinished(chosen)
    /\ KeepRows(chosen, [r \in DOMAIN chosen |-> CandidateClass(chosen[r])])
    /\ UNCHANGED <<batch_finished, hypotheses, predictions, done>>

UpdateFinished(chosen, stops) ==
    /\ Store(chosen, stops)
    /\ batch_finished' = [p \in Places |->
           batch_finished[p] \/ (StaticBatchSize /\ p \in stops)]
    /\ done' = (GoesOn(stops) = <<>>)

(* Finished examples leave the batch.                                      *)
UpdateDynamic(chosen, stops) ==
    /\ ~StaticBatchSize
    /\ GoesOn(stops) # <<>>
    /\ UpdateFinished(chosen, stops)
    /\ RemoveFinished(chosen, GoesOn(stops))

(* Finished examples stay, masked; also the last update of any batch.      *)
UpdateInPlace(chosen, stops) ==
    /\ StaticBatchSize \/ GoesOn(stops) = <<>>
    /\ UpdateFinished(chosen, stops)
    /\ KeepRows(chosen, MaskFinished(chosen))

(* One pick for each place.                                                *)
AllPicks ==
    LET upTo[n \in 0 .. Len(batch_offset)] ==
            IF n = 0 THEN {<<>>}
            ELSE {Append(both[1], both[2]) : both \in upTo[n - 1] \X Picks(n)}
    IN  upTo[Len(batch_offset)]

Next ==
    /\ ~done
    /\ \E picks \in AllPicks :
          LET chosen == Chosen(picks)
          IN  \/ Advance(chosen)
              \/ /\ AnyFinished(chosen)
                 /\ \E stops \in Stopping(chosen) :
                        UpdateDynamic(chosen, stops) \/ UpdateInPlace(chosen, stops)

(* The caller's loop ends when the search is done.                         *)
Finish == done /\ UNCHANGED vars

Spec == Init /\ [][Next \/ Finish]_vars

------------------------------------------------------------------------------
(* Properties.                                                             *)

Rows == 1 .. Len(batch_offset) * BeamSize

TypeOK ==
    /\ batch_offset \in Seq(Examples)
    /\ alive_seq \in [Rows -> Seq(Tokens \cup {BOS})]
    /\ \A r \in Rows : Len(alive_seq[r]) <= MaxLength + 1
    /\ class \in [Rows -> Live .. Dead]
    /\ Len(forbidden_tokens) >= Len(batch_offset) * BeamSize
    /\ src_len \in [Rows -> Nat]
    /\ Len(target_prefix) >= Len(batch_offset) * BeamSize
    /\ enc_out \in [Rows -> Examples]
    /\ state \in [Rows -> Seq(Tokens \cup {BOS})]
    /\ hypotheses \in [Examples -> Seq([pred : Seq(Tokens), attn : Nat])]
    /\ predictions \in [Examples -> Seq(Seq([pred : Seq(Tokens), attn : Nat]))]
    /\ done \in BOOLEAN

(* Whatever was picked, finished and removed, row r still is about one     *)
(* example: its encoder output, source length and prefix are that of the   *)
(* example at its place, and the decoder's cache holds the row's tokens.   *)
RowsStayAligned ==
    ~done => \A r \in Rows :
        LET b == batch_offset[PlaceOf(r)]
        IN  /\ enc_out[r] = b
            /\ src_len[r] = SrcLen[b]
            /\ Step <= PrefixLen => target_prefix[r] = Prefix[b]
            /\ state[r] = Front(alive_seq[r])

(* Every example ends with n_best predictions, stored once.                *)
EveryExampleAnswered ==
    /\ done => \A b \in Examples : Len(predictions[b]) = 1
    /\ \A b \in Examples : Len(predictions[b]) <= 1
    /\ \A b \in Examples : \A j \in DOMAIN predictions[b] :
           Len(predictions[b][j]) >= NBest

(* A hypothesis of an example follows the prefix of that example, if       *)
(* nothing made the beam leave it.                                         *)
PrefixIsFollowed ==
    ~done => \A r \in Rows : class[r] = Live =>
        LET prefix == Prefix[batch_offset[PlaceOf(r)]]
            pred == Tail(alive_seq[r])
        IN  IsPrefix(prefix, pred) \/ IsPrefix(pred, prefix)

Ngrams(s) == {n \in 1 .. Len(s) - NgramRepeat + 1 :
                 ToSet(SubSeq(s, n, n + NgramRepeat - 1)) \cap ExclusionTokens = {}}

(* "We prevent the beam from going in any direction that would repeat any  *)
(* ngram of size <block_ngram_repeat> more thant once": however the beams  *)
(* of an example are reordered.  That holds for two tokens or more and     *)
(* while no example has left the batch, since the n-grams stay behind.     *)
NoNgramTwice ==
    NgramRepeat > 1 /\ (StaticBatchSize \/ Len(batch_offset) = BatchSize) =>
        \A r \in Rows : class[r] = Live =>
            \A m, n \in Ngrams(alive_seq[r]) :
                SubSeq(alive_seq[r], m, m + NgramRepeat - 1)
                    = SubSeq(alive_seq[r], n, n + NgramRepeat - 1) => m = n

(* "Dead beams (score -inf) stay dead; the live beam (column 0) resets to  *)
(* zero": no other beam of an example is live when the score of the first  *)
(* is reset, if the prefix of that example ends where the longest does.    *)
OneLiveBeamAtReset ==
    PrefixLen > 0 /\ Step = PrefixLen /\ ~done =>
        \A r \in Rows : BeamOf(r) # 1 /\ Len(target_prefix[r]) = LongestPrefix
            => class[r] # Live

(* "force the output to be longer than self.min_length": an end token      *)
(* comes after that many tokens beside a prefix, the shortest prefix of    *)
(* the batch.  What follows a longer one may be shorter by the difference. *)
(* Where n-grams are blocked nothing is promised: a blocked token is worse *)
(* than an end token that is too soon.                                     *)
MinLengthIsKept ==
    NgramRepeat = 0 => \A b \in Examples : \A j \in DOMAIN hypotheses[b] :
        LET pred == hypotheses[b][j].pred
        IN  Last(pred) = EOS => Len(pred) > MinLength + ShortestPrefix

(* The top beam of an example that finished where the longest prefix of    *)
(* the batch ends, and that must wait for others: the next step resets its *)
(* score to zero, so that it is as good as a live beam.                    *)
IsRevived(b, n) ==
    /\ n = LongestPrefix
    /\ Len(Prefix[b]) < LongestPrefix
    /\ NBest > 1 \/ Ratio

(* "Mask finished beams to prevent reactivation in subsequent steps": a    *)
(* finished beam is not continued, but for one the reset at the end of the *)
(* prefix revives.  Blocked n-grams are masked by more than finished beams,*)
(* which are then continued as well.                                       *)
FinishedStayFinished ==
    NgramRepeat = 0 => \A b \in Examples : \A j \in DOMAIN hypotheses[b] :
        LET pred == hypotheses[b][j].pred
        IN  \A n \in 1 .. Len(pred) - 1 : pred[n] = EOS => IsRevived(b, n)
=============================================================================
