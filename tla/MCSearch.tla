------------------------------- MODULE MCSearch -------------------------------
(* Instances of BeamSearch and GreedySearch for TLC.  A behaviour is that  *)
(* of one search with one set of options; the variables that only the      *)
(* other search has stay empty.                                            *)
EXTENDS Integers, Sequences

VARIABLES
    search, options,    \* "beam" or "greedy", and what it was built with
    alive_seq, forbidden_tokens, src_len, target_prefix, state, hypotheses, done,
    batch_offset, class, enc_out, batch_finished, predictions,
    original_batch_idx, scored, is_finished_list, select_indices,
    sequence_finished, streamed

beam_only == <<batch_offset, class, enc_out, batch_finished, predictions>>
greedy_only == <<original_batch_idx, scored, is_finished_list, select_indices,
                 sequence_finished, streamed>>
vars == <<search, options, alive_seq, forbidden_tokens, src_len, target_prefix,
          state, hypotheses, done, beam_only, greedy_only>>

Words == {"a", "b", "eos"}

(* Prefixes and prompts begin differently, so that a text tells its example. *)
NoPrefix == <<<<>>, <<>>>>
OwnPrefix == <<<<"a">>, <<"b">>>>
UnequalPrefix == <<<<"a">>, <<"b", "a">>>>
EqualPrompts == <<<<"a">>, <<"b">>>>
RaggedPrompts == <<<<"a">>, <<"b", "a", "b", "a">>>>

Beam(o) == INSTANCE BeamSearch WITH
    BatchSize <- o.batch_size, BeamSize <- o.beam_size, NBest <- o.n_best,
    Tokens <- Words, EOS <- "eos", BOS <- "bos", ExclusionTokens <- {},
    MinLength <- o.min_length, MaxLength <- o.max_length,
    NgramRepeat <- o.block_ngram_repeat, Ratio <- o.ratio,
    StaticBatchSize <- o.static_batch_size, Prefix <- o.prefix,
    SrcLen <- [b \in 1 .. o.batch_size |-> b]

WithRatio == [batch_size |-> 2, beam_size |-> 2, n_best |-> 2, min_length |-> 1,
              max_length |-> 3, block_ngram_repeat |-> 0, ratio |-> TRUE,
              static_batch_size |-> FALSE, prefix |-> NoPrefix]
BeamOptions ==
    {WithRatio,
     [WithRatio EXCEPT !.max_length = 2, !.static_batch_size = TRUE],
     [WithRatio EXCEPT !.n_best = 1, !.min_length = 0, !.ratio = FALSE,
                       !.prefix = OwnPrefix],
     [WithRatio EXCEPT !.n_best = 1, !.min_length = 0, !.ratio = FALSE,
                       !.prefix = UnequalPrefix],
     [WithRatio EXCEPT !.min_length = 0, !.prefix = UnequalPrefix],
     [WithRatio EXCEPT !.min_length = 0, !.ratio = FALSE, !.prefix = UnequalPrefix],
     [WithRatio EXCEPT !.ratio = FALSE, !.prefix = UnequalPrefix],
     [WithRatio EXCEPT !.batch_size = 1, !.min_length = 0, !.max_length = 5,
                       !.ratio = FALSE, !.block_ngram_repeat = 2,
                       !.prefix = <<<<>>>>]}

Greedy(o) == INSTANCE GreedySearch WITH
    BatchSize <- o.batch_size, BeamSize <- o.beam_size,
    Tokens <- Words, EOS <- {"eos"}, BOS <- "bos",
    MinLength <- o.min_length, MaxLength <- o.max_length,
    NgramRepeat <- o.block_ngram_repeat, StaticBatchSize <- o.static_batch_size,
    LeftPad <- o.left_pad, Prompt <- o.prompt

LeftPadded == [batch_size |-> 2, beam_size |-> 2, min_length |-> 1,
               max_length |-> 3, block_ngram_repeat |-> 0,
               static_batch_size |-> FALSE, left_pad |-> TRUE,
               prompt |-> RaggedPrompts]
GreedyOptions ==
    {LeftPadded,
     [LeftPadded EXCEPT !.static_batch_size = TRUE, !.prompt = EqualPrompts],
     [LeftPadded EXCEPT !.beam_size = 1, !.min_length = 0, !.max_length = 5,
                        !.left_pad = FALSE],
     [LeftPadded EXCEPT !.batch_size = 1, !.beam_size = 1, !.min_length = 0,
                        !.max_length = 6, !.block_ngram_repeat = 2, !.left_pad = FALSE,
                        !.prompt = <<<<"a">>>>]}

ASSUME SearchAssumption ==
    /\ \A o \in BeamOptions : Beam(o)!BeamSearchAssumption
    /\ \A o \in GreedyOptions : Greedy(o)!GreedySearchAssumption

BeamInit(o) ==
    /\ search = "beam"
    /\ options = o
    /\ Beam(o)!Init
    /\ original_batch_idx = <<>> /\ scored = <<>> /\ is_finished_list = <<>>
    /\ select_indices = <<>> /\ sequence_finished = <<>> /\ streamed = <<>>

GreedyInit(o) ==
    /\ search = "greedy"
    /\ options = o
    /\ Greedy(o)!Init
    /\ batch_offset = <<>> /\ class = <<>> /\ enc_out = <<>>
    /\ batch_finished = <<>> /\ predictions = <<>>

Init ==
    \/ \E o \in BeamOptions : BeamInit(o)
    \/ \E o \in GreedyOptions : GreedyInit(o)

BeamNext(o) ==
    /\ search = "beam" /\ options = o
    /\ Beam(o)!Next \/ Beam(o)!Finish
    /\ UNCHANGED <<search, options, greedy_only>>

GreedyNext(o) ==
    /\ search = "greedy" /\ options = o
    /\ Greedy(o)!Next \/ Greedy(o)!Returned
    /\ UNCHANGED <<search, options, beam_only>>

Next ==
    \/ \E o \in BeamOptions : BeamNext(o)
    \/ \E o \in GreedyOptions : GreedyNext(o)

Spec == Init /\ [][Next]_vars

------------------------------------------------------------------------------
(* Properties: those of the two modules, of the search that is run.        *)

OfBeam(P(_)) == search = "beam" => \A o \in BeamOptions : options = o => P(o)
OfGreedy(P(_)) == search = "greedy" => \A o \in GreedyOptions : options = o => P(o)

(* Whatever is picked, finishes and leaves the batch, everything kept for  *)
(* a row, and the decoder's cache, stays with the example of that row, and *)
(* is of its type (remove_finished_batches, update_finished).              *)
RowsStayAligned ==
    /\ OfBeam(LAMBDA o : Beam(o)!TypeOK /\ Beam(o)!RowsStayAligned)
    /\ OfGreedy(LAMBDA o : Greedy(o)!TypeOK /\ Greedy(o)!RowsStayAligned)

(* Every example is answered, once for each hypothesis that was asked for, *)
(* by texts that ended once; score and stream are those of the text        *)
(* (beams_non_finished, update_finished, streamer.put).                    *)
AnswersAreWhole ==
    /\ OfBeam(LAMBDA o : /\ Beam(o)!EveryExampleAnswered
                         /\ Beam(o)!FinishedStayFinished)
    /\ OfGreedy(LAMBDA o : /\ Greedy(o)!EveryRowAnsweredOnce
                           /\ Greedy(o)!ScoreIsOfPrediction
                           /\ Greedy(o)!StreamIsOnePrediction)

(* A text keeps to what was asked of its own example: it begins with the   *)
(* prefix or prompt and is not too short; beams of an example also repeat  *)
(* no blocked n-gram.  Greedy search takes block_ngram_repeat and blocks   *)
(* none, so that nothing is said of it here (target_prefixing,             *)
(* ensure_min_length, block_ngram_repeats).                                *)
ConstraintsAreKept ==
    /\ OfBeam(LAMBDA o : /\ Beam(o)!PrefixIsFollowed
                         /\ Beam(o)!OneLiveBeamAtReset
                         /\ Beam(o)!NoNgramTwice
                         /\ Beam(o)!MinLengthIsKept)
    /\ OfGreedy(LAMBDA o : /\ Greedy(o)!TextContinuesPrompt
                           /\ Greedy(o)!MinLengthIsKept)
===============================================================================
