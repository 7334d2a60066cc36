---------------------------- MODULE MCDataPipeline ----------------------------
(* DataSharding and Batching with any options.  A behaviour is that of a   *)
(* loader that shards and mixes, or of an iterator that makes batches,     *)
(* while the other rests at its start.  SmallOptions are those of the      *)
(* iterators TLC is given.                                                 *)
EXTENDS DataSharding

CONSTANT Options      \* what iterators are built with, by name

VARIABLES
    part, options,    \* "sharding" or "batching", and the name of the options
    stream, phase, taken, current_bucket_size, bucket, bucket_idx, data,
    minibatch, seen, batches, consumed, prev_idx, bucket_predictions, output

batching == <<stream, phase, taken, current_bucket_size, bucket, bucket_idx, data,
              minibatch, seen, batches, consumed, prev_idx, bucket_predictions,
              output>>

(* The corpora: two, of several lengths, some too short for a loader.      *)
OneNode == <<2>>
News == <<"news", "web">>
Of(n, m) == [c \in ToSet(News) |-> IF c = "news" THEN n ELSE m]
Several == {Of(18, 21), Of(33, 7), Of(9, 2), Of(40, 16)}
Weights == Of(1, 2)

(* Streams of examples.                                                    *)
Words == {[text |-> "a", len |-> 1], [text |-> "b", len |-> 2],
          [text |-> "c", len |-> 2], [text |-> "d", len |-> 4]}
MoreWords == Words \cup {[text |-> "e", len |-> 1], [text |-> "f", len |-> 1]}
Blank == [text |-> "", len |-> 0]
Written == UNION {[1 .. n -> Words] : n \in {1, 4, 5}}
Trained == [1 .. 5 -> MoreWords \ {[text |-> "c", len |-> 2]}]
WithBlanks == [1 .. 3 -> (Words \ {[text |-> "d", len |-> 4]}) \cup {Blank}]

PredictTokens == [task |-> "predict", streams |-> Written, bucket_size |-> 3,
                  bucket_size_init |-> 0, bucket_size_increment |-> 1,
                  batch_size |-> 4, batch_type |-> "tokens",
                  batch_size_multiple |-> 1]
SmallOptions ==
    [predict |-> PredictTokens,
     score |-> [PredictTokens EXCEPT !.task = "score", !.batch_size = 2,
                                     !.batch_type = "sents"],
     blanks |-> [PredictTokens EXCEPT !.streams = WithBlanks, !.batch_size = 2],
     train |-> [PredictTokens EXCEPT !.task = "train", !.batch_size = 3,
                                     !.batch_type = "sents"],
     multiples |-> [PredictTokens EXCEPT !.task = "train", !.streams = Trained,
                        !.bucket_size = 5, !.bucket_size_init = 4,
                        !.bucket_size_increment = 2, !.batch_size = 5,
                        !.batch_size_multiple = 2]]

Iterator(o) == INSTANCE Batching WITH
    Task <- Options[o].task, Streams <- Options[o].streams,
    BucketSize <- Options[o].bucket_size,
    BucketSizeInit <- Options[o].bucket_size_init,
    BucketSizeIncrement <- Options[o].bucket_size_increment,
    BatchSize <- Options[o].batch_size, BatchType <- Options[o].batch_type,
    BatchSizeMultiple <- Options[o].batch_size_multiple

ASSUME OptionsAssumption ==
    \A o \in DOMAIN Options : Iterator(o)!BatchingAssumption

ShardingInit ==
    /\ part = "sharding"
    /\ options = "none"
    /\ Init
    /\ stream = <<>> /\ phase = "" /\ taken = 0 /\ current_bucket_size = 0
    /\ bucket = <<>> /\ bucket_idx = 0 /\ data = <<>> /\ minibatch = <<>>
    /\ seen = {} /\ batches = <<>> /\ consumed = <<>> /\ prev_idx = 0
    /\ bucket_predictions = <<>> /\ output = <<>>

BatchingInit(o) ==
    /\ part = "batching"
    /\ options = o
    /\ Iterator(o)!Init
    /\ Init
    /\ length = Of(18, 21)
    /\ loader = [node |-> 1, device |-> 0, worker |-> 0]

PipelineInit == ShardingInit \/ \E o \in DOMAIN Options : BatchingInit(o)

ShardingNext ==
    /\ part = "sharding"
    /\ Next
    /\ UNCHANGED <<part, options, batching>>

BatchingNext(o) ==
    /\ part = "batching" /\ options = o
    /\ Iterator(o)!Next
    /\ UNCHANGED <<part, options, vars>>

PipelineNext == ShardingNext \/ \E o \in DOMAIN Options : BatchingNext(o)

PipelineSpec == PipelineInit /\ [][PipelineNext]_<<part, options, vars, batching>>

------------------------------------------------------------------------------
(* Properties, besides LinesHaveOneReader and CorporaAreMixed.             *)

OfBatching(P(_)) == part = "batching" => \A o \in DOMAIN Options : options = o => P(o)

(* Every example is in one batch and only one, a batch holds no more than  *)
(* batch_size allows and trains no text twice (batch_iter).                *)
EveryExampleInOneBatch ==
    OfBatching(LAMBDA o : /\ Iterator(o)!TypeOK
                          /\ Iterator(o)!NothingLostOrRepeated
                          /\ Iterator(o)!BatchesFit
                          /\ Iterator(o)!NoDuplicatesInBatch)

(* Result n is the result of input n (_predict, _score).                   *)
OutputIsAligned == OfBatching(LAMBDA o : Iterator(o)!OutputIsAligned)
===============================================================================
