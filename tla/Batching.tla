------------------------------- MODULE Batching -------------------------------
(***************************************************************************)
(* From a stream of examples to batches and back: DynamicDatasetIter fills *)
(* buckets, sorts each by length and cuts it into batches; training takes  *)
(* the batches of a bucket in any order, _predict and _score put the       *)
(* results back in the order of the stream.                                *)
(***************************************************************************)
EXTENDS Integers, FiniteSets, Functions, Filtering

CONSTANTS
    Task,                \* train, predict or score
    Streams,             \* streams of examples: records [text, len]
    BucketSize, BucketSizeInit, BucketSizeIncrement,
    BatchSize,
    BatchType,           \* sents or tokens
    BatchSizeMultiple

(* What the options are checked for.                                       *)
BatchingAssumption ==
    /\ Task \in {"train", "predict", "score"}
    /\ \A s \in Streams : /\ s \in Seq(Range(s))
                         /\ \A n \in DOMAIN s : s[n].len \in Nat
    /\ {BucketSize, BatchSize, BatchSizeMultiple} \subseteq Nat \ {0}
    /\ BucketSizeInit \in Int
    /\ BucketSizeIncrement \in Nat
    /\ BatchType \in {"sents", "tokens"}
    /\ Task # "train" => BucketSizeInit <= 0 /\ BatchSizeMultiple = 1

VARIABLES
    stream,               \* what the mixer yields, here a finite sequence
    phase,                \* what the iterator does
    taken,                \* examples taken from the stream
    current_bucket_size,
    bucket,               \* the examples (their places in the stream) collected
    bucket_idx,
    data,                 \* sorted bucket, still to be cut: [example, index]
    minibatch, seen,      \* of batch_iter
    batches,              \* the batches of the bucket not yet consumed
    consumed,             \* the batches consumed, in order
    prev_idx,             \* of the consumer
    bucket_predictions,   \* results waiting for their bucket to end
    output                \* the results in order

source == <<stream, taken, current_bucket_size, bucket, bucket_idx>>
cutting == <<data, minibatch, seen>>
results == <<prev_idx, bucket_predictions, output>>
vars == <<phase, source, cutting, batches, consumed, results>>

Item == [example : DOMAIN stream, index : Nat]

TypeOK ==
    /\ stream \in Streams
    /\ phase \in {"bucketing", "batching", "consuming", "done", "failed"}
    /\ taken \in 0 .. Len(stream)
    /\ current_bucket_size \in Nat \ {0}
    /\ current_bucket_size <= BucketSize \/ current_bucket_size <= BucketSizeInit
    /\ bucket \in Seq(DOMAIN stream) /\ Len(bucket) < current_bucket_size
    /\ bucket_idx \in Nat
    /\ data \in Seq(Item) /\ minibatch \in Seq(Item)
    /\ seen \subseteq {stream[n].text : n \in DOMAIN stream}
    /\ batches \in Seq(Seq(Item)) /\ consumed \in Seq(Seq(Item))
    /\ prev_idx \in Nat
    /\ bucket_predictions \in Seq(Item)
    /\ output \in Seq(DOMAIN stream)

Init ==
    /\ stream \in Streams
    /\ phase = "bucketing"
    /\ taken = 0
    /\ current_bucket_size = IF BucketSizeInit > 0 THEN BucketSizeInit ELSE BucketSize
    /\ bucket = <<>>
    /\ bucket_idx = 0
    /\ data = <<>>
    /\ minibatch = <<>>
    /\ seen = {}
    /\ batches = <<>>
    /\ consumed = <<>>
    /\ prev_idx = 0
    /\ bucket_predictions = <<>>
    /\ output = <<>>

------------------------------------------------------------------------------
(* Buckets.                                                                *)

Text(item) == stream[item.example].text
Length(item) == stream[item.example].len

SortByLength(items) == SortedBy(items, [k \in DOMAIN items |-> Length(items[k])])

(* transform_bucket drops an example without tokens, and returns None for  *)
(* a bucket of which nothing is left.                                      *)
WithTokens(examples) == Kept(examples, {n \in DOMAIN stream : stream[n].len > 0})

Numericalize(examples) ==
    LET kept == WithTokens(examples)
    IN  /\ phase' = IF kept = <<>> THEN "failed" ELSE "batching"
        /\ data' = SortByLength([k \in DOMAIN kept |->
                                    [example |-> kept[k], index |-> k - 1]])

Collect ==
    /\ phase = "bucketing"
    /\ taken + 1 < Len(stream)
    /\ Len(bucket) + 1 < current_bucket_size
    /\ taken' = taken + 1
    /\ bucket' = Append(bucket, taken + 1)
    /\ UNCHANGED <<stream, phase, current_bucket_size, bucket_idx, cutting,
                   batches, consumed, results>>

Smaller(m, n) == IF m < n THEN m ELSE n

Grow(size) == IF size < BucketSize
              THEN Smaller(size + BucketSizeIncrement, BucketSize) ELSE size

(* The bucket is full or the stream has ended.                             *)
FillBucket ==
    /\ phase = "bucketing"
    /\ taken < Len(stream)
    /\ Len(bucket) + 1 = current_bucket_size \/ taken + 1 = Len(stream)
    /\ taken' = taken + 1
    /\ Numericalize(Append(bucket, taken + 1))
    /\ bucket' = <<>>
    /\ current_bucket_size' = IF Len(bucket) + 1 = current_bucket_size
                              THEN Grow(current_bucket_size) ELSE current_bucket_size
    /\ UNCHANGED <<stream, bucket_idx, minibatch, seen, batches, consumed, results>>

------------------------------------------------------------------------------
(* batch_iter.                                                             *)

Cost(batch) ==
    IF BatchType = "sents" THEN Len(batch)
    ELSE Len(batch) * (CHOOSE n \in {Length(batch[k]) : k \in DOMAIN batch} :
                           \A k \in DOMAIN batch : Length(batch[k]) <= n)

Overflow(batch) ==
    LET over == IF Cost(batch) > BatchSize THEN 1 ELSE 0
    IN  IF BatchSizeMultiple = 1 THEN over
        ELSE over + ((Len(batch) - over) % BatchSizeMultiple)

Duplicate(item) == Task = "train" /\ Text(item) \in seen

Taking(item) ==
    /\ phase = "batching"
    /\ data # <<>>
    /\ item = Head(data)
    /\ data' = Tail(data)
    /\ UNCHANGED <<source, phase, consumed, results>>

SkipDuplicate(item) ==
    /\ Taking(item)
    /\ Duplicate(item)
    /\ UNCHANGED <<minibatch, seen, batches>>

See(item) == seen' = IF Task = "train" THEN seen \cup {Text(item)} ELSE seen

(* The batch is not full, or it must be filled to the multiple.            *)
AddToBatch(item) ==
    LET batch == Append(minibatch, item)
    IN  /\ Taking(item)
        /\ ~Duplicate(item)
        /\ Cost(batch) < BatchSize \/ Overflow(batch) = Len(batch)
        /\ minibatch' = batch
        /\ See(item)
        /\ UNCHANGED batches

CompleteBatch(item) ==
    LET batch == Append(minibatch, item)
    IN  /\ Taking(item)
        /\ ~Duplicate(item)
        /\ Cost(batch) >= BatchSize
        /\ Overflow(batch) = 0
        /\ batches' = Append(batches, batch)
        /\ minibatch' = <<>>
        /\ seen' = {}

KeepOneMore(item) ==
    LET batch == Append(minibatch, item)
        over == Overflow(batch)
    IN  /\ Taking(item)
        /\ ~Duplicate(item)
        /\ Cost(batch) >= BatchSize
        /\ over \in 1 .. (Len(batch) - 1)
        /\ batches' = Append(batches, SubSeq(batch, 1, Len(batch) - over))
        /\ minibatch' = SubSeq(batch, Len(batch) - over, Len(batch))
        /\ seen' = {}

(* The last examples of the batch start the next one; seen forgets them.   *)
OverflowBatch(item) ==
    LET batch == Append(minibatch, item)
        over == Overflow(batch)
    IN  /\ Taking(item)
        /\ ~Duplicate(item)
        /\ Cost(batch) >= BatchSize
        /\ over \in 1 .. (Len(batch) - 1)
        /\ batches' = Append(batches, SubSeq(batch, 1, Len(batch) - over))
        /\ minibatch' = SubSeq(batch, Len(batch) - over + 1, Len(batch))
        /\ seen' = {}

LastBatch ==
    /\ phase = "batching"
    /\ data = <<>>
    /\ phase' = "consuming"
    /\ batches' = IF minibatch = <<>> THEN batches ELSE Append(batches, minibatch)
    /\ minibatch' = <<>>
    /\ seen' = {}
    /\ UNCHANGED <<source, data, consumed, results>>

------------------------------------------------------------------------------
(* The consumers.                                                          *)

Examples(items) == [k \in DOMAIN items |-> items[k].example]

InArrivalOrder(items) == Examples(items)

InOrder(items) ==
    Examples(SortedBy(items, [k \in DOMAIN items |-> items[k].index]))

Train(batch) == UNCHANGED results

(* _predict flushes when a bucket ends, which it sees by the number of the *)
(* bucket or by the number of results.                                     *)
Predict(batch) ==
    LET all == bucket_predictions \o batch
        idx == IF Len(all) >= BucketSize THEN bucket_idx + 1 ELSE bucket_idx
        ends == idx # prev_idx
    IN  /\ prev_idx' = IF ends THEN idx ELSE prev_idx
        /\ output' = IF ends THEN output \o InOrder(all) ELSE output
        /\ bucket_predictions' = IF ends THEN <<>> ELSE all

(* _score flushes before it adds the first batch of the next bucket.       *)
Score(batch) ==
    LET ends == bucket_idx # prev_idx
    IN  /\ prev_idx' = IF ends THEN prev_idx + 1 ELSE prev_idx
        /\ output' = IF ends THEN output \o InOrder(bucket_predictions) ELSE output
        /\ bucket_predictions' = IF ends THEN batch ELSE bucket_predictions \o batch

Without(s, k) == SubSeq(s, 1, k - 1) \o SubSeq(s, k + 1, Len(s))

(* Training shuffles the batches of a bucket.                              *)
Consume(k) ==
    /\ phase = "consuming"
    /\ k \in DOMAIN batches
    /\ Task # "train" => k = 1
    /\ batches' = Without(batches, k)
    /\ consumed' = Append(consumed, batches[k])
    /\ CASE Task = "train" -> Train(batches[k])
         [] Task = "predict" -> Predict(batches[k])
         [] Task = "score" -> Score(batches[k])
    /\ UNCHANGED <<source, phase, cutting>>

NextBucket ==
    /\ phase = "consuming"
    /\ batches = <<>>
    /\ taken < Len(stream)
    /\ bucket_idx' = bucket_idx + 1
    /\ phase' = "bucketing"
    /\ UNCHANGED <<stream, taken, current_bucket_size, bucket, cutting, batches,
                   consumed, results>>

Finish ==
    /\ phase = "consuming"
    /\ batches = <<>>
    /\ taken = Len(stream)
    /\ phase' = "done"
    /\ output' = output \o InOrder(bucket_predictions)
    /\ bucket_predictions' = <<>>
    /\ UNCHANGED <<source, cutting, batches, consumed, prev_idx>>

Next ==
    \/ Collect \/ FillBucket
    \/ \E item \in Range(data) : \/ SkipDuplicate(item) \/ AddToBatch(item)
                                 \/ CompleteBatch(item) \/ OverflowBatch(item)
    \/ LastBatch
    \/ \E k \in DOMAIN batches : Consume(k)
    \/ NextBucket \/ Finish

Spec == Init /\ [][Next]_vars

------------------------------------------------------------------------------
(* Properties.                                                             *)

InFlight == consumed \o batches \o <<minibatch, data>>

Occurrences(n) ==
    {p \in UNION {{k} \X DOMAIN InFlight[k] : k \in DOMAIN InFlight} :
        InFlight[p[1]][p[2]].example = n}

(* An example that was taken is in one batch and only one, whatever was    *)
(* put off to the next batch and in whatever order batches are consumed;   *)
(* training leaves one out only if an example of the same text is in.      *)
NothingLostOrRepeated ==
    phase # "failed" =>
        \A n \in 1 .. (taken - Len(bucket)) :
            /\ Cardinality(Occurrences(n)) <= 1
            /\ Occurrences(n) = {} =>
                    \/ stream[n].len = 0
                    \/ Task = "train" /\ \E m \in (1 .. taken) \ {n} :
                            stream[m].text = stream[n].text /\ Occurrences(m) # {}

(* A batch holds no more than it may, unless it has no more examples than  *)
(* the multiple; and it is a multiple unless it is the last of its bucket. *)
BatchesFit ==
    \A k \in DOMAIN (consumed \o batches) :
        LET batch == (consumed \o batches)[k]
        IN  Cost(batch) > BatchSize => Len(batch) <= BatchSizeMultiple

(* Output n is the result of input n, through sorting, batching, overflow  *)
(* and buckets, and in the end there is one for every input; if no input   *)
(* is without tokens.                                                      *)
OutputIsAligned ==
    Task # "train" /\ (\A n \in DOMAIN stream : stream[n].len > 0) =>
    /\ \A n \in DOMAIN output : output[n] = n
    /\ phase = "done" => Len(output) = Len(stream)
    /\ phase # "failed"

(* "Skip duplicates during training": no batch trains a text twice, when   *)
(* no example can overflow into the next batch.                            *)
NoDuplicatesInBatch ==
    Task = "train" /\ BatchType = "sents" /\ BatchSizeMultiple = 1 =>
        \A k \in DOMAIN (consumed \o batches) :
            LET batch == (consumed \o batches)[k]
            IN  \A i, j \in DOMAIN batch : Text(batch[i]) = Text(batch[j]) => i = j
=============================================================================
