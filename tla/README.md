# A TLA+ verification project for eole

Eole trains, serves and decodes neural language and translation models on
PyTorch. This directory holds TLA+ modules for the parts of it in which order,
failure and shared state matter, the TLC configurations that check them on
small instances, and machine-checked proofs of the results that should hold for
every instance. Paths below are relative to the repository.

## 1. Inventory

| Component | State | Operations | Talks to |
| --- | --- | --- | --- |
| Inference server, `eole/bin/run/serve.py` | `Server.models`; per `Model`: `loaded`, `engine`, `request_queue`, `processing_task`; a future per request | endpoint handlers, `maybe_load_model`, `load`, `unload`, `infer_async`, `ensure_batch_processor`, `batch_processor`, `_process_batch`, streaming producers, `/unload_model` | engines, through a one-thread pool; clients |
| Engine, `eole/inference_engine.py` | `predictor`, `_thread_pool`; with several processes: instruction, settings and result queues | `infer_list`, `infer_list_stream`, `_predict`, `_distribute_parallel_task`, `terminate` | predictor, workers |
| Generation, `eole/predict/generator.py`, `greedy_search.py`, `decode_strategy.py` | `alive_seq`, `is_finished_list`, the KV caches, the recurrent (GatedDeltaNet) states, the MTP head's cache | prefill, one-token step, draft, verify, commit, finish, clean-up after an exception | decoder, MTP heads, streamer |
| Streaming, `eole/predict/streamer.py` | a queue and a `_STOP` mark | `put`, `end`, `__iter__` with a timeout | generation thread, endpoint |
| Beam search, `eole/predict/beam_search.py` | beams, scores, finished hypotheses, n-gram tables | `advance`, `update_finished`, `remove_finished_batches` | generation |
| Parallel workers, `eole/utils/distributed_workers.py` | one process per device | `infer_list`, `infer_file`, `score_*`, `stop`, error reporting | engine, by queues and SIGUSR1 |
| Trainer, `eole/trainer.py` | `optim.training_step`, accumulated gradients, scheduled parameters, moving average | `train`, `_train_step`, `validate`, early stop, save | other ranks, by collectives |
| Checkpoints, `eole/models/model_saver.py` | step directories, symlinks, `checkpoint_queue`, `last_saved_step` | `save`, `cleanup`, `load_checkpoint` | file system, other ranks |
| Early stopping, `eole/utils/earlystopping.py` | two tolerances, a status, best scores | `__call__` | trainer |
| Data pipeline, `eole/inputters/dynamic_iterator.py` | one iterator per corpus, a bucket, a batch in the making | mixing, sharding, bucketing, `batch_iter` | trainer, workers |
| Prefix cache and decoder state, `eole/modules/prefill_cache.py`, `eole/decoders/transformer.py`, `eole/modules/gated_delta_net.py` | an LRU map behind a lock; keys, values, masks and linear states per row | `get`, `put`, chunked prefill, `map_state`, `_extend_cache`, `commit_speculation` | generation |
| Scheduled parameters, `eole/trainer.py` | `current_value` per parameter, the count of batches per step | `update`, `_accum_batches` | trainer, generator of batches |
| Collectives, `eole/utils/distributed.py` | reused gather buffers, the reduction buffer | `all_gather_list`, `all_reduce_and_rescale_tensors` | ranks |
| Models, kernels, transforms, converters, configuration | tensors, options | numerical or stateless code | - |

What is hard, and what would make each component correct:

* **Server.** Three kinds of thread share a `Model`: the event loop, the pool
  thread of each engine, and a worker thread per `/unload_model`. Models take
  turns on the device: a handler evicts every model but its own, whatever these
  are doing. Correct means: an answer comes from the model that was asked and
  ran with the parameters that were asked, nobody is forgotten or answered
  twice, one model is loaded, and predictions on an engine are serialised.
* **Generation.** Self-speculative decoding keeps four accounts of the same text
  (sequence, attention cache, recurrent state, MTP cache) which move by
  different amounts in every cycle. Correct means that the output, and what is
  streamed, is that of greedy decoding, that nothing is written past a cache, and
  that a request ends.
* **Streaming.** The 120 s timeout also runs while the prediction waits for the
  pool. Correct means that a stream that ends is complete or reports an error.
* **Parallel inference.** Results in the order of the inputs, settings that
  reach the workers, a dead worker that does not hang the parent.
* **Training.** All ranks make the same sequence of collectives; each multiple
  of `valid_steps` is validated once; a resumed run follows the same schedule.
* **Checkpoints.** What the symlinks name after a crash is one complete step;
  no more than `keep_checkpoint` directories accumulate.
* **Beam search.** Every table kept per beam is reindexed when batches leave.
* **Data.** Shards are disjoint and complete; every example is in exactly one
  batch.

`PROJECT.json` lists each hazard with its line and the properties that cover it.

## 2. Plan

| | Modules | State |
| --- | --- | --- |
| 1 | `ModelServer`, `MCModelServer`: the server | done, 3.1 |
| 2 | `GreedyDecoding`, `SpeculativeDecoding`, `SpeculativeDecoding_proofs`: generation and its refinement | done, 3.2 |
| 3 | `Streaming`, `Streaming_proofs`: streamer, job and caller with the timeout | done, 3.3 |
| 4 | `Checkpointing`: one action per file operation of `_save`, crash and restart | done, 3.4 |
| 5 | `Training`, which composes `EarlyStopping` with ranks, collectives, validation and saves; `Schedules` | done, 3.5 |
| 6 | `ParallelInference`: parent, workers, queues, error listener, shutdown | done, 3.6 |
| 7 | `BeamSearch`, `GreedySearch`: what is kept per row while rows leave | done, 3.7 |
| 8 | `DataSharding`, `Batching`; `DataPipeline_proofs` | done, 3.8 |
| 9 | `DecoderCache`: masks, caches, linear states, the prefix cache | done, 3.9 |
| 10 | `ListGathering`, `GradientReduction` | done, 3.10 |
| 11 | `Filtering`, `Filtering_proofs`, `ModelServer_proofs`: every safety property of the server | done, 5 |
| 12 | `Checkpointing_proofs`, `ParallelInference_proofs`, the mixer in `DataPipeline_proofs` | done, 5 |
| 13 | `Training_proofs`: early stopping, schedules, the ranks of a training, checkpoints, collectives | done, 5 |
| 14 | batches and the order of results in `DataPipeline_proofs` | done, 5 |

The abstract specification is `GreedyDecoding`, which speculation implements.
The other modules state their promise as properties over what happened: the
answers, the files on the disk, the batches that were taken.

## 3. What is modelled

### 3.1 The server: `ModelServer`

| TLA+ | Code |
| --- | --- |
| `Init` | `Server.start`, which loads the models configured with `preload` |
| `Evict` | a handler up to `maybe_load_model`, which unloads every model but the one asked for |
| `EvictUnknown` | `/infer` with an id that no model has: all models are unloaded, then the lookup raises `KeyError` |
| `EvictClash`, `CountClash`, `Clash` | the same handlers when the second `del self.engine` fails, because an unload thread sits between its own `del` and assignment |
| `LoadEngine`, `SetLoaded`, `LoadFails`, `AcceptLoaded`, `Accept` | `infer_async`: `load`, `ensure_batch_processor`, `request_queue.put`; or the start of a streaming response |
| `CountTokens`, `DescribeModel` | the endpoints that evict the other models without predicting: the first goes on to load its model, the second does not |
| `Produce` | `_produce` of the streaming endpoints, in the default executor |
| `TakeFirst`, `TakeMore`, `CloseBatch` | `batch_processor` |
| `SameGroup`, `Group`, `Rest`, `SubmitNext`, `Answered` | `_process_batch` |
| `StartJob`, `RunJob`, `NextBatch`, `Finish`, `FailJob` | the pool thread, `_predict`, `update_settings`, a running prediction that reads the shared predictor again, the `except` branch |
| `UnloadCancel` ... `UnloadFlag` | `Model.unload` in the thread of `/unload_model`, statement by statement |

Sequences are filtered by `Filtering!Kept`, which is `SelectSeq` with a set in
place of the test, so that proofs can speak of it; `Group`, `Rest` and the
withdrawal of jobs in `CancelTasks` use it.

What the event loop does between two real suspensions is one action. `load` is
synchronous there, but it is split in two because an unload thread can run
between its last assignments: while a handler is inside it, `loop` says so and
no other action of the event loop is enabled. An eviction on the loop, on the
other hand, is one action, and a thread may precede or follow it but not split
it; the one consequence of a split that is kept is `EvictClash`.

A request names one model and either leaves a decoding parameter `Unset` or
gives it a value; the predictor holds the value last written, by whichever job,
and a prediction that is running finds it there (`NextBatch`). `orphaned` has the
requests that were in a batch whose processor was cancelled. Prompts,
outputs, templates and token counts are left out, and so are clients that
disconnect. `batch_timeout` may expire at any moment after the first request.
`Task.cancel`, called from a foreign thread by `/unload_model`, is taken to act
at once. An engine identity is used once, so `Engines` bounds the number of
loads; a load that finds none left can still fail.

### 3.2 Generation: `GreedyDecoding` and `SpeculativeDecoding`

`GreedyDecoding` is the promise: a text grows by tokens that are each the
argmax of the model given the text before them, until the first end-of-sequence
token or `max_length`, and the stream is what was generated.

`SpeculativeDecoding` is `_predict_batch_with_strategy_impl` with
`_speculative_draft_verify`:

| TLA+ | Code |
| --- | --- |
| `Prefill` | `_init_cache`, the pass over the prompt, `advance`, `init_mtp_cache` |
| `DecodeOne` | one iteration of the normal loop, and the single-token case at the end of a speculative request |
| `Draft` | `draft_mtp_tokens` |
| `Verify` | `_extend_cache`, `begin_speculation`, the pass over seed and drafts |
| `Commit`, with `Accepted`, `Kept`, `Keep`, `CommittedMtp` | the acceptance decision, `commit_mtp_draft`, `commit_speculation_group`, the rewinding of `cache_seqlens`, `advance_speculative`, `set_mtp_context` |
| `Fail` | the clean-up in `_predict_batch_with_strategy` |

The tensors are replaced by the text they depend on: `kv` holds in every cell
the token that wrote it, `rec` is the text the recurrent state summarises, and
`Predict` gives `Argmax` of the text when the visible cells and `rec` agree, and
*any* token when they do not. A wrong rewind or commit therefore shows as an
arbitrary token, as it would in the program. The drafts are arbitrary, so
nothing is assumed of the heads. `mtp` keeps the positions of the MTP head's
cache; its contents do not matter, since drafts are only proposals.

`useSpec` is chosen freely per request where the code evaluates a conjunction of
options. Decoding without speculation is modelled for greedy selection only.
Left padding, images, beams, constraints and batches of several sequences are
outside: speculation is refused for them.

### 3.3 Streaming: `Streaming`

| TLA+ | Code |
| --- | --- |
| `Submit`, `StartJob` | `infer_list_stream` up to `submit`; the pool's only thread takes the next job |
| `Put`, `End`, `Return`, `Fail` | `GenerationStreamer.put` and `end`, called by the generation; the end and the `except` branch of `_run_inference` |
| `Read`, `ReadStop`, `TimeOut`, `DecodeRaises`, `Chunk` | `__iter__` and `_decode_token` |
| `Join` | `future.result()` and the exception holder |

A text is a sequence of characters and `Decode`, a constant, is what the
tokenizer makes of a list of ids; nothing is assumed of it. A tokenizer of bytes
may change the end of a text it has shown (`Grows` tells the lists for which it
does not), and the streamer yields only what is beyond the length it has yielded:
each place of the text once, as it was when first there (`IsFirstShown`), and as
many as the text ever had (`IsLongest`). Generation is any sequence of tokens, since
what it generates is the business of 3.2, and it may fail at any time, also
between the mark and the end of the job. The timeout may expire whenever the
queue is empty, before the job has started too. `ModelServer` uses the result:
there a stream is one job that is answered or fails as a whole.

### 3.4 Checkpoints: `Checkpointing`

| TLA+ | Code |
| --- | --- |
| `StartFresh`, `Resume`, `ResumeFails`, with `Loadable`, `ResumedStep` | `TrainingInitializer.initialize`, `get_metadata`, `Optimizer.from_config`, `_process_checkpoint`, `load_state_dict` |
| `Train`, `TrainAndSave`, `SaveDue` | a step of `Trainer.train`, and one that is followed by `save` |
| `Open`, `Write`, `Unlink`, `Link`, once for each of `Items` | `_save_optimizer`, `_save_weights`, ..., and `_make_symlink` after each |
| `Pop`, `NoPop`, `RemoveFile`, `RemoveDir`, `Enqueue` | `cleanup`, and the end of `save` |
| `Crash` | the process is killed, between any two of these |

A file holds the number of the save that wrote it; a torn file was opened and
not written. A run starts from nothing, from `model_path`, whose names are
links, or from a step directory, with any `reset_optim`.

### 3.5 Training: `Training`, `EarlyStopping`, `Schedules`

`Training` has a program counter per rank, and one action per stretch of
`Trainer.train` between two collectives:

| TLA+ | Code |
| --- | --- |
| `Fetch`, `NothingToTrainOn`, `Leave` | `_accum_batches` over the mixer, which raises for a corpus without a line in the shard of the rank; the `break`s of the loop |
| `BatchFits`, `BatchTooLarge`, `BatchRaises` | `process_batch`, with and without an out-of-memory error |
| `Collective(kind)`, `Meet` | a collective completes when every rank has entered one of its kind |
| `AnyOom`, `Continue` | `_process_accumulated_batches`: all ranks skip the update if one ran out of memory |
| `Validate`, `Judge`, `JudgeNothing` | validation, `_should_stop_early`, on rank 0 only |
| `Checkpoint`, `Save`, `Write`, `WriteRaises`, `Back`, `More` | the conditions of `train`, `TrainingModelSaver.save` with its barrier, `_save` raising, the next step |
| `Raise`, `ParentRaises`, `Interrupted`, `TimesOut` | `spawned_train`, `ErrorHandler`, the timeout of the process group |

`EarlyStopping` is the object as a state machine: `Called` is `__call__`, with
`UpdateIncreasing`, `UpdateDecreasing` and `UpdateStalled`. A score may be NaN,
which compares false with everything. `Training` instantiates it for rank 0.
`Supplies` says how many groups of batches each rank may get before its iterator
raises, and ranks may differ. The mixer of a training corpus never ends by
itself: it starts an exhausted corpus again, and if that has no line in the shard
of the rank, `StopIteration` leaves the generator as a `RuntimeError`.
All barriers are of one kind, so that of `cleanup_distributed`, which a rank
enters after an exception, also completes the barrier of a save.

`Schedules` has the two threads of control that read a scheduled value: the
generator that collects a group (`Collect`, `CollectLast`, `EndOfData`) and the
loop that processes it and then updates (`Process`, `Update`). A step may be
skipped for lack of memory and a run resumed (`Restart`). `Asked` is the value
that a run owes its schedule: that of the last threshold it has passed since its
start, and the first value when it has passed none. A threshold of 0 is passed
by nothing, since `update` compares with `step - 1` and the first step is 1.

`MCTraining` has the options of the process groups, of the early stopping object
and of the schedules as constants, so that the proofs are about any.

### 3.6 Several inference processes: `ParallelInference`

| TLA+ | Code |
| --- | --- |
| `StartCall`, `Distribute`, `Collect`, `Aggregate` | `infer_list_parallel`, `_distribute_parallel_task`, `_collect_parallel_results`, `_aggregate_inference_results` |
| `Terminate`, `Join` | `terminate` |
| `Start`, `Take`, `Answer`, `End` | `spawned_infer`, the handlers of `InferenceWorker`, `cleanup_distributed` |
| `Mine`, `ReadsShard`, `Inputs` | what a worker reads of the inputs: `ParallelCorpus.load` under `data_parallel` |
| `Fail`, `Listen`, `HandleSignal` | the `except` branch, `error_listener`, `signal_handler` |

A queue is a sequence: the pipe and the feeder thread under a multiprocessing
queue are left out. Calls are made from the parent's main thread, which is where
Python runs the signal handler. `MCParallelInference` is the module of engines
with any options: what `Options` maps to a name is the value of every constant,
and the run gives it `SmallOptions`.

### 3.7 Search: `BeamSearch`, `GreedySearch`

Both follow what is kept per row: tokens, prefix, source length, blocked
n-grams, the decoder's state (the tokens it was fed). `Advance` is `advance` with
all its masks, then `UpdateDynamic` or `UpdateInPlace`, and `Leave` or `Stay`,
are `update_finished` and what the generator's loop does after it:
`RemoveFinished` is `remove_finished_batches` or `align_select_indices`,
`KeepRows` is `map_state`. `Finish` and `End` leave the loop.

Numbers are abstracted to classes: of several candidates in one class any may be
picked, and one in a lower class wins. Masked is the highest class. So every
outcome of the scores is covered, and what is masked stays masked. Left out:
coverage penalties, the growing `src_len` of `BeamSearchLM`, and whether a search
ends, since a model may never favour the end token below `max_length`.

### 3.8 Data: `DataSharding`, `Batching`

`DataSharding`: `Stride`, `Offset`, `Mine` and `Shard` are
`_calculate_parallel_params`, `_init_datasets` and `ParallelCorpus.load`; `Draw`,
`Reopen`, `ReopenEmpty` and `Raised` are `WeightedMixer.__iter__` with its
`except` and `finally`. It follows one of the loaders, any of them.

`Batching`: `Collect` and `FillBucket` are `_bucketing`; `SkipDuplicate`,
`AddToBatch`, `CompleteBatch`, `OverflowBatch` and `LastBatch` are the cases of
one turn of `batch_iter`; `Consume` is training, which takes the batches of a
bucket in any order, `_predict` (`Predict`) or `_score` (`Score`); `NextBucket`
and `Finish` end a bucket and the stream. Every `sort` of the code is `SortedBy` of
`Filtering`, which is stable. An iterator that does not train has no growing
bucket and no `batch_size_multiple`, as `from_config` builds it
(`BatchingAssumption`). A stream is finite and an example is a
text and a length. Audio, transforms and the queues of the loader processes
are left out.

### 3.9 Decoder state: `DecoderCache`

| TLA+ | Code |
| --- | --- |
| `Begin`, `InitCache` | `_init_cache` and the left padding |
| `PrefillUncached`, `PrefillHit`, `PrefillMiss`, `AfterChunk` | `forward`, `_forward_chunked_prefill`, `tile_to_beam_size_after_initial_step` |
| `Forward`, `Attended`, `Masked`, `ConvHistory`, `Windows` | `_forward_eager` with `SelfMHA` and `GatedDeltaNet` |
| `RollingKey`, `Entry`, `Put`, `Touched`, `Restored` | `PrefillCache` |
| `DecodeOne`, `Verify`, `Commit`, `Finish` | the loop of the generator, `_speculative_draft_verify`, `commit_speculation` |

A number is what it was computed from: a cell of the cache is a token and the
pairs of position and token its query attended, a linear state is the sequence of
windows that were fed to it. Two computations agree exactly when these do. Keys
of the prefix cache are collision-free. Left out: cross-attention, image masks,
hybrid layers with a sliding window, compiled graphs, and more drafts than a
chunk of the prompt.

### 3.10 Collectives: `ListGathering`, `GradientReduction`

`ListGathering` is `all_gather_list`: `Send` writes header and object into the
kept buffer, `AllGather` is the collective, `Receive` cuts out the objects,
`Refuse` raises for one that is too long; ranks return, and call again, at their
own time. A byte of an object is told by its rank, its call and its place.

`GradientReduction` is `all_reduce_and_rescale_tensors`: `Direct` reduces a large
tensor by itself, `Pack` copies one into the buffer, `Full` and `Flush` send the
buffer, `AllReduce` adds up what the ranks have posted, place by place. A gradient
is what was added up in it; all elements have one size. The gradients of a rank
are the parameters that have one, in their order (`Kept` of `Filtering`).
`Models` are the sizes a model may have and the parameters that are its experts.

## 4. What TLC checks

| Run | Instance | States | Properties |
| --- | --- | --- | --- |
| `server_answers` | 1 model, 3 requests, 1 stream, requests for an unknown id, 1 engine, batches of 2, fairness | 707,076 | `AnswersHonourOwnSettings`, `NobodyIsForgotten`, `AnswerIsFinal`, `EveryRequestIsAnswered` |
| `server_unload` | 2 models, both preloaded, 1 request, 1 stream, 2 settings, 3 engines, 2 unload threads, symmetry of engines and of threads | 2,696,707 | `AnswersFromOwnModel`, `InferenceIsSerialised`, `SingleModelLoaded`, `LoadedHasEngine` |
| `server_pending` | 2 models, 2 requests | - | `UnloadClearsPending` is violated |
| `speculation` | one recurrent head and a growing cache, or two heads and a static cache | 5,869 | `CachesDescribeText`, `IInv`, `ImplementsGreedy`, `RequestEnds` |
| `streaming` | 2 streams of up to 2 tokens, a tokenizer of words and of bytes | 357,789 | `ReceivedIsText`, `StreamIsComplete`, `FailureIsReported`, `EveryStreamEnds` |
| `checkpointing` | 5 steps, a save every second, 2 kept, 3 starts, every `reset_optim` | 205,433 | `ModelPathIsWhole`, `LinksInOrder`, `RotationIsSafe`, `TrainingIsFinished` |
| `training` | 3 ranks out of memory; 2 ranks with early stopping, iterators that raise on one rank or both, an error in a batch or a save; 2 tensor-parallel ranks; a stopper over 5 validations; 8 schedules | 185,691 | `RanksStayTogether`, `CheckpointsAreSound`, `EveryProcessEnds`, `TrainingCompletes`, `StoppingIsTimely`, `SchedulesAreFollowed` |
| `data_pipeline` | 2 corpora of 4 pairs of lengths for 2 devices with 2 loaders each; 5 sets of options for streams of up to 5 examples | 141,085 | `LinesHaveOneReader`, `CorporaAreMixed`, `EveryExampleInOneBatch`, `OutputIsAligned` |
| `parallel` | 3 workers with lists of 9 and 10, 2 with files and a failure, 3 with two failures | 35,423 | `AnswersOwnCall`, `InputsAnsweredOnce`, `EveryoneEnds` |
| `search` | beam search with 8 sets of options, greedy search with 4 | 188,448 | `RowsStayAligned`, `AnswersAreWhole`, `ConstraintsAreKept` |
| `decoder_cache` | 6 sets of options | 16,521 | `PredictsFromItsText`, `PrefixCacheServes` |
| `collectives` | 2 ranks, 3 calls; 4 gradients, with and without experts | 22,718 | `EveryoneHasEveryObject`, `GradientsAreSynchronised` |

`MCTraining`, `MCDataPipeline`, `MCParallelInference`, `MCSearch`,
`MCDecoderCache` and `MCCollectives` are benches: a variable says which component
runs and with which options, fixed in the initial state, and the other variables
stay as they are. A property of a bench is the conjunction of those of the
modules that belong to one question; each conjunct, with the type invariant, is
defined and explained in its module. The assumptions a module makes of its
constants are an `ASSUME` of the bench, for every set of options.

**Bounds.**
*Server.* Batches of two and three requests give a full batch, a batch closed by
the timeout, two groups in one batch, and a request that waits behind a batch.
Two models, both preloaded, give every eviction and the one time two are loaded, a
third engine a reload of an evicted model, and with it a job that runs on an
engine that is not the one it was submitted to. Two
unload threads clash with one another and with a handler.
*Generation.* With three drafts, or two heads, and a `MaxLength` of 6 a request
has full, partial and no acceptance, several cycles, the reduced last chunk and
the single last token; `AddZeros` 2 makes the dynamic cache grow in the middle;
three weights give models that end early, late and never.
*Streaming.* Two streams share the pool, so that one caller waits, and may time
out, before its job starts; two tokens are enough for a suffix, an empty chunk,
the loss of the first space and a character of two bytes whose first is shown alone.
*Checkpoints.* Three saves in a run with two kept rotate once; the third start
meets what two crashes left, and resumes past the last step. The last step is
saved for being the last.
*Training.* Four steps, with validation, report and save every second, put each
on a step with and without the others; two skipped steps make a step come
three times. Two tolerances and five validations reach every stop and one more
call. Seven steps pass every threshold of a schedule, also one listed out of order.
*Parallel.* Three workers and ten inputs are one more than the square.
*Search.* Two examples of two rows each: one leaves first, either, and the rest
closes the gap; lengths up to 3, and 5 for repeated n-grams. Prefixes of unequal
length come with `ratio`, with `n_best` 1 and 2, and with and without `min_length`.
*Data.* Corpora of 2 to 40 lines have loaders with several blocks, with one and
with none; four openings show a short corpus coming round.
*Decoder.* Prompts of one, two and three chunks of two tokens, a cache of three
entries that four requests overflow, a growth by one and by two cells.
*Collectives.* `Base` 3 and `Modulo` 4 stand for 255 and 256, so that sizes need
both bytes of the header; the proof in section 5 is for any. A buffer of four
elements takes gradients of 1, 2, 3 and, directly, 5 elements.
Runs whose program rests when its clients are served, or when its generator has
ended (`data_pipeline`), say `CHECK_DEADLOCK FALSE`; the others check deadlock,
with an action for the end.

**Fairness.** In the server each thread and the event loop keep running, a pass
of the model ends, and a batch processor closes its batch (its timeout). What
waits for the event loop (batch processors, results of the pool) has strong
fairness: clients may call `count_tokens` for ever, and the handlers keep taking
the loop, but asyncio's ready queue is first in, first out, so a callback that is
ready again and again runs. All other conditions are weak, one per thread. In
`Streaming` the timeout need not expire for a stream to end. In `Checkpointing`
the process runs on until it is killed and is started again, as often as the
bound allows; in `Training` each rank runs on, the collective that all have
entered completes, a validation ends and the parent handles the signal; in
`ParallelInference` each process, the listener and the signal handler run on.
Nothing is assumed of clients: no request need be sent, no `/unload_model` made.
Nothing need fail, crash or run out of memory; where a failure shares a fairness
condition with its success, the program must only do one of the two.

### Where the code departs from what it says

`server_pending` is a violation. `unload` fails the requests that are queued
("clear any pending requests"), but those of the batch being served are in the
cancelled task only, and `CancelledError` is not an `Exception`, so their
clients wait for ever. `NobodyIsForgotten` and `EveryRequestIsAnswered` are stated
for requests that are not in `orphaned`, whatever is evicted, unloaded, loaded or
fails: a request is lost only when the processor that had it in its batch is
cancelled. One model is enough for that, since an `/infer` request with an unknown
id unloads it.

In the other places the property is stated with the condition under which the
code keeps it. A condition in a property below is therefore something to know
of the code:

| Code | What happens | Condition in |
| --- | --- | --- |
| `bin/run/serve.py:952` | a job submitted to an engine that was replaced predicts on its successor, in a second thread | `InferenceIsSerialised`: no unload interrupted a batch of the model (`Undisturbed`) |
| `bin/run/serve.py:1322` | an id that no model has unloads every model, also one that is serving a batch, before `KeyError` | `NobodyIsForgotten`, `EveryRequestIsAnswered`: not `orphaned` |
| `bin/run/serve.py:1281` | `load` and `unload` assign `engine` and `loaded` in two threads; the flag may end up true without an engine | `LoadedHasEngine`: no unload thread has begun |
| `predict/inference.py:203` | `update_settings` is not undone: a value set by one request governs later ones that leave it unset; a second job on the same engine overwrites it for the one that is running | `AnswersHonourOwnSettings`: what is set, and `Undisturbed` |
| `predict/streamer.py` | half a character is yielded as a replacement character, and the other half makes the text no longer | `ReceivedIsText`, `StreamIsComplete`: the text itself only if it `Grows`, else each place as first shown |
| `models/model_saver.py:143` | the queue of checkpoints lives in memory: after a restart older step directories are never removed | `QueueIsOnDisk` says nothing of those |
| `models/model_saver.py:303` | after a kill `model_path` mixes two saves: the optimizer is ahead of the weights. If that run had started over in an old directory, its counter is of a lower step than the weights | `LinksInOrder` orders saves, not steps; `RootIsLastSaved`: between saves |
| `models/model_saver.py:300`, `utils/distributed_workers.py:59,87` | a rank whose save raises goes to the barrier of its cleanup, and the others take it for that of the save: they record a checkpoint that was not written | `SavedIsWritten`: or rank 0 has raised and ended, and then no rank updates the weights any more |
| `utils/optimizers.py:391` | `reset_optim: keep_states` leaves out `training_step`, and `load_state_dict` reads it | `TrainingIsFinished`: unless a start raised |
| `utils/earlystopping.py:187` | of two patiences each is run down by itself: up to twice the tolerance without an improvement | `StopIsTimely`: `2 * Tolerance - 1` |
| `trainer.py:335` | rank 0 alone leaves the loop; the others wait in a collective until the group's timeout | `NoRankIsLeftWaiting`, `RanksInStep`: not stopped early |
| `trainer.py:343` | the last step is not retried when it was skipped: the last checkpoint has an update less | `CheckpointCounts`: `n` or `n - 1` updates |
| `trainer.py:60` | a run resumed after a threshold keeps the first value | `RunFollowsSchedule`: thresholds of this run |
| `train_single.py:262` | offset and stride count local devices: on two nodes lines are read twice | `LinesHaveOneReader`: one node |
| `inputters/dynamic_iterator.py:110` | a corpus without a line for a loader makes the mixer yield the last item again and then raise `RuntimeError`, out of a generator | `StopsOnlyIfEmpty` |
| `inputters/dynamic_iterator.py:476` | the duplicate filter is emptied while overflowing examples stay | `NoDuplicatesInBatch`: no overflow |
| `inputters/text_utils.py:93` | an input without tokens is dropped, and later results move up | `OutputIsAligned`: no such input |
| `utils/distributed_workers.py:203` | under `data_parallel` a file's results and scores are those of one worker's share, or in another order | `AnsweredOnceInOrder`: `tensor_parallel` |
| `inference_engine.py:229` | `queue_settings` is filled and never read | `Answers` uses the settings of the instruction |
| `inference_engine.py:426` | a list comes back in order exactly up to `World^2` inputs | `InOrderUpToSquare` |
| `predict/beam_search.py:268` | the blocked n-grams are not reindexed when an example leaves | `NoNgramTwice`: none has left |
| `predict/beam_search.py:314` | with prefixes of different lengths the reset revives a beam of a shorter one, also one that is finished, against the comment at 247 | `OneLiveBeamAtReset`: the longest prefix; `FinishedStayFinished`: unless `IsRevived` |
| `predict/decode_strategy.py:175` | `min_length` is counted from the end of the shortest prefix of the batch | `MinLengthIsKept` of `BeamSearch`: beside the shortest prefix, and no blocked n-grams |
| `predict/greedy_search.py:220` | the greedy search accepts `block_ngram_repeat`, documented in `predict/decode_strategy.py:26` for every strategy, but never records an n-gram, and so blocks none | `NoNgramTwice` is of `BeamSearch` only |
| `predict/decode_strategy.py:232` | `block_ngram_repeat: 1` is not what its documentation says | `NoNgramTwice`: two or more |
| `predict/generator.py:92`, `decode_strategy.py:175` | the rest of a longer prompt loses its first token and lengthens `min_length` | `TextContinuesPrompt`, `MinLengthIsKept` |
| `predict/generator.py:363` | the streamer gets whichever row is first | `StreamIsOnePrediction`: one row |
| `modules/gated_delta_net.py:704` | the convolution of a chunk of the prompt does not see the end of the one before | `PredictsFromItsText`: linear states of one chunk |
| `trainer.py:185` | ranks whose batches used different experts pack different parameters in one place | `SameParameters` in `GradientsAreSynchronised` |

A caller that times out waits for its job all the same and then ends without an
error, with a beginning of the text (`ReceivedIsText`); that is as documented.
`predict/inference.py:416` merges two buckets of results when examples were
dropped, `inputters/text_corpus.py:335` numbers the lines of a shard, not those
of the file, and `serve.py:951` asks an engine with several processes for a
thread pool it does not have; no property of a run depends on these.

## 5. What is proved

`SpeculativeDecoding_proofs` proves, for every vocabulary, prompt, model, draft,
acceptance, number of heads and length:

* `Invariant`: `Spec => []IInv`;
* `TypeCorrect`, `CachesCorrect`, `WritesInside`, `MtpCorrect`: the invariants
  `TypeOK`, `CachesDescribeText`, `WritesStayInside` and `MtpInStep`;
* `Refinement`: `Spec => Greedy!Spec`.

The assumptions are `SpecAssumption` (end-of-sequence tokens belong to the
vocabulary, prompts are not empty, the counters are positive, and a static cache
has room for the prompt and `MaxLength` tokens).

None of the four invariants is inductive. That the caches describe the text
before a pass depends on what a verified chunk left in them, and that a
prediction is `Argmax` of the text depends on the caches. `IInv` has four named
parts beside the types. `TextInv` says what a running request is: greedy so far
and not finished. `CacheInv` says that both summaries describe the text but its
last token. `ChunkInv` says what holds between draft and commit: the cells hold
text and drafts, each prediction follows from the text and the drafts before
it. `MtpInv` fixes where the head's cache ends. The heart of the argument is the
step `Commit`: of the predictions, those up to the first mismatch were computed
from a chunk that equals the text they now extend (`EmitsTextInv`), hence they
are greedy; rewinding by the rejected drafts leaves exactly the cells of that
text; and when the sequence is cut at an end-of-sequence token the request is
over and the caches are released, so that the accepted tokens beyond the cut
do no harm. The refinement (`EmitsIsGreedy`, `BlockEmits`, `OneTokenEmits`)
reuses these facts: a step that emits tokens is `Start` or `Continue` of
`GreedyDecoding`, `Fail` is its `Fail`, and `Draft` and `Verify` stutter.

`Streaming_proofs` proves, for any number of streams, any vocabulary and any
length, `Invariant`, `TypeCorrect`, `ReceivedCorrect`, `CompleteCorrect` and
`FailureCorrect`, from `StreamAssumption` and, as a hypothesis of each theorem,
`Decodes`: the tokenizer makes a text of any list of ids. It may change what it
has shown; where it only adds to it, the two properties give a beginning of the text
and the text itself. That a finished stream is complete is not inductive: it needs
that the mark is behind every token (`QueueInv`: what was taken and what is queued
is what was generated, then marks, and no mark while the job may put more), that
what was yielded is as long as what was decoded, is of the tokens read, and is the
longest of their texts unless decoding raised (`TextInv`), that a job which ended
well has generated something (`JobInv`), and that whoever waits in the pool
waits there once (`PoolInv`), lest a job run twice. `ChunkIsFirstShown` is the step of
the argument: what a token adds is beyond every text before it.

`DataPipeline_proofs` proves `ShardsPartition`: on one node, for any number of
devices, of loaders and of lines, every line is in the shard of one loader and of
no other. The argument is that device and worker are the two digits of the
offset (`Digits`, `FirstDigit`), and the offsets of a node are the remainders of
its stride. From it follows `OneReader`: on one node the item that was yielded is
its reader's and nobody else's. For any corpora, `PassesCorrect` says that each
opening of a corpus yields the lines of the shard once and in order, and
`StopCorrect` that the mixer stops only if a corpus has no line for the loader,
with at most its last item drawn once too often. Both are read off the invariant
`DrawnInv`, which counts how often each line was drawn from how often its corpus
was opened and how far it has been read, in every status; `ShardFacts`, that a
shard names no line twice, comes from `Filtering_proofs`. `MixCorrect` adds the
types and the mix by weight (`MixFollowsWeights`) and so proves the run's
`CorporaAreMixed`. Its invariant `MixInv` counts the draws of every corpus: there
is one number of cycles `n` such that corpus `c` has been drawn `n * Weight[c]`
times and as often again as it comes in the cycle before `turn`. A draw moves the
turn and the count of one corpus by one (`YieldCounts`, `TurnKeepsMix`), reopening
it moves neither more nor less, and at the end of the cycle each corpus has come
its weight times (`CycleFacts`). These theorems rest on
`ShardingAssumption`: the corpora of a configuration are named apart, at least
one, with positive weights.

The second half of the module is about the iterators of `MCDataPipeline`, for any
set of options, any streams and any sizes, from `OptionsAssumption`.
`IteratorsInvariant` says that `IteratorInv` is inductive; `BatchesAreRight` and
`OutputsAreInOrder` prove the run's `EveryExampleInOneBatch` and
`OutputIsAligned` from it. Its parts:

* `PhaseInv`: which of bucket, data and batches are empty in which phase, and that
  the bucket holds the last examples that were taken.
* `ApartInv`: the sorted bucket, batch in the making, batches and consumed batches
  have no example in common, none repeats one, and all are among those that
  left the bucket. `LostInv`: what is in none of them has no tokens, or was a
  duplicate of one that is; it needs that `seen` has only texts of the batch in
  the making. With them an example has one occurrence or none (`OneOccurrence`).
* `FitInv`: the batch in the making fits as well. When it overflows, the batch
  that leaves is a beginning of it, which costs no more (`PrefixCost`), and what
  stays has no more examples than the multiple (`OverflowFacts`).
* `TextInv`, for batches of sentences without a multiple: the batch in the making is
  smaller than `batch_size`, so no turn overflows and `seen` is never emptied while
  an example stays.
* `AlignInv`, for `_predict` and `_score` of streams without empty examples:
  `PlacesInv`, that an example is `Base` plus its index in the bucket, `Base` being where
  in the output its bucket begins; `CoverInv`, that waiting results and batches are
  together the places from the end of the output on; and `FlushInv`, when a bucket is
  flushed. `_predict` flushes at `bucket_size` results, which are those of
  exactly one bucket, since only the last bucket is smaller; `_score` one batch
  later, before it adds it, so that two numbers of buckets may differ by one. Then
  the results that wait are the examples after the output, each once, so their
  indices have no gap and sorting puts each in its place (`SortedByRank`,
  `InOrderFrom`).

`Training_proofs` is about `MCTraining` and `MCCollectives`, for any options of
the two benches, from `BenchAssumption`, `ListGatheringAssumption` and
`ModelsAssumption`.

*Early stopping.* `StoppingTimely`: `StopIsTimely`, `PatienceCounts` and
`BestIsUndominated` hold of any scorers, tolerance and history. That a stop comes
at most `2 * Tolerance - 1` validations after the best one needs an account of
both patiences (`PatiencesRemain`): of the validations since the best step as many
have run down the one as were worse (`Worse`), and the rest the other, each as
long as it is above zero.

*Schedules.* `SchedulesFollowed`. `ValueInForce` relates the value to what the run
asks for: after an update it is that of the step, before it that of the step
before, and the group in the making has its size. Asking is a `CHOOSE` of the latest
threshold passed; `update` goes through the list and keeps the last threshold it
hits, and the lemmas show that both agree, for a list in any order and with
repetitions. This attempt failed at first, for a list out of order with a
threshold of 0; the reference `Asked` counted it as passed, which TLC then confirmed,
and was corrected (3.5).

*The ranks of a training.* `RanksTogether`: `RanksInStep` and `NoRankIsLeftWaiting`, for
any number of ranks. Neither says enough of a rank that computes. `Dest(p, r)` is
where rank `r` will wait next: collective, step, batches left and whether it is
leaving, a function of its place and counters (`From`). A step of a rank between two
collectives leaves every `Dest` as it was (`GoesOn`), which is where the code's
conditions on `step`, `save_every`, `valid_steps` and `last_saved_step` are used; an
error is a case of its own (`Fails`), and so is the early stop of rank 0
(`JudgeStops`). `PeersAreSame`: two ranks that are bound to each other, neither
failed and neither rank 0 after an early stop, have the same `Dest` and counters, so
those that wait, wait in one collective; a collective moves all of them alike.
`SavesWithRank0` says that a rank in `save` shares it with rank 0.

*Checkpoints.* `CheckpointsSound`: `CheckpointCounts` and `SavedIsWritten`.
`Counted` relates step, counter and updates of every rank, `RankZeroSaves` the steps
of the checkpoints to the counters of rank 0 at each place of its loop, and the
invariant above carries it to the other ranks. Most steps only move a rank and leave
both as they were (`Moves`). A rank that leaves the barrier of a save either
met rank 0 in it, which has written, or in the barrier of its cleanup: then rank 0 is
done, and the next collective never completes.

*Gathering.* `GatheringIsExact`, for any ranks, number of calls, sizes and content of
new memory: a call returns from every rank exactly the object that was sent in
that call. `HeaderIsExact` gives the arithmetic: two bytes, of base 255 in the code,
hold every size that `all_gather_list` lets through. The invariant `IInv` adds to the
types (`GatheringTypeOK`) that the buffers have their size (`Shapes`), that no rank
gets a collective ahead of another (`InStep`), that what is in a rank's own buffer
while it waits is its message (`SentIsReady`), and that what it has received are
the messages of this call (`ReceivedIsWhole`); a rank may be slow to return, and
the others may have begun the next call.

*Gradients.* `GradientsSynchronised`: for any parameters, sizes and buffer, what is
packed fits (`BufferFits`), and a rank that has returned has each of its gradients
summed over all ranks and rescaled once, if the ranks have gradients for the
same parameters. `GradientCollectivesMet` adds what TLC sees only as the absence of
deadlock: under that condition ranks that wait together reduce the same shape, and no
rank waits for one that has returned. What a rank does depends on its list alone, so there
is one *course* of buffers (`IsCourse`): what the buffer holds at each place of the list,
what is sent on the way there, what is gone out. Its existence is an induction over the
places (`CourseExists`), and so is that nothing is sent twice and nothing lost
(`Holding`, `Fresh`). The invariant `AveragesInStep` puts every rank at some place of the
course, and says that all have collected the same gradients: these are averaged, and
the others are as the backward pass left them. When all ranks have posted they
are at one place, hence reduce the same tensors.

`Filtering_proofs` is about `Kept(s, S)`, the elements of `s` that belong to `S`.
It is a recursive function, and what it computes is proved for every sequence:
`KeptPlaces` gives the increasing places they come from, `KeptElements` their
set, `KeptAgree` that only membership matters. `JoinPlaces` does the same for
`FlattenSeq`, which joins the parts of a list and of the mixer's cycle: at each
place of the result it gives the part and the place in the part; `JoinedPlaces`
says it of `Joined`, the same function where `FlattenSeq` is out of reach. The library's induction
theorems are not usable (they are about operators), so `Induction` states the
principle for a set of numbers and proves it from its least element outside.

`ModelServer_proofs` proves, for any models, requests, streams, settings,
engines, unload threads and batch size, and with requests for unknown ids,
`AnswersCorrect`, `SettingsCorrect`,
`AnswersFinal`, `InferenceCorrect`, `LoadingCorrect`, `FlagCorrect` and
`NobodyForgotten`, the six safety invariants of the runs and the action property
`AnswerIsFinal`, from `ServerAssumption` alone. `IInv` has seventeen parts; the
ones that carry the argument are:

* `EngineInv`: an engine, and every job in its pool, belong to the model it was
  built for. A job looks its engine up late, but it looks up the engine of
  *its* model, so the answer is its model's whatever was swapped.
* `QueueInv`, `TaskInv`, `JobInv`: a request is in one place. In a queue it
  waits for this model; in a batch it was answered or is still to do; a live
  batch job is the group of what is to do, and all of its requests have the
  settings of the job, a live stream is that of a client who waits.
  Hence a result is given to requests that wait, so that answers are final,
  and that asked for these settings.
* `RivalInv`, `AwaitInv`: a processor that waits has a live job, and no second.
  This is why `Finish` may overwrite the state of the processor.
* `LoadedInv`, `FlagInv`: `load` is split by the threads of `/unload_model`; they
  say which model the handler inside it is loading, that no other is loaded, and
  that the flag and the engine of a model agree that no thread has begun to unload.
* `PoolInv`: while no unload has interrupted a batch of a model, its batch jobs are
  live, in the pool of the engine the model has now, and a job that runs on that engine
  was submitted to it; so it is alone there, and its settings are those the predictor
  holds.
* `InHandInv`, `ProcessorInv`: an accepted request is in a queue or a batch, or in
  `orphaned`; a queue has a processor but between two statements of an unload thread.

`Checkpointing_proofs` proves, for any artifacts, number of steps, save interval,
number kept and number of kills and restarts, `ModelPathCorrect`,
`LinksCorrect` and `RotationCorrect`. `CheckpointAssumption` says, of the files
of a checkpoint, only that the artifacts are none of the four others. None of
the three is inductive. `SaveInv` says what a save in progress has done: every
file of another step is older than this save, the items before the current one
are written and linked, the current one is torn, or whole and not yet linked.
So each link points at a file that is there, in the order of the saves
(`LinksInOrder`), and at the end all point to the new directory
(`RootIsLastSaved`). `QueueInv` orders what rotation may take: the directory
being removed is older than the queue, which is older than the save, so links
survive it and a newer checkpoint is whole. `BoundInv` bounds the step numbers
that crashes and resumptions can reach.

`ParallelInference_proofs` proves, for engines with any number of workers, calls
and failures and for lists and files of any length, `AnswersCorrect` and
`InputsCorrect`, the two safety properties of the run, from `OptionsAssumption`
alone. The invariant says where each worker is while the parent
distributes (`DistributingInv`) and collects (`CollectingInv`): behind the
parent it is quiet and its results are taken; ahead of it the call is on its queue, or its results are in order partly
taken, partly queued and partly to be put, or it failed before it had put any
(`InFlight`). A result of an earlier call has no place left, whatever failed.
Under `data_parallel` the shares of the workers increase and partition the inputs
by `(i \div World) % World` (`ShareFacts`, `OneWorker`), and joining them keeps
each in its order (`AnswerOrder`); so the joined list is a bijection with the
inputs (`OnceFacts`), and it is in order when every worker has one block, that is up
to `World^2` inputs (`Blocks`). One input more is after input `World` in the list and
before it in the answers. Beside it `RestTyped` gives the other queues their types
and says that a pending signal still has its error on the queue, which its handler
takes; the types of the results need what `Aggregate` returns (`AggregateFacts`).

**How the invariants were found.** Each `IInv` was checked by TLC on the instance
of its run before it was proved.

**Only model-checked.** `RowsStayAligned`, `AnswersAreWhole` and
`ConstraintsAreKept` of search, `PredictsFromItsText` and `PrefixCacheServes` of the
decoder's state: these modules use `SelectSeq`, `SetToSortSeq` and folds, which
take an operator as a parameter and which the provers do not reason about; no
inductive invariant of them is stated. All liveness properties, `RequestEnds`,
`EveryStreamEnds`, `EveryRequestIsAnswered`, `EveryProcessEnds`,
`TrainingCompletes`, `TrainingIsFinished` and `EveryoneEnds`: fairness and
`ENABLED` are outside what the prover handles. `ImplementsGreedy` of the run is
`Refinement` above.

## 6. What is not modelled

Tensor arithmetic, kernels, model architectures, transforms, tokenizers,
converters, command-line tools and configuration have no concurrency and no
state worth a model, and stay outside; they are most of the lines of the
repository. In the server: the content of prompts and answers, clients that
disconnect, and the relay of a stream's chunks from the producer thread to the
response, a queue that neither drops nor reorders. In the data pipeline: audio
and the loader processes' queues. In training: losses, learning rates and the
moving average. What each module leaves out of its own component is said in
section 3.
