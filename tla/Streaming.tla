------------------------------ MODULE Streaming ------------------------------
(***************************************************************************)
(* Token streaming: InferenceEnginePY.infer_list_stream with its           *)
(* GenerationStreamer.  Each stream submits a job to the one-thread pool   *)
(* of the engine; the job puts the ids of generated tokens into the queue  *)
(* of the streamer and ends it with a mark; the caller's thread takes them *)
(* out, decodes the ids so far and yields what is new in the text.  The    *)
(* caller gives up when no token came for a while, also if its job has not *)
(* begun, but then still waits for the job.                                *)
(*                                                                         *)
(* A text is a sequence of characters; what a tokenizer makes of a list of *)
(* ids is the constant Decode.  The timeout may expire whenever the queue  *)
(* is empty.                                                               *)
(***************************************************************************)
EXTENDS Naturals, SequencesExt

CONSTANTS
    Streams,     \* calls of infer_list_stream on one engine
    Tokens,      \* token ids
    Stop,        \* GenerationStreamer._STOP
    MaxLength,   \* most tokens a generation may have
    Chars,       \* characters of the decoded text
    Decode(_)    \* transform_pipe.apply_reverse on a list of ids

ASSUME StreamAssumption ==
    /\ Stop \notin Tokens
    /\ MaxLength \in Nat \ {0}

VARIABLES
    pool,       \* jobs that wait for the pool's thread, in order
    job,        \* job[s]: how far the job of stream s is
    exception,  \* exception_holder of the streams that have one
    generated,  \* the tokens the model has generated for s
    queue,      \* streamer._queue
    ids,        \* streamer._token_ids
    decoded,    \* streamer._decoded_so_far
    received,   \* the chunks the caller was given, joined
    caller,     \* what the caller of infer_list_stream is doing
    late        \* the streams whose caller timed out

vars == <<pool, job, exception, generated, queue, ids, decoded, received,
          caller, late>>

TypeOK ==
    /\ pool \in Seq(Streams)
    /\ job \in [Streams -> {"none", "waiting", "running", "ended", "over"}]
    /\ exception \in SUBSET Streams
    /\ generated \in [Streams -> Seq(Tokens)]
    /\ queue \in [Streams -> Seq(Tokens \cup {Stop})]
    /\ ids \in [Streams -> Seq(Tokens)]
    /\ decoded \in [Streams -> Seq(Chars)]
    /\ received \in [Streams -> Seq(Chars)]
    /\ caller \in [Streams -> {"idle", "reading", "joining", "done", "error"}]
    /\ late \in SUBSET Streams

Init ==
    /\ pool = <<>>
    /\ job = [s \in Streams |-> "none"]
    /\ exception = {}
    /\ generated = [s \in Streams |-> <<>>]
    /\ queue = [s \in Streams |-> <<>>]
    /\ ids = [s \in Streams |-> <<>>]
    /\ decoded = [s \in Streams |-> <<>>]
    /\ received = [s \in Streams |-> <<>>]
    /\ caller = [s \in Streams |-> "idle"]
    /\ late = {}

------------------------------------------------------------------------------
(* The pool's thread: _run_inference.                                      *)

Submit(s) ==
    /\ caller[s] = "idle"
    /\ caller' = [caller EXCEPT ![s] = "reading"]
    /\ job' = [job EXCEPT ![s] = "waiting"]
    /\ pool' = Append(pool, s)
    /\ UNCHANGED <<exception, generated, queue, ids, decoded, received, late>>

StartJob ==
    /\ pool # <<>>
    /\ \A s \in Streams : job[s] \notin {"running", "ended"}
    /\ job' = [job EXCEPT ![Head(pool)] = "running"]
    /\ pool' = Tail(pool)
    /\ UNCHANGED <<exception, generated, queue, ids, decoded, received, caller,
                   late>>

(* streamer.put after a decoding step.                                     *)
Put(s) ==
    /\ job[s] = "running"
    /\ Len(generated[s]) < MaxLength
    /\ \E t \in Tokens :
         /\ generated' = [generated EXCEPT ![s] = Append(@, t)]
         /\ queue' = [queue EXCEPT ![s] = Append(@, t)]
    /\ UNCHANGED <<pool, job, exception, ids, decoded, received, caller, late>>

(* Generation is over, at least one step after it began: the mark is put,  *)
(* and the job goes on to assemble its result.                             *)
End(s) ==
    /\ job[s] = "running"
    /\ generated[s] # <<>>
    /\ job' = [job EXCEPT ![s] = "ended"]
    /\ queue' = [queue EXCEPT ![s] = Append(@, Stop)]
    /\ UNCHANGED <<pool, exception, generated, ids, decoded, received, caller,
                   late>>

Return(s) ==
    /\ job[s] = "ended"
    /\ job' = [job EXCEPT ![s] = "over"]
    /\ UNCHANGED <<pool, exception, generated, queue, ids, decoded, received,
                   caller, late>>

(* Mutant: the except branch does not end the stream.                      *)
FailSilently(s) ==
    /\ job[s] \in {"running", "ended"}
    /\ exception' = exception \cup {s}
    /\ job' = [job EXCEPT ![s] = "over"]
    /\ UNCHANGED <<pool, generated, queue, ids, decoded, received, caller, late>>

(* The job raises, before or after the mark, which is put (again) after    *)
(* the exception is recorded.                                              *)
Fail(s) ==
    /\ job[s] \in {"running", "ended"}
    /\ exception' = exception \cup {s}
    /\ queue' = [queue EXCEPT ![s] = Append(@, Stop)]
    /\ job' = [job EXCEPT ![s] = "over"]
    /\ UNCHANGED <<pool, generated, ids, decoded, received, caller, late>>

------------------------------------------------------------------------------
(* The caller's thread: GenerationStreamer.__iter__ and what follows it.   *)

(* Mutants: the tokens are decoded one by one; the suffix overlaps.        *)
ChunkOfToken(s, t) == Decode(<<t>>)
ChunkOverlapping(s, t) ==
    LET text == Decode(Append(ids[s], t)) IN
    SubSeq(text, IF decoded[s] = <<>> THEN 1 ELSE Len(decoded[s]), Len(text))

(* _decode_token: the part of the new text beyond the length of the old.   *)
Chunk(s, t) ==
    LET text == Decode(Append(ids[s], t)) IN
    SubSeq(text, Len(decoded[s]) + 1, Len(text))

Read(s) ==
    /\ caller[s] = "reading"
    /\ queue[s] # <<>>
    /\ LET t == Head(queue[s]) IN
       /\ t # Stop
       /\ ids' = [ids EXCEPT ![s] = Append(@, t)]
       /\ decoded' = IF Chunk(s, t) = <<>> THEN decoded
                     ELSE [decoded EXCEPT ![s] = Decode(Append(ids[s], t))]
       /\ received' = [received EXCEPT ![s] = @ \o Chunk(s, t)]
    /\ queue' = [queue EXCEPT ![s] = Tail(@)]
    /\ UNCHANGED <<pool, job, exception, generated, caller, late>>

ReadStop(s) ==
    /\ caller[s] = "reading"
    /\ queue[s] # <<>>
    /\ Head(queue[s]) = Stop
    /\ queue' = [queue EXCEPT ![s] = Tail(@)]
    /\ caller' = [caller EXCEPT ![s] = "joining"]
    /\ UNCHANGED <<pool, job, exception, generated, ids, decoded, received,
                   late>>

(* apply_reverse raises, out of the generator: nobody joins the job.       *)
DecodeRaises(s) ==
    /\ caller[s] = "reading"
    /\ queue[s] # <<>>
    /\ Head(queue[s]) # Stop
    /\ ids' = [ids EXCEPT ![s] = Append(@, Head(queue[s]))]
    /\ queue' = [queue EXCEPT ![s] = Tail(@)]
    /\ caller' = [caller EXCEPT ![s] = "error"]
    /\ UNCHANGED <<pool, job, exception, generated, decoded, received, late>>

TimeOut(s) ==
    /\ caller[s] = "reading"
    /\ queue[s] = <<>>
    /\ late' = late \cup {s}
    /\ caller' = [caller EXCEPT ![s] = "joining"]
    /\ UNCHANGED <<pool, job, exception, generated, queue, ids, decoded,
                   received>>

(* Mutant: exception_holder is inspected without future.result().          *)
JoinUnwaited(s) ==
    /\ caller[s] = "joining"
    /\ caller' = [caller EXCEPT ![s] = IF s \in exception THEN "error" ELSE "done"]
    /\ UNCHANGED <<pool, job, exception, generated, queue, ids, decoded,
                   received, late>>

(* future.result(), then the exception if there is one.                    *)
Join(s) ==
    /\ caller[s] = "joining"
    /\ job[s] = "over"
    /\ caller' = [caller EXCEPT ![s] = IF s \in exception THEN "error" ELSE "done"]
    /\ UNCHANGED <<pool, job, exception, generated, queue, ids, decoded,
                   received, late>>

------------------------------------------------------------------------------
JobStep(s) == Put(s) \/ End(s) \/ Return(s) \/ Fail(s)
CallerStep(s) == Read(s) \/ ReadStop(s) \/ DecodeRaises(s) \/ Join(s)

Next ==
    \/ StartJob
    \/ \E s \in Streams : Submit(s) \/ JobStep(s) \/ CallerStep(s) \/ TimeOut(s)

Spec == Init /\ [][Next]_vars

(* The pool's thread and the callers keep running.  The timeout need not   *)
(* expire for a stream to end.                                             *)
Fairness ==
    /\ WF_vars(StartJob)
    /\ \A s \in Streams : WF_vars(JobStep(s)) /\ WF_vars(CallerStep(s))

FairSpec == Spec /\ Fairness

------------------------------------------------------------------------------
(* Properties.                                                             *)

(* The text of the first n ids of a list.                                  *)
Text(list, n) == Decode(SubSeq(list, 1, n))

(* Each character of a text is the one that the first text long enough to  *)
(* have it has at its place, as the ids of a list come one by one.         *)
IsFirstShown(text, list) ==
    \A i \in 1 .. Len(text) : \E n \in 1 .. Len(list) :
        /\ i <= Len(Text(list, n))
        /\ text[i] = Text(list, n)[i]
        /\ \A m \in 1 .. n - 1 : Len(Text(list, m)) < i

(* No text on the way was longer.                                          *)
IsLongest(text, list) == \A n \in 1 .. Len(list) : Len(Text(list, n)) <= Len(text)

(* Each id only adds to the text.  It does not where a character is of two *)
(* ids, the first of which alone is shown as something else.               *)
Grows(list) ==
    \A m, n \in 1 .. Len(list) : m <= n => IsPrefix(Text(list, m), Text(list, n))

(* Whatever the interleaving and the tokenizer, the caller is given each   *)
(* place of the text once, in order, as it stood when it was first there;  *)
(* where each token only adds to the text that is a beginning of the text  *)
(* generated (put, the queue, _decode_token).                              *)
ReceivedIsText ==
    \A s \in Streams :
        /\ IsFirstShown(received[s], generated[s])
        /\ Grows(generated[s]) => IsPrefix(received[s], Decode(generated[s]))

(* A stream that ends without an error and did not time out has yielded    *)
(* everything, since the mark is behind every token: as much as the text   *)
(* ever had, and the text itself where each token only adds to it.         *)
StreamIsComplete ==
    \A s \in Streams : caller[s] = "done" /\ s \notin late =>
        /\ IsLongest(received[s], generated[s])
        /\ Grows(generated[s]) => received[s] = Decode(generated[s])

(* A failed generation is never reported as a finished one, even if it     *)
(* fails after the mark was put and read, or after the caller timed out.   *)
FailureIsReported ==
    \A s \in Streams : caller[s] = "done" => job[s] = "over" /\ s \notin exception

(* Every call of infer_list_stream ends, however many wait for the pool.   *)
EveryStreamEnds ==
    \A s \in Streams : caller[s] = "reading" ~> caller[s] \in {"done", "error"}

------------------------------------------------------------------------------
(* The inductive invariant.                                                *)

(* Who waits in the pool waits there once; a stream that nobody called has *)
(* no job, and one that raised is over.                                    *)
PoolInv ==
    /\ \A i \in 1 .. Len(pool) : job[pool[i]] = "waiting"
    /\ \A i, k \in 1 .. Len(pool) : pool[i] = pool[k] => i = k
    /\ \A s \in Streams : caller[s] = "idle" => job[s] = "none"
    /\ \A s \in exception : job[s] = "over"

(* What the caller has taken and what is queued is what was generated,     *)
(* followed by marks, of which there are none while the job may put more.  *)
InOrder(read, queued, made) ==
    /\ Len(read) <= Len(made)
    /\ Len(made) <= Len(read) + Len(queued)
    /\ \A i \in 1 .. Len(read) : read[i] = made[i]
    /\ \A i \in 1 .. Len(queued) :
         queued[i] = IF Len(read) + i <= Len(made) THEN made[Len(read) + i] ELSE Stop

QueueInv ==
    \A s \in Streams :
        /\ InOrder(ids[s], queue[s], generated[s])
        /\ job[s] \notin {"ended", "over"} =>
             Len(generated[s]) = Len(ids[s]) + Len(queue[s])

(* What was yielded is as long as what was decoded, and is of the tokens   *)
(* read; it is all of them unless decoding raised.                         *)
TextInv ==
    \A s \in Streams :
        /\ Len(received[s]) = Len(decoded[s])
        /\ IsFirstShown(received[s], ids[s])
        /\ caller[s] # "error" => IsLongest(received[s], ids[s])

(* A job that has ended, and not by raising, has generated something.      *)
JobInv ==
    \A s \in Streams :
        job[s] \in {"ended", "over"} /\ s \notin exception => generated[s] # <<>>

CallerInv ==
    \A s \in Streams :
        /\ caller[s] \in {"joining", "done"} /\ s \notin late =>
             ids[s] = generated[s] /\ job[s] \in {"ended", "over"}
        /\ caller[s] = "done" => job[s] = "over" /\ s \notin exception

(* Strong enough to be preserved by every step; it implies ReceivedIsText, *)
(* StreamIsComplete and FailureIsReported.                                 *)
IInv == TypeOK /\ PoolInv /\ QueueInv /\ TextInv /\ JobInv /\ CallerInv
==============================================================================
