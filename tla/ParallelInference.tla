-------------------------- MODULE ParallelInference --------------------------
(***************************************************************************)
(* InferenceEnginePY with world_size > 1: the parent puts each call on the *)
(* instruction queue of every worker process, takes the results back       *)
(* worker by worker and aggregates them.  An error of a worker comes back  *)
(* through ErrorHandler: a listener thread raises SIGUSR1, whose handler   *)
(* interrupts all the workers and raises in the parent's main thread, the  *)
(* thread that makes the calls.                                            *)
(***************************************************************************)
EXTENDS Integers, Functions, Filtering

CONSTANTS
    World,               \* world_size, also the number of gpu_ranks
    ParallelMode,
    Kinds,               \* the calls that are made
    Sizes,               \* numbers of inputs
    MaxCalls, MaxFailures

ParallelInferenceAssumption ==
    /\ World \in Nat \ {0, 1}
    /\ ParallelMode \in {"data_parallel", "tensor_parallel"}
    /\ Kinds \subseteq {"infer_list", "infer_file", "score_list", "score_file"}
    /\ Sizes \subseteq Nat
    /\ {MaxCalls, MaxFailures} \subseteq Nat

Workers == 0 .. World - 1

VARIABLES
    parent,              \* where the caller is in the engine
    call,                \* the current call, or the last
    at,                  \* the worker the parent's loop is at
    results,             \* of _collect_parallel_results, for each worker
    returned,            \* the aggregated results of the last call
    queue_instruct, queue_settings, queue_result,
    worker, task,        \* state of each worker, instruction it works on
    answers,             \* results of the task still to be put
    error_queue,         \* the workers that reported an error
    error_thread,        \* listening, signalled or handled
    failures

engine == <<parent, call, at, results, returned>>
queues == <<queue_instruct, queue_settings, queue_result>>
workers == <<worker, task, answers>>
errors == <<error_queue, error_thread>>
vars == <<engine, queues, workers, errors, failures>>

Calls == [id : 0 .. MaxCalls, kind : Kinds \cup {"none"}, n : Sizes \cup {0},
          settings : {"default", "own"}]
Stop == [id |-> 0, kind |-> "stop", n |-> 0, settings |-> "default"]
NoCall == [Stop EXCEPT !.kind = "none"]

Init ==
    /\ parent = "idle"
    /\ call = NoCall
    /\ at = 0
    /\ results = [w \in Workers |-> <<>>]
    /\ returned = <<>>
    /\ queue_instruct = [w \in Workers |-> <<>>]
    /\ queue_settings = [w \in Workers |-> <<>>]
    /\ queue_result = [w \in Workers |-> <<>>]
    /\ worker = [w \in Workers |-> "starting"]
    /\ task = [w \in Workers |-> NoCall]
    /\ answers = [w \in Workers |-> <<>>]
    /\ error_queue = <<>>
    /\ error_thread = "listening"
    /\ failures = 0

------------------------------------------------------------------------------
(* The parent.                                                             *)

StartCall(kind, n, settings) ==
    /\ parent = "idle"
    /\ call.id < MaxCalls
    /\ call' = [id |-> call.id + 1, kind |-> kind, n |-> n, settings |-> settings]
    /\ parent' = "distributing"
    /\ at' = 0
    /\ results' = [w \in Workers |-> <<>>]
    /\ returned' = <<>>
    /\ UNCHANGED <<queues, workers, errors, failures>>

Distribute ==
    /\ parent = "distributing"
    /\ queue_instruct' = [queue_instruct EXCEPT ![at] = Append(@, call)]
    /\ queue_settings' = [queue_settings EXCEPT ![at] = Append(@, call.settings)]
    /\ at' = (at + 1) % World
    /\ parent' = IF at + 1 = World THEN "collecting" ELSE parent
    /\ UNCHANGED <<call, results, returned, queue_result, workers, errors, failures>>

TwoParts(kind) ==
    IF kind \in {"infer_list", "infer_file"} THEN <<"scores", "estims">>
    ELSE <<"scores">>

(* The results a worker puts for a call, and the parent takes.             *)
Parts(kind) ==
    IF kind \in {"infer_list", "infer_file"} THEN <<"scores", "estims", "preds">>
    ELSE <<"scores">>

OneLess(kind) == Len(TwoParts(kind))

(* The parent counts the results it takes from each worker.                *)
NumResults(kind) == Len(Parts(kind))

Aggregate(taken) ==
    IF ParallelMode = "tensor_parallel" THEN taken[0]
    ELSE [p \in DOMAIN taken[0] |->
             [taken[0][p] EXCEPT !.inputs =
                 Joined([k \in 1 .. World |-> taken[k - 1][p].inputs])]]

Collect ==
    /\ parent = "collecting"
    /\ queue_result[at] # <<>>
    /\ queue_result' = [queue_result EXCEPT ![at] = Tail(@)]
    /\ results' = [results EXCEPT ![at] = Append(@, Head(queue_result[at]))]
    /\ LET whole == Len(results'[at]) = NumResults(call.kind)
           last == whole /\ at + 1 = World
       IN  /\ at' = IF whole THEN (at + 1) % World ELSE at
           /\ parent' = IF last THEN "idle" ELSE parent
           /\ returned' = IF last THEN Aggregate(results') ELSE returned
    /\ UNCHANGED <<call, queue_instruct, queue_settings, workers, errors, failures>>

(* terminate asks every worker to stop, then joins them.                   *)
Terminate ==
    /\ parent = "idle"
    /\ parent' = "joining"
    /\ queue_instruct' = [w \in Workers |-> Append(queue_instruct[w], Stop)]
    /\ UNCHANGED <<call, at, results, returned, queue_settings, queue_result,
                   workers, errors, failures>>

(* Also at the exit of a parent that raised.                               *)
Join ==
    /\ parent \in {"joining", "raised"}
    /\ \A w \in Workers : worker[w] = "ended"
    /\ parent' = "ended"
    /\ UNCHANGED <<call, at, results, returned, queues, workers, errors, failures>>

------------------------------------------------------------------------------
(* The workers.                                                            *)

(* multi_init and the loading of the model.                                *)
Start(w) ==
    /\ worker[w] = "starting"
    /\ worker' = [worker EXCEPT ![w] = "waiting"]
    /\ UNCHANGED <<engine, queues, task, answers, errors, failures>>

WithoutWrap(w, i) == i \div World = w

Mine(w, i) == (i \div World) % World = w

(* Only handle_infer_list builds its iterator with offset and stride.      *)
ReadsShard(kind) == kind = "infer_list" /\ ParallelMode = "data_parallel"

Inputs(w, instruction) ==
    LET all == [i \in 1 .. instruction.n |-> i - 1]
    IN  IF ReadsShard(instruction.kind)
        THEN Kept(all, {i \in Range(all) : Mine(w, i)}) ELSE all

(* spawned_infer is given no queue_settings, so that update_settings does  *)
(* nothing and every result is made with the settings of the start.        *)
Answers(w, instruction) ==
    [p \in DOMAIN Parts(instruction.kind) |->
        [id |-> instruction.id, part |-> Parts(instruction.kind)[p],
         inputs |-> Inputs(w, instruction), settings |-> "default"]]

Take(w) ==
    /\ worker[w] = "waiting"
    /\ queue_instruct[w] # <<>>
    /\ LET instruction == Head(queue_instruct[w])
       IN  IF instruction = Stop
           THEN /\ worker' = [worker EXCEPT ![w] = "cleanup"]
                /\ queue_result' = [queue_result EXCEPT ![w] = <<>>]
                /\ UNCHANGED <<task, answers>>
           ELSE /\ worker' = [worker EXCEPT ![w] = "working"]
                /\ task' = [task EXCEPT ![w] = instruction]
                /\ answers' = [answers EXCEPT ![w] = Answers(w, instruction)]
                /\ UNCHANGED queue_result
    /\ queue_instruct' = [queue_instruct EXCEPT ![w] = Tail(@)]
    /\ UNCHANGED <<engine, queue_settings, errors, failures>>

(* One put; parts of the result reach the parent one by one.               *)
Answer(w) ==
    /\ worker[w] = "working"
    /\ queue_result' = [queue_result EXCEPT ![w] = Append(@, Head(answers[w]))]
    /\ answers' = [answers EXCEPT ![w] = Tail(@)]
    /\ worker' = [worker EXCEPT ![w] = IF Len(answers[w]) = 1 THEN "waiting" ELSE @]
    /\ UNCHANGED <<engine, queue_instruct, queue_settings, task, errors, failures>>

Failing(w) ==
    /\ failures < MaxFailures
    /\ \/ worker[w] = "starting"
       \/ worker[w] = "working" /\ Len(answers[w]) = NumResults(task[w].kind)
    /\ failures' = failures + 1
    /\ worker' = [worker EXCEPT ![w] = "cleanup"]
    /\ UNCHANGED <<engine, queues, task, answers, error_thread>>

FailUnreported(w) ==
    /\ Failing(w)
    /\ UNCHANGED error_queue

(* The model cannot be loaded, or the predictor raises.                    *)
Fail(w) ==
    /\ Failing(w)
    /\ error_queue' = Append(error_queue, w)

(* cleanup_distributed waits for the others.                               *)
End(w) ==
    /\ worker[w] = "cleanup"
    /\ \A v \in Workers : worker[v] \in {"cleanup", "ended"}
    /\ worker' = [worker EXCEPT ![w] = "ended"]
    /\ UNCHANGED <<engine, queues, task, answers, errors, failures>>

------------------------------------------------------------------------------
(* ErrorHandler.                                                           *)

(* The listener reads one error and ends.                                  *)
Listen ==
    /\ error_thread = "listening"
    /\ error_queue # <<>>
    /\ error_thread' = "signalled"
    /\ UNCHANGED <<engine, queues, workers, error_queue, failures>>

(* SIGINT to every worker ends its loop; the parent raises wherever it is. *)
HandleSignal ==
    /\ error_thread = "signalled"
    /\ error_thread' = "handled"
    /\ error_queue' = Tail(error_queue)
    /\ worker' = [w \in Workers |-> IF worker[w] = "ended" THEN "ended" ELSE "cleanup"]
    /\ parent' = IF parent = "ended" THEN parent ELSE "raised"
    /\ UNCHANGED <<call, at, results, returned, queues, task, answers, failures>>

(* The parent has exited, and with it the listener.                        *)
Ended == parent = "ended" /\ UNCHANGED vars

ParentStep == Distribute \/ Collect \/ Join
WorkerStep(w) == Start(w) \/ Take(w) \/ Answer(w) \/ End(w)

Next ==
    \/ \E kind \in Kinds, n \in Sizes, settings \in {"default", "own"} :
            StartCall(kind, n, settings)
    \/ Distribute \/ Collect \/ Terminate \/ Join
    \/ \E w \in Workers :
            Start(w) \/ Take(w) \/ Answer(w) \/ Fail(w) \/ End(w)
    \/ Listen \/ HandleSignal
    \/ Ended

(* The processes run, and a pending signal is handled.                     *)
Fairness ==
    /\ WF_vars(ParentStep)
    /\ \A w \in Workers : WF_vars(WorkerStep(w))
    /\ WF_vars(Listen)
    /\ WF_vars(HandleSignal)

Spec == Init /\ [][Next]_vars /\ Fairness

------------------------------------------------------------------------------
(* Properties.                                                             *)

Result == [id : 0 .. MaxCalls, part : {"scores", "estims", "preds"},
           inputs : Seq(Nat), settings : {"default", "own"}]

TypeOK ==
    /\ parent \in {"idle", "distributing", "collecting", "joining", "raised", "ended"}
    /\ call \in Calls
    /\ at \in Workers
    /\ results \in [Workers -> Seq(Result)]
    /\ returned \in Seq(Result)
    /\ queue_instruct \in [Workers -> Seq(Calls \cup {Stop})]
    /\ queue_settings \in [Workers -> Seq({"default", "own"})]
    /\ queue_result \in [Workers -> Seq(Result)]
    /\ worker \in [Workers -> {"starting", "waiting", "working", "cleanup", "ended"}]
    /\ task \in [Workers -> Calls]
    /\ answers \in [Workers -> Seq(Result)]
    /\ error_queue \in Seq(Workers)
    /\ error_thread \in {"listening", "signalled", "handled"}
    /\ failures \in 0 .. MaxFailures

Answered == parent = "idle" /\ returned # <<>>

(* What a call returns was made for it by every worker, each part in its   *)
(* place and all parts for the same inputs: nothing of an earlier call is  *)
(* left in a queue, and the parent takes as many results as workers put.   *)
AnswersOwnCall ==
    Answered =>
        /\ \A w \in Workers : \A p \in DOMAIN results[w] : results[w][p].id = call.id
        /\ Len(returned) = Len(Parts(call.kind))
        /\ \A p \in DOMAIN returned :
               /\ returned[p].part = Parts(call.kind)[p]
               /\ returned[p].inputs = returned[1].inputs

Position(i) == CHOOSE k \in DOMAIN returned[1].inputs : returned[1].inputs[k] = i

(* A list is answered once for every input, whatever its length.           *)
ListsAnsweredOnce ==
    Answered /\ call.kind = "infer_list" =>
        /\ Len(returned[1].inputs) = call.n
        /\ Range(returned[1].inputs) = 0 .. call.n - 1

(* Workers take blocks of World inputs and their results are put one after *)
(* the other: the answers are in order exactly up to World^2 inputs.       *)
InOrderUpToSquare ==
    Answered /\ call.kind = "infer_list" /\ ParallelMode = "data_parallel" =>
        ((\A i, j \in 0 .. call.n - 1 : i < j => Position(i) < Position(j))
            <=> call.n <= World * World)

(* Under tensor_parallel every call is answered once, in order.            *)
AnsweredOnceInOrder ==
    Answered /\ ParallelMode = "tensor_parallel" =>
        returned[1].inputs = [i \in 1 .. call.n |-> i - 1]

InCall == parent \in {"distributing", "collecting"}

Leaving == parent \in {"joining", "raised"}

=============================================================================
