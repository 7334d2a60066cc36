------------------------- MODULE MCParallelInference -------------------------
(* ParallelInference with any options.  A behaviour is that of one engine  *)
(* with one set of options.  SmallOptions are those TLC is given.          *)
EXTENDS Integers

CONSTANT Options       \* the options of the engines, by name

VARIABLES
    engine_options,    \* the name of the options
    parent, call, at, results, returned, queue_instruct, queue_settings,
    queue_result, worker, task, answers, error_queue, error_thread, failures

vars == <<engine_options, parent, call, at, results, returned, queue_instruct,
          queue_settings, queue_result, worker, task, answers, error_queue,
          error_thread, failures>>

SmallOptions ==
    [lists |-> [world |-> 3, mode |-> "data_parallel", kinds |-> {"infer_list"},
                sizes |-> {9, 10}, max_calls |-> 2, max_failures |-> 0],
     files |-> [world |-> 2, mode |-> "tensor_parallel",
                kinds |-> {"infer_list", "infer_file", "score_file"},
                sizes |-> {0, 3}, max_calls |-> 2, max_failures |-> 1],
     failing |-> [world |-> 3, mode |-> "data_parallel",
                  kinds |-> {"infer_list", "score_list"}, sizes |-> {2},
                  max_calls |-> 1, max_failures |-> 2]]

Engine(o) == INSTANCE ParallelInference WITH
    World <- Options[o].world, ParallelMode <- Options[o].mode,
    Kinds <- Options[o].kinds, Sizes <- Options[o].sizes,
    MaxCalls <- Options[o].max_calls, MaxFailures <- Options[o].max_failures

ASSUME OptionsAssumption ==
    \A o \in DOMAIN Options : Engine(o)!ParallelInferenceAssumption

With(o) == engine_options = o /\ UNCHANGED engine_options

Init == \E o \in DOMAIN Options : engine_options = o /\ Engine(o)!Init

Next == \E o \in DOMAIN Options : With(o) /\ Engine(o)!Next

(* The fairness of ParallelInference.                                      *)
Fairness ==
    /\ WF_vars(\E o \in DOMAIN Options : With(o) /\ Engine(o)!ParentStep)
    /\ \A w \in UNION {Engine(o)!Workers : o \in DOMAIN Options} :
            WF_vars(\E o \in DOMAIN Options :
                With(o) /\ w \in Engine(o)!Workers /\ Engine(o)!WorkerStep(w))
    /\ WF_vars(\E o \in DOMAIN Options : With(o) /\ Engine(o)!Listen)
    /\ WF_vars(\E o \in DOMAIN Options : With(o) /\ Engine(o)!HandleSignal)

Spec == Init /\ [][Next]_vars /\ Fairness

------------------------------------------------------------------------------
(* Properties of the engine that runs.                                     *)

OfEngine(P(_)) == \A o \in DOMAIN Options : engine_options = o => P(o)

(* Every result a call returns was made for it, whatever is in the queues, *)
(* which are of their types (_collect_parallel_results).                   *)
AnswersOwnCall == OfEngine(LAMBDA o : Engine(o)!TypeOK /\ Engine(o)!AnswersOwnCall)

(* Each input of a list is answered once; in order under tensor_parallel,  *)
(* under data_parallel exactly up to the square of world_size              *)
(* (infer_list_parallel, _aggregate_inference_results).                    *)
InputsAnsweredOnce ==
    OfEngine(LAMBDA o : /\ Engine(o)!ListsAnsweredOnce
                        /\ Engine(o)!InOrderUpToSquare
                        /\ Engine(o)!AnsweredOnceInOrder)

(* A call returns or raises whichever worker fails, and terminating, or    *)
(* raising, ends every process (ErrorHandler, terminate).                  *)
EveryoneEnds ==
    /\ []<>OfEngine(LAMBDA o : ~Engine(o)!InCall)
    /\ []<>OfEngine(LAMBDA o : ~Engine(o)!Leaving)
==============================================================================
