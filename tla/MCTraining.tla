----------------------------- MODULE MCTraining ------------------------------
(* Training, EarlyStopping and Schedules side by side, for any options.  A *)
(* behaviour is that of one process group with one set of options, of one  *)
(* early stopping object or of one schedule, the rest staying at its start.*)
(* The definitions named Small are the options TLC is given.               *)
EXTENDS Integers, Sequences

CONSTANTS
    NaN, NoScore,
    Loops,         \* the options of the process groups, by name
    Stops,         \* those of early stopping
    Plans          \* those of the scheduled parameters

VARIABLES
    running,    \* which of them runs
    at, step, training_step, updates, left, oom, final, last_saved_step, saved,
    stopper, errors, parent, ooms,
    seen,
    schedule, current_value, accum_count, batches, start, ended, processed,
    skips, restarts

schedules == <<schedule, current_value, accum_count, batches, start, ended,
               processed, skips, restarts>>
loop == <<at, step, updates, left, oom, final, last_saved_step, saved, errors,
          parent, ooms>>
benchVars == <<running, loop, training_step, stopper, seen, schedules>>

SmallDataParallel ==
    [n |-> 3, data_parallel |-> TRUE, supplies |-> {[r \in 0 .. 2 |-> 50]},
     start_step |-> 1, train_steps |-> 4, valid_steps |-> 2, save_every |-> 2,
     report_every |-> 2, early_stop |-> FALSE, slow_validation |-> FALSE,
     max_oom |-> 2, max_errors |-> 1, scorers |-> {"ppl", "acc"},
     higher_is_better |-> {"acc"}, values |-> {1, 2}, tolerance |-> 1]

(* Early stopping, slow validations, errors, and iterators that raise,     *)
(* also of one rank only.                                                  *)
SmallFailing ==
    [SmallDataParallel EXCEPT !.n = 2, !.start_step = 2, !.early_stop = TRUE,
        !.slow_validation = TRUE,
        !.supplies = {[r \in 0 .. 1 |-> IF r = spared THEN 50 ELSE batches_left] :
                          spared \in 0 .. 2, batches_left \in {0, 2, 50}}]

SmallTensorParallel ==
    [SmallDataParallel EXCEPT !.n = 2, !.data_parallel = FALSE, !.max_oom = 1,
        !.supplies = {[r \in 0 .. 1 |-> 50]}]

SmallLoops ==
    [data |-> SmallDataParallel, fail |-> SmallFailing, tensor |-> SmallTensorParallel]

SmallStops ==
    [scorers |-> {"ppl", "acc"}, higher_is_better |-> {"acc"}, values |-> 1 .. 3,
     tolerance |-> 2, max_validations |-> 5]

SmallPlans ==
    [schedules |-> {[values |-> v, steps |-> s] :
                        v \in {<<1, 3, 2>>, <<2, 1, 3>>},
                        s \in {<<0, 2, 4>>, <<0, 1, 1>>, <<3, 2, 0>>, <<1, 3, 5>>}},
     max_step |-> 7, save_every |-> 2, max_skips |-> 2, max_restarts |-> 1]

Training(p) == INSTANCE Training WITH
    pc <- at,
    N <- Loops[p].n, DataParallel <- Loops[p].data_parallel,
    Supplies <- Loops[p].supplies, StartStep <- Loops[p].start_step,
    TrainSteps <- Loops[p].train_steps, ValidSteps <- Loops[p].valid_steps,
    SaveEvery <- Loops[p].save_every, ReportEvery <- Loops[p].report_every,
    EarlyStop <- Loops[p].early_stop, SlowValidation <- Loops[p].slow_validation,
    MaxOom <- Loops[p].max_oom, MaxErrors <- Loops[p].max_errors,
    Scorers <- Loops[p].scorers, HigherIsBetter <- Loops[p].higher_is_better,
    Values <- Loops[p].values, Tolerance <- Loops[p].tolerance

Stopping == INSTANCE EarlyStopping WITH
    Scorers <- Stops.scorers, HigherIsBetter <- Stops.higher_is_better,
    Values <- Stops.values, Tolerance <- Stops.tolerance,
    MaxValidations <- Stops.max_validations

Scheduling == INSTANCE Schedules WITH
    Schedules <- Plans.schedules, MaxStep <- Plans.max_step,
    SaveEvery <- Plans.save_every, MaxSkips <- Plans.max_skips,
    MaxRestarts <- Plans.max_restarts

ASSUME BenchAssumption ==
    /\ DOMAIN Loops \cap {"stopping", "schedule"} = {}
    /\ \A p \in DOMAIN Loops : Training(p)!TrainingAssumption
    /\ Stopping!StoppingAssumption
    /\ Scheduling!SchedulesAssumption

NoLoop ==
    /\ at = <<>> /\ step = <<>> /\ updates = <<>> /\ left = <<>> /\ oom = {}
    /\ final = {} /\ last_saved_step = <<>> /\ saved = {} /\ errors = {}
    /\ parent = "" /\ ooms = 0

NoSchedule ==
    /\ schedule = <<>> /\ current_value = 0 /\ accum_count = 0 /\ batches = 0
    /\ start = 0 /\ ended = FALSE /\ processed = <<>> /\ skips = 0
    /\ restarts = 0

BenchInit ==
    \/ \E p \in DOMAIN Loops :
            /\ running = p
            /\ Training(p)!Init
            /\ NoSchedule
            /\ seen = <<>>
    \/ /\ running = "stopping"
       /\ Stopping!Init
       /\ NoLoop /\ NoSchedule
       /\ training_step = 0
    \/ /\ running = "schedule"
       /\ Scheduling!Init
       /\ NoLoop
       /\ stopper = <<>> /\ seen = <<>>

Loop(p, action) == running = p /\ action /\ UNCHANGED <<running, seen, schedules>>

TrainingNext == \E p \in DOMAIN Loops : Loop(p, Training(p)!Next)

StoppingNext ==
    /\ running = "stopping"
    /\ Stopping!Next
    /\ UNCHANGED <<running, loop, training_step, schedules>>

ValidationsAreOver ==
    /\ running = "stopping"
    /\ Len(seen) = Stops.max_validations
    /\ UNCHANGED benchVars

SchedulingNext ==
    /\ running = "schedule"
    /\ Scheduling!Next
    /\ UNCHANGED <<running, loop, stopper, seen>>

BenchNext == TrainingNext \/ StoppingNext \/ ValidationsAreOver \/ SchedulingNext

AllRanks == UNION {Training(p)!Ranks : p \in DOMAIN Loops}

(* The fairness of Training!FairSpec.                                      *)
Fairness ==
    /\ \A r \in AllRanks : WF_benchVars(\E p \in DOMAIN Loops :
            r \in Training(p)!Ranks /\ Loop(p, Training(p)!RankStep(r)))
    /\ WF_benchVars(\E p \in DOMAIN Loops : Loop(p, Training(p)!Judge))
    /\ WF_benchVars(\E p \in DOMAIN Loops :
            Loop(p, \E kind \in Training(p)!Kinds : Training(p)!Collective(kind)))
    /\ WF_benchVars(\E p \in DOMAIN Loops : Loop(p, Training(p)!ParentRaises))

BenchSpec == BenchInit /\ [][BenchNext]_benchVars /\ Fairness

------------------------------------------------------------------------------
(* Properties of the component that runs.                                  *)

OfLoop(P(_)) == \A p \in DOMAIN Loops : running = p => P(p)

(* Ranks that wait, wait for the same collective of the same step with the *)
(* same weights, and none waits until the group's timeout unless another   *)
(* has failed (Trainer.train, GradientSynchronizer.synchronize).           *)
RanksStayTogether ==
    OfLoop(LAMBDA p : /\ Training(p)!TypeOK
                      /\ Training(p)!RanksInStep
                      /\ Training(p)!NoRankIsLeftWaiting)

(* A checkpoint contains the updates its name and counter tell, and no     *)
(* rank trains on before it has been written, also if the save raises      *)
(* (Optimizer.step, TrainingModelSaver.save, cleanup_distributed).         *)
CheckpointsAreSound ==
    OfLoop(LAMBDA p : Training(p)!CheckpointCounts /\ Training(p)!SavedIsWritten)

(* Every process ends whichever fails, and errors reach the parent         *)
(* (spawned_train, ErrorHandler).                                          *)
EveryProcessEnds == <>[]OfLoop(LAMBDA p : Training(p)!EveryoneIsOver)

(* A training in which nothing fails ends with a checkpoint of its last    *)
(* step (Trainer.train).                                                   *)
TrainingCompletes ==
    []OfLoop(LAMBDA p : Training(p)!BatchesAreLeft)
        => []<>OfLoop(LAMBDA p : Training(p)!Completed)

(* Stopping is neither early nor two patiences late, the patiences count   *)
(* what __call__ documents, and the step reported as best is dominated by  *)
(* none (EarlyStopping.__call__).                                          *)
StoppingIsTimely ==
    running = "stopping" =>
        /\ Stopping!TypeOK
        /\ Stopping!StopIsTimely
        /\ Stopping!PatienceCounts
        /\ Stopping!BestIsUndominated

(* A step has the value of the last threshold its run has passed, and a    *)
(* group of batches is at most one step behind                             *)
(* (ScheduledParameter.update, _accum_batches).                            *)
SchedulesAreFollowed ==
    running = "schedule" =>
        /\ Scheduling!TypeOK
        /\ Scheduling!RunFollowsSchedule
        /\ Scheduling!GroupLagsOneStep
==============================================================================
