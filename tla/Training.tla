------------------------------ MODULE Training -------------------------------
(***************************************************************************)
(* The training loop of Trainer on the ranks of one process group, and the *)
(* parent that spawned them.  The ranks meet in collectives: normalization,*)
(* out-of-memory status, gradients, statistics, the barrier of a save, the *)
(* barrier at exit.  A collective completes when every rank has entered    *)
(* one of its kind; a rank that waits for ever in one is killed by the     *)
(* timeout of the group.                                                   *)
(*                                                                         *)
(* Weights are abstracted to the number of optimizer updates they contain. *)
(* Early stopping is module EarlyStopping; what a save does to the disk is *)
(* in module Checkpointing.                                                *)
(***************************************************************************)
EXTENDS Integers, FiniteSets

CONSTANTS
    N,                \* world_size; the ranks are 0 .. N - 1
    DataParallel,     \* parallel_mode is data_parallel, else tensor_parallel
    Supplies,         \* how many batch groups the iterators of the ranks may
                      \* yield before they raise: WeightedMixer never ends
    StartStep,        \* optim.training_step at the start of the run
    TrainSteps,       \* training.train_steps; 0 for no end
    ValidSteps,       \* training.valid_steps
    SaveEvery,        \* training.save_checkpoint_steps
    ReportEvery,      \* report_every
    EarlyStop,        \* there is an earlystopper
    SlowValidation,   \* a validation may outlast the timeout of the group
    MaxOom,           \* bound: batches that do not fit in memory
    MaxErrors,        \* bound: batches and saves that raise something else
    Scorers, HigherIsBetter, Values, NaN, NoScore, Tolerance

Ranks == 0 .. (N - 1)

TrainingAssumption ==
    /\ N \in Nat \ {0}
    /\ DataParallel \in BOOLEAN
    /\ Supplies \subseteq [Ranks -> Nat]
    /\ StartStep \in Nat \ {0}
    /\ TrainSteps \in Nat
    /\ {ValidSteps, SaveEvery, ReportEvery} \subseteq Nat \ {0}
    /\ {EarlyStop, SlowValidation} \subseteq BOOLEAN
    /\ {MaxOom, MaxErrors} \subseteq Nat
    /\ Tolerance \in Nat \ {0}

VARIABLES
    pc,              \* pc[r]: where rank r is in train
    step,            \* the local step of rank r, 0 before it is assigned
    training_step,   \* optim.training_step of rank r
    updates,         \* optimizer updates the weights of rank r contain
    left,            \* batch groups before the iterator of rank r raises
    oom,             \* the ranks whose batch did not fit in memory
    final,           \* the ranks that have left the loop
    last_saved_step, \* of the saver of rank r
    saved,           \* the checkpoints written
    stopper,         \* the EarlyStopping object, used by rank 0
    errors,          \* the ranks that have put a traceback on error_queue
    parent,          \* the process that joins the ranks
    ooms             \* batches that did not fit in memory so far

local == <<step, left, final>>
model == <<training_step, updates>>
disk == <<last_saved_step, saved>>
vars == <<pc, local, model, disk, oom, ooms, stopper, errors, parent>>

Stopping == INSTANCE EarlyStopping WITH seen <- <<>>, MaxValidations <- 0

Waiting == {"norm", "forward", "oom", "grads", "stats", "valid_forward",
            "state", "barrier", "exit"}
Working == {"next", "compute", "report", "validate", "judge", "checkpoint",
            "save", "write", "more"}
Over == {"done", "gone", "aborted"}

TypeOK ==
    /\ pc \in [Ranks -> Waiting \cup Working \cup Over]
    /\ step \in [Ranks -> Nat]
    /\ training_step \in [Ranks -> Nat]
    /\ updates \in [Ranks -> Nat]
    /\ left \in [Ranks -> Nat]
    /\ oom \subseteq Ranks
    /\ ooms \in 0 .. MaxOom
    /\ final \subseteq Ranks
    /\ last_saved_step \in [Ranks -> Nat]
    /\ saved \subseteq [step : Nat, training_step : Nat, updates : Nat]
    /\ stopper \in Stopping!Stopper
    /\ errors \subseteq Ranks
    /\ parent \in {"joining", "raised"}

Init ==
    /\ pc = [r \in Ranks |-> "next"]
    /\ step = [r \in Ranks |-> 0]
    /\ training_step = [r \in Ranks |-> StartStep]
    /\ updates = [r \in Ranks |-> StartStep - 1]
    /\ left \in Supplies
    /\ oom = {}
    /\ ooms = 0
    /\ final = {}
    /\ last_saved_step = [r \in Ranks |-> 0]
    /\ saved = {}
    /\ stopper = Stopping!NewStopper
    /\ errors = {}
    /\ parent = "joining"

Goto(r, label) == pc' = [pc EXCEPT ![r] = label]

------------------------------------------------------------------------------
(* The head of the loop.                                                   *)

FetchCounting(r) ==
    /\ pc[r] = "next"
    /\ left[r] > 0
    /\ left' = [left EXCEPT ![r] = @ - 1]
    /\ step' = [step EXCEPT ![r] = @ + 1]
    /\ oom' = oom \ {r}
    /\ Goto(r, IF DataParallel THEN "norm" ELSE "compute")
    /\ UNCHANGED <<final, model, disk, ooms, stopper, errors, parent>>

(* _accum_batches yields, and step is read from the optimizer.             *)
Fetch(r) ==
    /\ pc[r] = "next"
    /\ left[r] > 0
    /\ left' = [left EXCEPT ![r] = @ - 1]
    /\ step' = [step EXCEPT ![r] = training_step[r]]
    /\ oom' = oom \ {r}
    /\ Goto(r, IF DataParallel THEN "norm" ELSE "compute")
    /\ UNCHANGED <<final, model, disk, ooms, stopper, errors, parent>>

Leave(r) ==
    /\ final' = final \cup {r}
    /\ Goto(r, "save")

(* An exception reaches spawned_train, which reports it and then waits in  *)
(* cleanup_distributed.                                                    *)
Raise(r) ==
    /\ errors' = errors \cup {r}
    /\ Goto(r, "exit")
    /\ UNCHANGED <<local, model, disk, oom, ooms, stopper, parent>>

(* The iterator raises: a corpus has no line in the shard of this rank, so *)
(* StopIteration leaves the generator of WeightedMixer as a RuntimeError.  *)
(* Without any corpus to draw from it yields nothing, and the final save   *)
(* reads step, which is not assigned.                                      *)
NothingToTrainOn(r) ==
    /\ pc[r] = "next"
    /\ left[r] = 0
    /\ Raise(r)

------------------------------------------------------------------------------
(* process_batch of the accumulated batches.                               *)

BatchFits(r) ==
    /\ pc[r] = "compute"
    /\ Goto(r, IF DataParallel THEN "oom" ELSE "forward")
    /\ UNCHANGED <<local, model, disk, oom, ooms, stopper, errors, parent>>

BatchTooLarge(r) ==
    /\ pc[r] = "compute"
    /\ ooms < MaxOom
    /\ ooms' = ooms + 1
    /\ oom' = oom \cup {r}
    /\ Goto(r, IF DataParallel THEN "oom" ELSE "gone")
    /\ UNCHANGED <<local, model, disk, stopper, errors, parent>>

BatchRaises(r) ==
    /\ pc[r] = "compute"
    /\ Cardinality(errors) < MaxErrors
    /\ Raise(r)

------------------------------------------------------------------------------
(* The collectives.  A kind is what the process group can tell apart: the  *)
(* two uses of all_gather_list look the same, so do all barriers.          *)

Kind(label) ==
    IF label \in {"norm", "stats"} THEN "all_gather_list"
    ELSE IF label \in {"barrier", "exit"} THEN "barrier"
    ELSE label

AnyOom == oom # {}

(* Where rank r continues after the collective it waits in.                *)
After(r) ==
    CASE pc[r] = "norm" -> "compute"
      [] pc[r] = "forward" -> "grads"
      [] pc[r] = "oom" -> IF AnyOom THEN "report" ELSE "grads"
      [] pc[r] = "grads" -> "report"
      [] pc[r] = "stats" -> "validate"
      [] pc[r] = "valid_forward" -> "judge"
      [] pc[r] = "state" -> "write"
      [] pc[r] = "barrier" -> IF r \in final THEN "exit" ELSE "more"
      [] pc[r] = "exit" -> "done"

AfterOwnOom(r) ==
    IF pc[r] = "oom" THEN IF r \in oom THEN "report" ELSE "grads"
    ELSE After(r)

Continue(r) == After(r)

Meet(kind) == \A r \in Ranks : pc[r] \in Waiting /\ Kind(pc[r]) = kind

(* optim.step after synchronize; last_saved_step after the barrier.        *)
Collective(kind) ==
    LET stepping == {r \in Ranks : pc[r] = "grads"}
        saving == {r \in Ranks : pc[r] = "barrier"}
    IN  /\ Meet(kind)
        /\ pc' = [r \in Ranks |-> Continue(r)]
        /\ training_step' = [r \in Ranks |->
                training_step[r] + IF r \in stepping THEN 1 ELSE 0]
        /\ updates' = [r \in Ranks |->
                updates[r] + IF r \in stepping THEN 1 ELSE 0]
        /\ last_saved_step' = [r \in Ranks |->
                IF r \in saving THEN step[r] ELSE last_saved_step[r]]
        /\ UNCHANGED <<local, saved, oom, ooms, stopper, errors, parent>>

------------------------------------------------------------------------------
(* The tail of the loop.                                                   *)

(* report_training gathers the statistics of the ranks.                    *)
Report(r) ==
    /\ pc[r] = "report"
    /\ Goto(r, IF DataParallel /\ N > 1 /\ step[r] % ReportEvery = 0
               THEN "stats" ELSE "validate")
    /\ UNCHANGED <<local, model, disk, oom, ooms, stopper, errors, parent>>

Validate(r) ==
    /\ pc[r] = "validate"
    /\ Goto(r, IF step[r] % ValidSteps # 0 \/ (DataParallel /\ r # 0) THEN "checkpoint"
               ELSE IF DataParallel THEN "judge" ELSE "valid_forward")
    /\ UNCHANGED <<local, model, disk, oom, ooms, stopper, errors, parent>>

(* Rank 0 has validated, reports the step and asks the earlystopper.       *)
Judge ==
    /\ pc[0] = "judge"
    /\ EarlyStop
    /\ \E stats \in Stopping!Stats :
            stopper' = Stopping!Called(stopper, stats, step[0])
    /\ IF stopper'.status = "stopped" THEN Leave(0)
       ELSE final' = final /\ Goto(0, "checkpoint")
    /\ UNCHANGED <<step, left, model, disk, oom, ooms, errors, parent>>

JudgeNothing(r) ==
    /\ pc[r] = "judge"
    /\ r # 0 \/ ~EarlyStop
    /\ Goto(r, "checkpoint")
    /\ UNCHANGED <<local, model, disk, oom, ooms, stopper, errors, parent>>

Checkpoint(r) ==
    /\ pc[r] = "checkpoint"
    /\ Goto(r, IF step[r] % SaveEvery = 0 THEN "save" ELSE "more")
    /\ UNCHANGED <<local, model, disk, oom, ooms, stopper, errors, parent>>

BackToLoop(r) == "more"

Back(r) == IF r \in final THEN "exit" ELSE "more"

(* save: split weights are gathered, rank 0 writes, then the barrier.      *)
Save(r) ==
    /\ pc[r] = "save"
    /\ Goto(r, IF step[r] = last_saved_step[r] THEN Back(r)
               ELSE IF DataParallel THEN "write" ELSE "state")
    /\ UNCHANGED <<local, model, disk, oom, ooms, stopper, errors, parent>>

Write(r) ==
    /\ pc[r] = "write"
    /\ saved' = IF r = 0
                THEN saved \cup {[step |-> step[r], updates |-> updates[r],
                                  training_step |-> training_step[r]]}
                ELSE saved
    /\ Goto(r, "barrier")
    /\ UNCHANGED <<local, model, last_saved_step, oom, ooms, stopper, errors,
                   parent>>

(* _save raises: what it wrote is not a checkpoint, and the barrier of     *)
(* cleanup_distributed that follows is one the others may be waiting in.   *)
WriteRaises(r) ==
    /\ pc[r] = "write"
    /\ Cardinality(errors) < MaxErrors
    /\ Raise(r)

MoreOneShort(r) ==
    /\ pc[r] = "more"
    /\ IF TrainSteps > 0 /\ step[r] + 1 >= TrainSteps THEN Leave(r)
       ELSE final' = final /\ Goto(r, "next")
    /\ UNCHANGED <<step, left, model, disk, oom, ooms, stopper, errors,
                   parent>>

More(r) ==
    /\ pc[r] = "more"
    /\ IF TrainSteps > 0 /\ step[r] >= TrainSteps THEN Leave(r)
       ELSE final' = final /\ Goto(r, "next")
    /\ UNCHANGED <<step, left, model, disk, oom, ooms, stopper, errors,
                   parent>>

------------------------------------------------------------------------------
(* Failure.                                                                *)

(* ErrorHandler: the listener sends the parent a signal, whose handler     *)
(* interrupts the ranks and raises.                                        *)
ParentRaises ==
    /\ parent = "joining"
    /\ errors # {}
    /\ parent' = "raised"
    /\ UNCHANGED <<pc, local, model, disk, oom, ooms, stopper, errors>>

(* The interrupt reaches a rank that is not inside a collective.           *)
Interrupted(r) ==
    /\ parent = "raised"
    /\ pc[r] \in Working
    /\ Goto(r, "exit")
    /\ UNCHANGED <<local, model, disk, oom, ooms, stopper, errors, parent>>

(* Some rank will not come, or enters something else, or not in time.      *)
Kept(r) ==
    \E q \in Ranks :
        \/ pc[q] \in Over
        \/ pc[q] \in Waiting /\ Kind(pc[q]) # Kind(pc[r])
        \/ SlowValidation /\ pc[q] = "judge"

TimesOut(r) ==
    /\ pc[r] \in Waiting
    /\ Kept(r)
    /\ Goto(r, "aborted")
    /\ UNCHANGED <<local, model, disk, oom, ooms, stopper, errors, parent>>

Ended ==
    /\ \A r \in Ranks : pc[r] \in Over
    /\ errors # {} => parent = "raised"
    /\ UNCHANGED vars

RankStep(r) ==
    \/ Fetch(r) \/ NothingToTrainOn(r)
    \/ BatchFits(r) \/ BatchTooLarge(r) \/ BatchRaises(r)
    \/ Report(r) \/ Validate(r) \/ JudgeNothing(r) \/ Checkpoint(r)
    \/ Save(r) \/ Write(r) \/ WriteRaises(r) \/ More(r)
    \/ Interrupted(r) \/ TimesOut(r)

Kinds == {Kind(label) : label \in Waiting}

Next ==
    \/ \E r \in Ranks : RankStep(r)
    \/ Judge
    \/ \E kind \in Kinds : Collective(kind)
    \/ ParentRaises
    \/ Ended

Spec == Init /\ [][Next]_vars

(* Every process runs, and a collective that can complete does.            *)
FairSpec ==
    /\ Spec
    /\ \A r \in Ranks : WF_vars(RankStep(r))
    /\ WF_vars(Judge)
    /\ WF_vars(\E kind \in Kinds : Collective(kind))
    /\ WF_vars(ParentRaises)

------------------------------------------------------------------------------
(* Properties.                                                             *)

Sound(r) == pc[r] \notin {"exit"} \cup Over

(* Ranks that wait, wait for the same collective of the same step, holding *)
(* the same weights, unless one of them has failed or finished or rank 0   *)
(* has stopped early: otherwise they would exchange values of different    *)
(* things, or wait for ever.                                               *)
RanksInStep ==
    stopper.status # "stopped" => \A r, q \in Ranks :
        /\ Sound(r) /\ pc[r] \in Waiting
        /\ Sound(q) /\ pc[q] \in Waiting
        => /\ pc[r] = pc[q]
           /\ step[r] = step[q]
           /\ updates[r] = updates[q]
           /\ last_saved_step[r] = last_saved_step[q]

(* A checkpoint named after step n holds n updates, or n - 1 if the batch  *)
(* of its step did not fit in memory, and the optimizer's counter in it is *)
(* the one to resume from; a step is not written twice with two contents,  *)
(* however many steps were skipped (Optimizer.step, ModelSaver.save).      *)
CheckpointCounts ==
    \A c \in saved :
        /\ c.training_step = c.updates + 1
        /\ c.step - c.updates \in {0, 1}
        /\ \A d \in saved : c.step = d.step => c = d

(* No rank goes on from a save before the checkpoint has been written.  If *)
(* rank 0 has raised instead, its barrier at exit lets the others take the *)
(* save for done; they do not update the weights any more.                 *)
SavedIsWritten ==
    \A r \in Ranks : last_saved_step[r] > 0 =>
        \/ \E c \in saved : c.step = last_saved_step[r]
        \/ /\ errors # {} /\ pc[0] = "done"
           /\ updates[r] <= last_saved_step[r]

EveryoneIsOver ==
    /\ \A r \in Ranks : pc[r] \in Over
    /\ errors # {} => parent = "raised"

(* Every process ends, whichever of them fails at whichever point, and a   *)
(* reported error is raised in the parent.                                 *)
EveryProcessEnds == <>[]EveryoneIsOver

BatchesAreLeft == \A r \in Ranks : left[r] > 0

Completed ==
    \/ stopper.status = "stopped"
    \/ \A r \in Ranks : pc[r] = "done" /\ last_saved_step[r] >= TrainSteps
    \/ errors # {}
    \/ \E r \in Ranks : pc[r] \in {"gone", "aborted"}

(* A training whose iterators do not raise, in which nothing fails and     *)
(* that is not stopped early ends with a checkpoint of its last step, on   *)
(* every rank.                                                             *)
TrainingCompletes == []BatchesAreLeft => []<>Completed

(* No rank is killed by the timeout of the group while no other has failed *)
(* or left, the validation is quick and rank 0 has not stopped early.      *)
NoRankIsLeftWaiting ==
    /\ errors = {}
    /\ \A r \in Ranks : pc[r] # "gone"
    /\ ~SlowValidation
    /\ stopper.status # "stopped"
    => \A r \in Ranks : pc[r] # "aborted"
=============================================================================
