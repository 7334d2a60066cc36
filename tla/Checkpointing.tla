---------------------------- MODULE Checkpointing ----------------------------
(***************************************************************************)
(* Checkpoints of a training run: TrainingModelSaver on rank 0, the loop   *)
(* that calls it and the start of a run that reads what it left.  A        *)
(* checkpoint is a directory step_<n> in model_path with one file per      *)
(* item; after each file is written a symbolic link of its name in         *)
(* model_path is moved to it.  The process may be killed between any two   *)
(* of these operations and started again: from nothing, from model_path or *)
(* from one of the step directories.                                       *)
(*                                                                         *)
(* What a file holds is abstracted to the number of the save that wrote    *)
(* it.  Steps skipped for lack of memory are in module Training.           *)
(***************************************************************************)
EXTENDS Integers, SequencesExt

CONSTANTS
    Artifacts,    \* files of the transforms, one per transform, in order
    TrainSteps,   \* training.train_steps
    SaveEvery,    \* training.save_checkpoint_steps
    Keep,         \* training.keep_checkpoint; 0 would save nothing
    ResetOptim,   \* the values of training.reset_optim that are used
    MaxRuns       \* bound: how often the training is started

ASSUME CheckpointAssumption ==
    /\ TrainSteps \in Nat \ {0}
    /\ SaveEvery \in Nat \ {0}
    /\ Keep \in {-1} \cup (Nat \ {0})
    /\ ResetOptim \subseteq {"none", "all", "states", "keep_states"}
    /\ MaxRuns \in Nat
    /\ Artifacts \in Seq(STRING)
    /\ Range(Artifacts) \cap {"optimizer", "weights", "vocab", "config"} = {}

VARIABLES
    dirs,              \* the step directories in model_path
    file,              \* file[s][f]: the save that wrote f in step_<s>
    link,              \* link[f]: the step the link f points into
    pc,                \* what the training process is doing
    training_step,     \* optim.training_step
    step_dir,          \* the step being saved
    item,              \* position in Items of the file being saved
    last_saved_step,
    checkpoint_queue,
    doomed,            \* the step whose directory cleanup is removing
    run,               \* number of starts so far
    save,              \* number of saves begun so far
    failed             \* load_state_dict has raised on a whole checkpoint

disk == <<dirs, file, link>>
process == <<training_step, step_dir, item, last_saved_step,
             checkpoint_queue, doomed>>
vars == <<disk, pc, process, run, save, failed>>

WeightsFirst == <<"weights", "optimizer">> \o Artifacts \o <<"vocab", "config">>

(* The order of _save.                                                     *)
Items == <<"optimizer", "weights">> \o Artifacts \o <<"vocab", "config">>
Files == Range(Items)

NoStep == 0
Steps == 1 .. (TrainSteps + MaxRuns)

(* A file that is not there, and one that was opened for writing only.     *)
Missing == 0
Torn == -1

TypeOK ==
    /\ dirs \subseteq Steps
    /\ file \in [Steps -> [Files -> {Missing, Torn} \cup (1 .. save)]]
    /\ link \in [Files -> Steps \cup {NoStep}]
    /\ pc \in {"down", "training", "open", "write", "unlink", "link",
               "cleanup", "remove", "enqueue", "done"}
    /\ training_step \in Steps \cup {TrainSteps + MaxRuns + 1}
    /\ step_dir \in Steps \cup {NoStep}
    /\ item \in 1 .. Len(Items)
    /\ last_saved_step \in Steps \cup {NoStep}
    /\ checkpoint_queue \in Seq(Steps)
    /\ doomed \in Steps \cup {NoStep}
    /\ run \in 0 .. MaxRuns
    /\ save \in Nat
    /\ failed \in BOOLEAN

Init ==
    /\ dirs = {}
    /\ file = [s \in Steps |-> [f \in Files |-> Missing]]
    /\ link = [f \in Files |-> NoStep]
    /\ pc = "down"
    /\ training_step = 1
    /\ step_dir = NoStep
    /\ item = 1
    /\ last_saved_step = NoStep
    /\ checkpoint_queue = <<>>
    /\ doomed = NoStep
    /\ run = 0
    /\ save = 0
    /\ failed = FALSE

------------------------------------------------------------------------------
(* Starting a run.                                                         *)

Root == 0

(* The step directory that name f of a source resolves to: train_from is   *)
(* model_path, whose names are links, or a step directory.                 *)
Home(source, f) == IF source = Root THEN link[f] ELSE source

Held(source, f) ==
    IF Home(source, f) = NoStep THEN Missing ELSE file[Home(source, f)][f]

Whole(source, f) == Held(source, f) \notin {Missing, Torn}

(* get_metadata and the shards of the weights: only the optimizer may be   *)
(* missing.                                                                *)
Loadable(source) ==
    /\ \A f \in Files \ {"optimizer"} : Whole(source, f)
    /\ Held(source, "optimizer") # Torn

(* The training step the optimizer of a source was saved with.             *)
SavedTrainingStep(source) == Home(source, "optimizer") + 1

(* Optimizer.from_config: the counters come from the checkpoint only when  *)
(* it has an optimizer and reset_optim keeps them.                         *)
ResumedStep(source, reset) ==
    IF Whole(source, "optimizer") /\ reset \in {"none", "states"}
    THEN SavedTrainingStep(source)
    ELSE 1

Begin(step) ==
    /\ pc \in {"down", "done"}
    /\ run < MaxRuns
    /\ run' = run + 1
    /\ pc' = "training"
    /\ training_step' = step
    /\ step_dir' = NoStep
    /\ item' = 1
    /\ last_saved_step' = NoStep
    /\ checkpoint_queue' = <<>>
    /\ doomed' = NoStep
    /\ UNCHANGED <<disk, save, failed>>

StartFresh == Begin(1)

Resume(source, reset) ==
    /\ Loadable(source)
    /\ Whole(source, "optimizer") => reset # "keep_states"
    /\ Begin(ResumedStep(source, reset))

(* With keep_states _process_checkpoint hands on the state without the     *)
(* counters, and load_state_dict reads training_step from it.              *)
ResumeFails(source, reset) ==
    /\ pc \in {"down", "done"}
    /\ run < MaxRuns
    /\ Loadable(source)
    /\ Whole(source, "optimizer")
    /\ reset = "keep_states"
    /\ run' = run + 1
    /\ pc' = "down"
    /\ failed' = TRUE
    /\ UNCHANGED <<disk, process, save>>

Start ==
    \/ StartFresh
    \/ \E source \in dirs \cup {Root}, reset \in ResetOptim :
            Resume(source, reset) \/ ResumeFails(source, reset)

------------------------------------------------------------------------------
(* The training loop.  train_steps is tested after the step.               *)

DueByFrequency(step) == step % SaveEvery = 0

SaveDue(step) == step % SaveEvery = 0 \/ step >= TrainSteps

(* A step without a save.  When a save is due its last_saved_step guard    *)
(* makes the second one, after the loop, return at once.                   *)
Train ==
    /\ pc = "training"
    /\ ~SaveDue(training_step) \/ training_step = last_saved_step
    /\ training_step' = training_step + 1
    /\ pc' = IF training_step >= TrainSteps THEN "done" ELSE "training"
    /\ UNCHANGED <<disk, step_dir, item, last_saved_step, checkpoint_queue,
                   doomed, run, save, failed>>

(* The step, and update_step_dir of the save that follows it.              *)
BeginSave(first) ==
    /\ pc = "training"
    /\ SaveDue(training_step)
    /\ training_step # last_saved_step
    /\ training_step' = training_step + 1
    /\ step_dir' = training_step
    /\ dirs' = dirs \cup {training_step}
    /\ item' = first
    /\ save' = save + 1
    /\ pc' = "open"
    /\ UNCHANGED <<file, link, last_saved_step, checkpoint_queue, doomed, run,
                   failed>>

TrainAndSave == BeginSave(1)

------------------------------------------------------------------------------
(* One item: _save_optimizer, _save_weights, ..., and _make_symlink.       *)

Put(content) == file' = [file EXCEPT ![step_dir][Items[item]] = content]

Open ==
    /\ pc = "open"
    /\ Put(Torn)
    /\ pc' = "write"
    /\ UNCHANGED <<dirs, link, process, run, save, failed>>

Write ==
    /\ pc = "write"
    /\ Put(save)
    /\ pc' = "unlink"
    /\ UNCHANGED <<dirs, link, process, run, save, failed>>

Unlink ==
    /\ pc = "unlink"
    /\ link' = [link EXCEPT ![Items[item]] = NoStep]
    /\ pc' = "link"
    /\ UNCHANGED <<dirs, file, process, run, save, failed>>

Link ==
    /\ pc = "link"
    /\ link' = [link EXCEPT ![Items[item]] = step_dir]
    /\ IF item < Len(Items)
       THEN item' = item + 1 /\ pc' = "open"
       ELSE item' = item /\ pc' = "cleanup"
    /\ UNCHANGED <<dirs, file, training_step, step_dir, last_saved_step,
                   checkpoint_queue, doomed, run, save, failed>>

------------------------------------------------------------------------------
(* cleanup: the oldest step of a full queue is removed, file by file.      *)

Full == Keep > 0 /\ Len(checkpoint_queue) = Keep

PopStep(s) ==
    /\ pc = "cleanup"
    /\ Full
    /\ doomed' = s
    /\ checkpoint_queue' = Tail(checkpoint_queue)
    /\ pc' = "remove"
    /\ UNCHANGED <<disk, training_step, step_dir, item, last_saved_step, run,
                   save, failed>>

PopRight == PopStep(Last(checkpoint_queue))
PopSaved == PopStep(step_dir)

Pop == PopStep(Head(checkpoint_queue))

NoPop ==
    /\ pc = "cleanup"
    /\ ~Full
    /\ pc' = "enqueue"
    /\ UNCHANGED <<disk, process, run, save, failed>>

RemoveFile(f) ==
    /\ pc = "remove"
    /\ file[doomed][f] # Missing
    /\ file' = [file EXCEPT ![doomed][f] = Missing]
    /\ UNCHANGED <<dirs, link, pc, process, run, save, failed>>

RemoveDir ==
    /\ pc = "remove"
    /\ \A f \in Files : file[doomed][f] = Missing
    /\ dirs' = dirs \ {doomed}
    /\ pc' = "enqueue"
    /\ UNCHANGED <<file, link, process, run, save, failed>>

(* The step enters the queue and save returns to the loop.                 *)
Enqueue ==
    /\ pc = "enqueue"
    /\ checkpoint_queue' = IF Keep > 0 THEN Append(checkpoint_queue, step_dir)
                           ELSE checkpoint_queue
    /\ last_saved_step' = step_dir
    /\ pc' = IF step_dir >= TrainSteps THEN "done" ELSE "training"
    /\ UNCHANGED <<disk, training_step, step_dir, item, doomed, run, save,
                   failed>>

Crash ==
    /\ pc \notin {"down", "done"}
    /\ run < MaxRuns
    /\ pc' = "down"
    /\ UNCHANGED <<disk, process, run, save, failed>>

(* Nothing is left to do: the last run is over.                            *)
Ended ==
    /\ pc = "done" \/ pc = "down"
    /\ run = MaxRuns
    /\ UNCHANGED vars

Step ==
    \/ Train \/ TrainAndSave
    \/ Open \/ Write \/ Unlink \/ Link
    \/ Pop \/ NoPop \/ RemoveDir \/ Enqueue
    \/ \E f \in Files : RemoveFile(f)

Next == Start \/ Step \/ Crash \/ Ended

Spec == Init /\ [][Next]_vars

(* The process runs on until it is killed, and is started again.           *)
FairSpec == Spec /\ WF_vars(Step) /\ WF_vars(Start)

------------------------------------------------------------------------------
(* Properties.                                                             *)

Running == pc \notin {"down", "done"}
Saving == pc \in {"open", "write", "unlink", "link", "cleanup", "remove",
                  "enqueue"}

(* Every file of step_<s> was written whole by save number n.              *)
Complete(s, n) == n # Missing /\ n # Torn /\ \A f \in Files : file[s][f] = n
IsCheckpoint(s) == \E n \in 1 .. save : Complete(s, n)

(* A link never dangles: cleanup removes only directories that no link     *)
(* points into any more (TrainingModelSaver.cleanup, _make_symlink).       *)
NoDanglingLink ==
    \A f \in Files : link[f] # NoStep => file[link[f]][f] # Missing

(* Wherever saves were interrupted, what the links of model_path show is   *)
(* in the order of _save: the optimizer is of the same save as the weights *)
(* or of a later one, and so are the weights to the vocabulary and these   *)
(* to the configuration.  This is the order of the saves, and not of their *)
(* steps: a run that starts over on an old model_path saves lower steps.   *)
LinksInOrder ==
    \A pair \in {<<"optimizer", "weights">>, <<"weights", "vocab">>,
                  <<"weights", "config">>, <<"vocab", "config">>} :
        Whole(Root, pair[1]) /\ Whole(Root, pair[2])
            => Held(Root, pair[1]) >= Held(Root, pair[2])

(* Between two saves of one run model_path is exactly the last checkpoint. *)
RootIsLastSaved ==
    (Running \/ pc = "done") /\ ~Saving /\ last_saved_step # NoStep
        => /\ IsCheckpoint(last_saved_step)
           /\ \A f \in Files : link[f] = last_saved_step

(* The checkpoints in the queue, the newest of this run, are whole on disk *)
(* at any time, also while the next one is written and an older removed.   *)
QueueIsOnDisk ==
    Running => \A i \in 1 .. Len(checkpoint_queue) :
        /\ checkpoint_queue[i] \in dirs
        /\ IsCheckpoint(checkpoint_queue[i])

(* What model_path promises at any time: no link dangles, between two      *)
(* saves it is exactly the last checkpoint, and the checkpoints in the     *)
(* queue are whole (TrainingModelSaver._save, cleanup).                    *)
ModelPathIsWhole ==
    TypeOK /\ NoDanglingLink /\ RootIsLastSaved /\ QueueIsOnDisk

(* A checkpoint is lost only to a save of the same step, or to the         *)
(* rotation, which leaves a newer one.                                     *)
RotationIsSafe ==
    [][\A s \in dirs : IsCheckpoint(s) /\ ~IsCheckpoint(s)' =>
            \/ s = step_dir /\ pc = "open"
            \/ \E t \in dirs' : /\ IsCheckpoint(t) /\ IsCheckpoint(t)'
                                /\ file[t]["config"] > file[s]["config"]]_vars

(* Killed as often as the bound allows, the training is finished in the    *)
(* end, with a whole checkpoint of its last step behind every link; unless *)
(* a start with reset_optim keep_states raised, which no checkpoint        *)
(* survives (_process_checkpoint).                                         *)
TrainingIsFinished ==
    <>[](\/ /\ pc = "done"
           /\ last_saved_step >= TrainSteps
           /\ \A f \in Files : link[f] = last_saved_step
         \/ failed)
=============================================================================
