------------------------------ MODULE Schedules ------------------------------
(***************************************************************************)
(* Scheduled parameters of the trainer (accum_count, dropout, the lambda   *)
(* of the estimator): a value that changes at given steps, seen by the     *)
(* loop, which processes a group of batches per step, and by the generator *)
(* that collects the groups.  The generator reads the count before it      *)
(* collects; the loop updates it after the group has been handed over.     *)
(***************************************************************************)
EXTENDS Integers, Sequences

CONSTANTS
    Schedules,      \* the schedules: records [values, steps] of equal lengths
    MaxStep,        \* bound: last training_step
    SaveEvery,      \* save_checkpoint_steps
    MaxSkips,       \* bound: groups skipped for lack of memory
    MaxRestarts     \* bound: runs resumed from a checkpoint

SchedulesAssumption ==
    /\ \A s \in Schedules : /\ s.values \in Seq(Nat \ {0})
                            /\ s.steps \in Seq(Nat)
                            /\ Len(s.values) = Len(s.steps)
                            /\ Len(s.values) > 0
    /\ {MaxStep, SaveEvery} \subseteq Nat \ {0}
    /\ {MaxSkips, MaxRestarts} \subseteq Nat

VARIABLES
    schedule,       \* what the options say
    current_value,  \* of the ScheduledParameter
    accum_count,    \* the count the generator collects to
    batches,        \* batches collected so far
    training_step,  \* of the optimizer
    start,          \* training_step when this run started
    ended,          \* the iterator has ended
    processed,      \* the group processed last: its step, batches and value
    skips,          \* groups skipped so far
    restarts        \* runs resumed so far

vars == <<schedule, current_value, accum_count, batches, training_step,
          start, ended, processed, skips, restarts>>

None == [step |-> 0, size |-> 0, value |-> 0, partial |-> FALSE]

TypeOK ==
    /\ schedule \in Schedules
    /\ current_value \in Nat \ {0}
    /\ accum_count \in Nat \ {0}
    /\ batches \in 0 .. (accum_count - 1)
    /\ training_step \in 1 .. (MaxStep + 1)
    /\ start \in 1 .. MaxStep
    /\ ended \in BOOLEAN
    /\ processed \in [step : Nat, size : Nat, value : Nat, partial : BOOLEAN]
    /\ skips \in 0 .. MaxSkips
    /\ restarts \in 0 .. MaxRestarts

Init ==
    /\ schedule \in Schedules
    /\ current_value = schedule.values[1]
    /\ accum_count = schedule.values[1]
    /\ batches = 0
    /\ training_step = 1
    /\ start = 1
    /\ ended = FALSE
    /\ processed = None
    /\ skips = 0
    /\ restarts = 0

UpdateAtThreshold(value, step) ==
    LET hits == {i \in DOMAIN schedule.steps : step = schedule.steps[i]}
        first == CHOOSE i \in hits : \A j \in hits : i <= j
    IN  IF hits # {} THEN schedule.values[first] ELSE value

(* The first threshold that step has just passed gives the value.          *)
Update(value, step) ==
    LET hits == {i \in DOMAIN schedule.steps : step = schedule.steps[i] + 1}
        first == CHOOSE i \in hits : \A j \in hits : i <= j
    IN  IF step > 1 /\ hits # {} THEN schedule.values[first] ELSE value

(* The loop on a group of size batches; the optimizer steps unless a batch *)
(* did not fit in memory.                                                  *)
Process(size, fits) ==
    /\ current_value' = Update(current_value, training_step)
    /\ training_step' = IF fits THEN training_step + 1 ELSE training_step
    /\ fits \/ skips < MaxSkips
    /\ skips' = IF fits THEN skips ELSE skips + 1
    /\ processed' = [step |-> training_step, size |-> size,
                     value |-> current_value', partial |-> size < accum_count]

Running == training_step <= MaxStep /\ ~ended

(* A batch that does not complete the group.                               *)
Collect ==
    /\ Running
    /\ batches + 1 < accum_count
    /\ batches' = batches + 1
    /\ UNCHANGED <<schedule, current_value, accum_count, training_step,
                   start, ended, processed, skips, restarts>>

(* The batch that does; the generator reads the count when it goes on.     *)
CollectLast(fits) ==
    /\ Running
    /\ batches + 1 = accum_count
    /\ Process(accum_count, fits)
    /\ accum_count' = current_value'
    /\ batches' = 0
    /\ UNCHANGED <<schedule, start, ended, restarts>>

(* The iterator ends: what has been collected is the last group.           *)
EndOfData(fits) ==
    /\ Running
    /\ batches > 0
    /\ Process(batches, fits)
    /\ ended' = TRUE
    /\ batches' = 0
    /\ UNCHANGED <<schedule, accum_count, start, restarts>>

(* The run is started again from a checkpoint: a new trainer.              *)
Restart ==
    /\ restarts < MaxRestarts
    /\ restarts' = restarts + 1
    /\ \E step \in 1 .. training_step :
            /\ step % SaveEvery = 1 \/ SaveEvery = 1
            /\ step <= MaxStep
            /\ training_step' = step
            /\ start' = step
    /\ ended' = FALSE
    /\ current_value' = schedule.values[1]
    /\ accum_count' = schedule.values[1]
    /\ batches' = 0
    /\ processed' = None
    /\ UNCHANGED <<schedule, skips>>

Finished == ~Running /\ UNCHANGED vars

Next ==
    \/ Collect
    \/ \E fits \in BOOLEAN : CollectLast(fits)
    \/ \E fits \in BOOLEAN : EndOfData(fits)
    \/ Restart
    \/ Finished

Spec == Init /\ [][Next]_vars

------------------------------------------------------------------------------
(* Properties.                                                             *)

(* The value of the last threshold that lies before a step and not before  *)
(* the given first one; the first value if there is none.  A threshold of  *)
(* 0 is no step of a run.                                                  *)
Asked(first, step) ==
    LET passed == {i \in DOMAIN schedule.steps :
                        /\ schedule.steps[i] > 0
                        /\ schedule.steps[i] \in first .. (step - 1)}
        last == CHOOSE i \in passed : \A j \in passed :
                    \/ schedule.steps[j] < schedule.steps[i]
                    \/ schedule.steps[j] = schedule.steps[i] /\ i <= j
    IN  IF passed = {} THEN schedule.values[1] ELSE schedule.values[last]

(* Every step of a run uses the value of the last threshold passed by this *)
(* run, though the change happens on a single step and steps are skipped   *)
(* and repeated.                                                           *)
RunFollowsSchedule ==
    processed # None => processed.value = Asked(start - 1, processed.step)

(* A group has as many batches as its step asks for; only the step that    *)
(* follows a threshold may still have the count of the step before, and    *)
(* only the last group may have fewer.                                     *)
GroupLagsOneStep ==
    processed # None /\ ~processed.partial
        => processed.size \in {Asked(start - 1, processed.step - 1),
                               Asked(start - 1, processed.step)}
=============================================================================
