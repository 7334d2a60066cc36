---------------------------- MODULE EarlyStopping ----------------------------
(***************************************************************************)
(* The early stopping of training: EarlyStopping is called with the        *)
(* statistics of each validation and keeps the best scores and two         *)
(* patiences, for validations worse on every scorer and for those neither  *)
(* better nor worse.                                                       *)
(*                                                                         *)
(* Statistics are a function from scorers to values; a value may be NaN,   *)
(* which compares false with everything.                                   *)
(***************************************************************************)
EXTENDS Integers, Sequences, FiniteSets

CONSTANTS
    Scorers,          \* early_stopping_scorers
    HigherIsBetter,   \* the scorers whose higher score is the better one
    Values,           \* scores that can be compared
    NaN,              \* a score that cannot
    NoScore,          \* the best score before any, plus or minus infinity
    Tolerance,        \* training.early_stopping
    MaxValidations    \* bound: how often the model is validated

StoppingAssumption ==
    /\ Scorers # {}
    /\ Values \subseteq Int
    /\ NaN \notin Int \cup {NoScore}
    /\ NoScore \notin Int
    /\ Tolerance \in Nat \ {0}
    /\ MaxValidations \in Nat

VARIABLES
    stopper,   \* the fields of the EarlyStopping object
    seen       \* the statistics it was called with before it stopped

vars == <<stopper, seen>>

Stats == [Scorers -> Values \cup {NaN}]
Scores == [Scorers -> Values \cup {NoScore}]

Stopper ==
    [status : {"improving", "decreasing", "stopped"},
     current_tolerance : 0 .. Tolerance,
     stalled_tolerance : 0 .. Tolerance,
     best : Scores,
     current_step_best : Nat]

NewStopper ==
    [status |-> "improving",
     current_tolerance |-> Tolerance,
     stalled_tolerance |-> Tolerance,
     best |-> [c \in Scorers |-> NoScore],
     current_step_best |-> 0]

TypeOK ==
    /\ stopper \in Stopper
    /\ seen \in Seq(Stats)

Init ==
    /\ stopper = NewStopper
    /\ seen = <<>>

------------------------------------------------------------------------------
Ahead(c, x, y) == IF c \in HigherIsBetter THEN x > y ELSE x < y

(* Scorer.is_improving and is_decreasing.                                  *)
IsImproving(c, score, best) ==
    NaN \notin {score, best} /\ (best = NoScore \/ Ahead(c, score, best))

IsDecreasing(c, score, best) ==
    NaN \notin {score, best} /\ best # NoScore /\ Ahead(c, best, score)

AllImproving(es, stats) ==
    \A c \in Scorers : IsImproving(c, stats[c], es.best[c])

AllDecreasing(es, stats) ==
    \A c \in Scorers : IsDecreasing(c, stats[c], es.best[c])

------------------------------------------------------------------------------
StatusWith(tolerance) == IF tolerance > 0 THEN "decreasing" ELSE "stopped"

OneToleranceReset(es, stats, step) ==
    [status |-> "improving",
     current_tolerance |-> Tolerance,
     stalled_tolerance |-> es.stalled_tolerance,
     best |-> stats,
     current_step_best |-> step]

UpdateIncreasing(es, stats, step) ==
    [status |-> "improving",
     current_tolerance |-> Tolerance,
     stalled_tolerance |-> Tolerance,
     best |-> stats,
     current_step_best |-> step]

UpdateDecreasing(es) ==
    [es EXCEPT !.current_tolerance = @ - 1,
               !.status = StatusWith(es.current_tolerance - 1)]

UpdateStalled(es) ==
    [es EXCEPT !.stalled_tolerance = @ - 1,
               !.status = StatusWith(es.stalled_tolerance - 1)]

(* The object after a call.                                                *)
Called(es, stats, step) ==
    IF es.status = "stopped" THEN es
    ELSE IF AllImproving(es, stats) THEN UpdateIncreasing(es, stats, step)
    ELSE IF AllDecreasing(es, stats) THEN UpdateDecreasing(es)
    ELSE UpdateStalled(es)

(* One validation; its step is its number.                                 *)
Validate(stats) ==
    /\ Len(seen) < MaxValidations
    /\ stopper' = Called(stopper, stats, Len(seen) + 1)
    /\ seen' = IF stopper.status = "stopped" THEN seen ELSE Append(seen, stats)

Next == \E stats \in Stats : Validate(stats)

Spec == Init /\ [][Next]_vars

------------------------------------------------------------------------------
(* Properties.                                                             *)

SinceBest == Len(seen) - stopper.current_step_best

(* current_step_best is the last of the validations whose scores are the   *)
(* best ones, and no validation was better than those on every scorer: the *)
(* step the log calls the best one is not dominated by any other.          *)
BestIsUndominated ==
    /\ stopper.current_step_best > 0
        => seen[stopper.current_step_best] = stopper.best
    /\ \A i \in 1 .. Len(seen) : ~AllImproving(stopper, seen[i])

(* Training is not stopped before Tolerance validations have gone by       *)
(* without an improvement, and never later than two patiences can make it. *)
StopIsTimely ==
    /\ stopper.status = "stopped" => SinceBest >= Tolerance
    /\ SinceBest <= 2 * Tolerance - 1

(* As long as training goes on, neither all-worse nor mixed validations    *)
(* since the best one are as many as the tolerance: the two counters are   *)
(* what __call__ documents for the validations seen.                       *)
PatienceCounts ==
    LET after == (stopper.current_step_best + 1) .. Len(seen)
        worse == {i \in after : AllDecreasing(stopper, seen[i])}
    IN  /\ Tolerance - stopper.current_tolerance = Cardinality(worse)
        /\ Tolerance - stopper.stalled_tolerance = Cardinality(after \ worse)
        /\ stopper.status = "stopped"
              <=> \/ Cardinality(worse) = Tolerance
                  \/ Cardinality(after \ worse) = Tolerance
=============================================================================
