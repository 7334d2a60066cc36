--------------------------- MODULE Training_proofs ----------------------------
(***************************************************************************)
(* The training side, for any options of the benches MCTraining and        *)
(* MCCollectives: any number of ranks, steps and patience, any schedules,  *)
(* any sizes of objects and of gradients.                                  *)
(*                                                                         *)
(* 1. Early stopping: what is left of the patiences counts validations.    *)
(* 2. Scheduled parameters: the value in force is the one the run asks for.*)
(* 3. The loop: where a rank will wait next is a function of its place and *)
(*    counters, and the same for all ranks that are bound to each other.   *)
(* 4. Checkpoints: what rank 0 has saved.                                  *)
(* 5. Gathering of objects: two bytes give the amount back, and a call     *)
(*    returns what was sent in it.                                         *)
(* 6. Reduction of gradients: ranks with the same parameters follow one    *)
(*    course of buffers, and what is reduced at a place of it is averaged. *)
(***************************************************************************)
EXTENDS MCTraining, MCCollectives, Filtering_proofs, FiniteSetTheorems, TLAPS

------------------------------------------------------------------------------
(* 1. Early stopping.                                                      *)

(* The validations that came after the best one, and the worse ones of them. *)
AfterBest == (stopper.current_step_best + 1) .. Len(seen)
Worse == {i \in AfterBest : Stopping!AllDecreasing(stopper, seen[i])}

(* The best scores are those of a validation seen, or there are none; both *)
(* patiences count what they have lost, and they never end together.       *)
BestWasSeen ==
    /\ stopper.current_step_best \in 0 .. Len(seen)
    /\ stopper.current_step_best = 0
        => stopper.best = [c \in Stops.scorers |-> NoScore]

PatiencesRemain ==
    /\ stopper.current_tolerance > 0 \/ stopper.stalled_tolerance > 0
    /\ stopper.status = "stopped"
        <=> stopper.current_tolerance = 0 \/ stopper.stalled_tolerance = 0

StoppingInv ==
    /\ Stopping!TypeOK
    /\ Stopping!PatienceCounts
    /\ Stopping!BestIsUndominated
    /\ BestWasSeen
    /\ PatiencesRemain

LEMMA StopsFacts ==
    /\ Stops.scorers # {}
    /\ Stops.values \subseteq Int
    /\ NaN \notin Int /\ NoScore \notin Int /\ NaN # NoScore
    /\ Stops.tolerance \in Nat \ {0}
    /\ Stops.max_validations \in Nat
BY BenchAssumption DEF Stopping!StoppingAssumption

(* A score better than one that is better than the best is better than it. *)
LEMMA ImprovingIsTransitive ==
    ASSUME NEW c \in Stops.scorers,
           NEW x \in Stops.values \cup {NaN}, NEW y \in Stops.values \cup {NaN},
           NEW z \in Stops.values \cup {NoScore},
           Stopping!IsImproving(c, x, y), Stopping!IsImproving(c, y, z)
    PROVE  Stopping!IsImproving(c, x, z)
BY StopsFacts DEF Stopping!IsImproving, Stopping!Ahead

(* No score is better than itself.                                         *)
LEMMA ImprovingIsStrict ==
    ASSUME NEW c \in Stops.scorers, NEW x \in Stops.values \cup {NaN}
    PROVE  ~Stopping!IsImproving(c, x, x)
BY StopsFacts DEF Stopping!IsImproving, Stopping!Ahead

(* What the two patiences have counted are finite sets.                    *)
LEMMA AfterBestIsFinite ==
    ASSUME Stopping!TypeOK
    PROVE  /\ IsFiniteSet(AfterBest) /\ IsFiniteSet(Worse)
           /\ IsFiniteSet(AfterBest \ Worse)
           /\ AfterBest \subseteq 1 .. Len(seen)
<1>1. stopper.current_step_best \in Nat /\ Len(seen) \in Nat
  BY DEF Stopping!TypeOK, Stopping!Stopper
<1>2. IsFiniteSet(AfterBest)
  BY <1>1, FS_Interval DEF AfterBest
<1>3. AfterBest \ Worse \subseteq AfterBest /\ Worse \subseteq AfterBest
  BY DEF Worse
<1>4. AfterBest \subseteq 1 .. Len(seen)
  BY <1>1 DEF AfterBest
<1> QED BY <1>2, <1>3, <1>4, FS_Subset

Counts ==
    /\ Stops.tolerance - stopper.current_tolerance = Cardinality(Worse)
    /\ Stops.tolerance - stopper.stalled_tolerance = Cardinality(AfterBest \ Worse)
    /\ stopper.status = "stopped"
          <=> \/ Cardinality(Worse) = Stops.tolerance
              \/ Cardinality(AfterBest \ Worse) = Stops.tolerance

LEMMA SameCardinality ==
    ASSUME NEW S PROVE Stopping!Cardinality(S) = Cardinality(S)
BY DEF Stopping!Cardinality, Cardinality

LEMMA CountsAre == Stopping!PatienceCounts <=> Counts
<1>1. /\ Stopping!Cardinality(Worse) = Cardinality(Worse)
      /\ Stopping!Cardinality(AfterBest \ Worse) = Cardinality(AfterBest \ Worse)
  BY SameCardinality
<1> QED BY <1>1, Zenon DEF Stopping!PatienceCounts, Counts, AfterBest, Worse

LEMMA CountsWillBe == Counts' => Stopping!PatienceCounts'
<1>1. /\ Stopping!Cardinality(Worse') = Cardinality(Worse')
      /\ Stopping!Cardinality((AfterBest \ Worse)') = Cardinality((AfterBest \ Worse)')
  BY SameCardinality
<1> QED BY <1>1, Zenon DEF Stopping!PatienceCounts, Counts, AfterBest, Worse

LEMMA StoppingInit == Stopping!Init => StoppingInv
<1> SUFFICES ASSUME Stopping!Init PROVE StoppingInv
  OBVIOUS
<1> USE StopsFacts DEF Stopping!Init, Stopping!NewStopper
<1>1. Stopping!TypeOK
  BY DEF Stopping!TypeOK, Stopping!Stopper, Stopping!Scores, Stopping!Stats
<1>2. Stopping!BestIsUndominated
  BY DEF Stopping!BestIsUndominated
<1>3. BestWasSeen /\ PatiencesRemain
  BY DEF BestWasSeen, PatiencesRemain
<1>4. Stopping!PatienceCounts
  <2>1. AfterBest = {} /\ Worse = {} /\ AfterBest \ Worse = {}
    BY DEF AfterBest, Worse
  <2>2. Cardinality(Worse) = 0 /\ Cardinality(AfterBest \ Worse) = 0
    BY <2>1, FS_EmptySet
  <2>3. Counts
    BY <2>2 DEF Counts
  <2> QED BY <2>3, CountsAre
<1> QED BY <1>1, <1>2, <1>3, <1>4 DEF StoppingInv

(* A validation better on every scorer: no validation seen dominates it.   *)
LEMMA ImprovingStep ==
    ASSUME StoppingInv, NEW stats \in Stopping!Stats,
           stopper.status # "stopped",
           Stopping!AllImproving(stopper, stats),
           stopper' = Stopping!UpdateIncreasing(stopper, stats, Len(seen) + 1),
           seen' = Append(seen, stats)
    PROVE  StoppingInv'
<1> USE StopsFacts
<1>1. /\ seen \in Seq(Stopping!Stats) /\ Len(seen) \in Nat
      /\ stopper \in Stopping!Stopper
      /\ seen' \in Seq(Stopping!Stats)
  BY DEF StoppingInv, Stopping!TypeOK
<1>2. /\ Len(seen') = Len(seen) + 1
      /\ seen'[Len(seen) + 1] = stats
      /\ \A i \in 1 .. Len(seen) : seen'[i] = seen[i]
  BY <1>1
<1>3. /\ stopper'.status = "improving" /\ stopper'.best = stats
      /\ stopper'.current_step_best = Len(seen) + 1
      /\ stopper'.current_tolerance = Stops.tolerance
      /\ stopper'.stalled_tolerance = Stops.tolerance
  BY DEF Stopping!UpdateIncreasing
<1>4. stats \in Stopping!Scores
  BY DEF Stopping!Scores, Stopping!Stats, Stopping!AllImproving,
         Stopping!IsImproving
<1>5. Stopping!TypeOK'
  BY <1>1, <1>4 DEF Stopping!TypeOK, Stopping!Stopper, Stopping!UpdateIncreasing
<1>6. BestWasSeen' /\ PatiencesRemain'
  BY <1>1, <1>2, <1>3 DEF BestWasSeen, PatiencesRemain
<1>7. Stopping!PatienceCounts'
  <2>1. AfterBest' = {} /\ Worse' = {} /\ (AfterBest \ Worse)' = {}
    BY <1>1, <1>2, <1>3 DEF AfterBest, Worse
  <2>2. Cardinality(Worse') = 0 /\ Cardinality((AfterBest \ Worse)') = 0
    BY <2>1, FS_EmptySet
  <2>3. Counts'
    BY <1>3, <2>2 DEF Counts
  <2> QED BY <2>3, CountsWillBe
<1>8. Stopping!BestIsUndominated'
  <2>1. ASSUME NEW i \in 1 .. Len(seen), Stopping!AllImproving(stopper', seen'[i])
        PROVE  FALSE
    <3>1. ASSUME NEW c \in Stops.scorers
          PROVE  Stopping!IsImproving(c, seen[i][c], stopper.best[c])
      <4>1. /\ Stopping!IsImproving(c, seen[i][c], stats[c])
            /\ Stopping!IsImproving(c, stats[c], stopper.best[c])
        BY <1>2, <1>3, <2>1 DEF Stopping!AllImproving
      <4>2. /\ seen[i][c] \in Stops.values \cup {NaN}
            /\ stats[c] \in Stops.values \cup {NaN}
            /\ stopper.best[c] \in Stops.values \cup {NoScore}
        BY <1>1 DEF Stopping!Stats, Stopping!Stopper, Stopping!Scores
      <4> QED BY <4>1, <4>2, ImprovingIsTransitive
    <3>2. Stopping!AllImproving(stopper, seen[i])
      BY <3>1 DEF Stopping!AllImproving
    <3> QED BY <3>2 DEF StoppingInv, Stopping!BestIsUndominated
  <2>2. ~Stopping!AllImproving(stopper', seen'[Len(seen) + 1])
    <3>1. PICK c \in Stops.scorers : TRUE
      OBVIOUS
    <3>2. ~Stopping!IsImproving(c, stats[c], stats[c])
      BY ImprovingIsStrict DEF Stopping!Stats
    <3> QED BY <1>2, <1>3, <3>2 DEF Stopping!AllImproving
  <2> QED BY <1>1, <1>2, <1>3, <2>1, <2>2 DEF Stopping!BestIsUndominated
<1> QED BY <1>5, <1>6, <1>7, <1>8 DEF StoppingInv

(* Any other validation leaves the best one as it is, and costs a patience.*)
LEMMA OtherStep ==
    ASSUME StoppingInv, NEW stats \in Stopping!Stats,
           stopper.status # "stopped",
           ~Stopping!AllImproving(stopper, stats),
           stopper' = IF Stopping!AllDecreasing(stopper, stats)
                      THEN Stopping!UpdateDecreasing(stopper)
                      ELSE Stopping!UpdateStalled(stopper),
           seen' = Append(seen, stats)
    PROVE  StoppingInv'
<1> USE StopsFacts
<1> DEFINE n == Len(seen) + 1
           worse == Stopping!AllDecreasing(stopper, stats)
<1>1. /\ seen \in Seq(Stopping!Stats) /\ Len(seen) \in Nat
      /\ stopper \in Stopping!Stopper
      /\ seen' \in Seq(Stopping!Stats)
      /\ stopper.current_step_best \in 0 .. Len(seen)
  BY DEF StoppingInv, Stopping!TypeOK, BestWasSeen
<1>2. /\ Len(seen') = n
      /\ seen'[n] = stats
      /\ \A i \in 1 .. Len(seen) : seen'[i] = seen[i]
  BY <1>1
<1>3. /\ stopper.current_tolerance \in 1 .. Stops.tolerance
      /\ stopper.stalled_tolerance \in 1 .. Stops.tolerance
  BY <1>1 DEF StoppingInv, PatiencesRemain, Stopping!Stopper
<1>4. /\ stopper'.best = stopper.best
      /\ stopper'.current_step_best = stopper.current_step_best
      /\ stopper'.current_tolerance =
            stopper.current_tolerance - IF worse THEN 1 ELSE 0
      /\ stopper'.stalled_tolerance =
            stopper.stalled_tolerance - IF worse THEN 0 ELSE 1
      /\ stopper'.status \in {"decreasing", "stopped"}
      /\ stopper'.status = "stopped" <=> \/ stopper'.current_tolerance = 0
                                         \/ stopper'.stalled_tolerance = 0
  BY <1>1, <1>3 DEF Stopping!Stopper, Stopping!UpdateDecreasing,
                    Stopping!UpdateStalled, Stopping!StatusWith
<1>5. stopper' \in Stopping!Stopper
  <2>1. CASE worse
    <3>1. /\ stopper.current_tolerance - 1 \in 0 .. Stops.tolerance
          /\ Stopping!StatusWith(stopper.current_tolerance - 1)
                \in {"improving", "decreasing", "stopped"}
      BY <1>3 DEF Stopping!StatusWith
    <3>2. stopper' = Stopping!UpdateDecreasing(stopper)
      BY <2>1
    <3> QED BY <1>1, <3>1, <3>2 DEF Stopping!Stopper, Stopping!UpdateDecreasing
  <2>2. CASE ~worse
    <3>1. /\ stopper.stalled_tolerance - 1 \in 0 .. Stops.tolerance
          /\ Stopping!StatusWith(stopper.stalled_tolerance - 1)
                \in {"improving", "decreasing", "stopped"}
      BY <1>3 DEF Stopping!StatusWith
    <3>2. stopper' = Stopping!UpdateStalled(stopper)
      BY <2>2
    <3> QED BY <1>1, <3>1, <3>2 DEF Stopping!Stopper, Stopping!UpdateStalled
  <2> QED BY <2>1, <2>2
<1>6. \A s : /\ Stopping!AllImproving(stopper', s) <=> Stopping!AllImproving(stopper, s)
             /\ Stopping!AllDecreasing(stopper', s) <=> Stopping!AllDecreasing(stopper, s)
  BY <1>4 DEF Stopping!AllImproving, Stopping!AllDecreasing
<1>7. BestWasSeen' /\ PatiencesRemain'
  <2>1. BestWasSeen'
    BY <1>1, <1>2, <1>4 DEF BestWasSeen, StoppingInv
  <2>2. PatiencesRemain'
    BY <1>3, <1>4 DEF PatiencesRemain
  <2> QED BY <2>1, <2>2
<1>8. Stopping!BestIsUndominated'
  BY <1>1, <1>2, <1>4, <1>6 DEF StoppingInv, Stopping!BestIsUndominated
<1>9. Stopping!PatienceCounts'
  <2>1. AfterBest' = AfterBest \cup {n} /\ n \notin AfterBest
    BY <1>1, <1>2, <1>4 DEF AfterBest
  <2>2. \A i \in AfterBest : seen'[i] = seen[i]
    BY <1>1, <1>2 DEF AfterBest
  <2>3. Worse' = IF worse THEN Worse \cup {n} ELSE Worse
    BY <1>2, <1>6, <2>1, <2>2 DEF Worse
  <2>4. (AfterBest \ Worse)' = IF worse THEN AfterBest \ Worse
                               ELSE (AfterBest \ Worse) \cup {n}
    BY <2>1, <2>3 DEF Worse
  <2>5. /\ IsFiniteSet(Worse) /\ IsFiniteSet(AfterBest \ Worse)
        /\ n \notin Worse /\ n \notin AfterBest \ Worse
    BY <2>1, AfterBestIsFinite DEF StoppingInv, Worse
  <2>6. /\ Cardinality(Worse) \in Nat
        /\ Cardinality(AfterBest \ Worse) \in Nat
        /\ Cardinality(Worse \cup {n}) = Cardinality(Worse) + 1
        /\ Cardinality((AfterBest \ Worse) \cup {n})
              = Cardinality(AfterBest \ Worse) + 1
    BY <2>5, FS_AddElement, FS_CardinalityType
  <2>7. /\ Stops.tolerance - stopper.current_tolerance = Cardinality(Worse)
        /\ Stops.tolerance - stopper.stalled_tolerance
              = Cardinality(AfterBest \ Worse)
    BY CountsAre DEF StoppingInv, Counts
  <2>8. /\ Stops.tolerance - stopper'.current_tolerance = Cardinality(Worse')
        /\ Stops.tolerance - stopper'.stalled_tolerance
              = Cardinality((AfterBest \ Worse)')
    <3>1. CASE worse
      <4>1. Worse' = Worse \cup {n} /\ (AfterBest \ Worse)' = AfterBest \ Worse
        BY <2>3, <2>4, <3>1
      <4>2. /\ stopper'.current_tolerance = stopper.current_tolerance - 1
            /\ stopper'.stalled_tolerance = stopper.stalled_tolerance
        BY <1>3, <1>4, <3>1
      <4>3. /\ Cardinality(Worse') = Cardinality(Worse) + 1
            /\ Cardinality((AfterBest \ Worse)') = Cardinality(AfterBest \ Worse)
        BY <2>6, <4>1
      <4> QED BY <1>3, <2>6, <2>7, <4>2, <4>3
    <3>2. CASE ~worse
      <4>1. Worse' = Worse /\ (AfterBest \ Worse)' = (AfterBest \ Worse) \cup {n}
        BY <2>3, <2>4, <3>2
      <4>2. /\ stopper'.current_tolerance = stopper.current_tolerance
            /\ stopper'.stalled_tolerance = stopper.stalled_tolerance - 1
        BY <1>3, <1>4, <3>2
      <4>3. /\ Cardinality(Worse') = Cardinality(Worse)
            /\ Cardinality((AfterBest \ Worse)') = Cardinality(AfterBest \ Worse) + 1
        BY <2>6, <4>1
      <4> QED BY <1>3, <2>6, <2>7, <4>2, <4>3
    <3> QED BY <3>1, <3>2
  <2>9. stopper'.status = "stopped" <=> \/ Cardinality(Worse') = Stops.tolerance
                                        \/ Cardinality((AfterBest \ Worse)') = Stops.tolerance
    BY <1>3, <1>4, <2>8
  <2>10. Counts'
    BY <2>8, <2>9 DEF Counts
  <2> QED BY <2>10, CountsWillBe
<1> QED BY <1>1, <1>5, <1>7, <1>8, <1>9 DEF StoppingInv, Stopping!TypeOK

LEMMA StoppingStep == StoppingInv /\ [Stopping!Next]_(Stopping!vars) => StoppingInv'
<1> SUFFICES ASSUME StoppingInv, [Stopping!Next]_(Stopping!vars) PROVE StoppingInv'
  OBVIOUS
<1>1. CASE UNCHANGED Stopping!vars
  <2>1. stopper' = stopper /\ seen' = seen
    BY <1>1 DEF Stopping!vars
  <2> QED BY <2>1 DEF StoppingInv, Stopping!TypeOK, Stopping!PatienceCounts,
        Stopping!BestIsUndominated, BestWasSeen, PatiencesRemain
<1>2. ASSUME NEW stats \in Stopping!Stats, Stopping!Validate(stats)
      PROVE  StoppingInv'
  <2>1. CASE stopper.status = "stopped"
    BY <1>1, <1>2, <2>1 DEF Stopping!Validate, Stopping!Called, Stopping!vars
  <2>2. CASE stopper.status # "stopped"
    <3>1. /\ stopper' = Stopping!Called(stopper, stats, Len(seen) + 1)
          /\ seen' = Append(seen, stats)
      BY <1>2, <2>2 DEF Stopping!Validate
    <3>2. CASE Stopping!AllImproving(stopper, stats)
      BY <2>2, <3>1, <3>2, ImprovingStep DEF Stopping!Called
    <3>3. CASE ~Stopping!AllImproving(stopper, stats)
      BY <2>2, <3>1, <3>3, OtherStep DEF Stopping!Called
    <3> QED BY <3>2, <3>3
  <2> QED BY <2>1, <2>2
<1> QED BY <1>1, <1>2 DEF Stopping!Next

(* The validations since the best one are those the patiences counted.     *)
LEMMA StopIsTimelyFollows == StoppingInv => Stopping!StopIsTimely
<1> SUFFICES ASSUME StoppingInv PROVE Stopping!StopIsTimely
  OBVIOUS
<1> USE StopsFacts
<1>1. /\ Len(seen) \in Nat /\ stopper \in Stopping!Stopper
      /\ stopper.current_step_best \in 0 .. Len(seen)
  BY DEF StoppingInv, Stopping!TypeOK, BestWasSeen
<1>2. /\ stopper.current_tolerance \in 0 .. Stops.tolerance
      /\ stopper.stalled_tolerance \in 0 .. Stops.tolerance
  BY <1>1 DEF Stopping!Stopper
<1>3. Cardinality(AfterBest) = Len(seen) - stopper.current_step_best
  BY <1>1, FS_Interval DEF AfterBest
<1>4. Cardinality(AfterBest)
        = Cardinality(Worse) + Cardinality(AfterBest \ Worse)
  <2>1. IsFiniteSet(Worse) /\ IsFiniteSet(AfterBest \ Worse)
    BY AfterBestIsFinite DEF StoppingInv
  <2>2. AfterBest = Worse \cup (AfterBest \ Worse) /\ Worse \cap (AfterBest \ Worse) = {}
    BY DEF Worse
  <2>3. Cardinality(Worse) \in Nat /\ Cardinality(AfterBest \ Worse) \in Nat
    BY <2>1, FS_CardinalityType
  <2>4. Cardinality(Worse \cup (AfterBest \ Worse))
          = Cardinality(Worse) + Cardinality(AfterBest \ Worse)
              - Cardinality(Worse \cap (AfterBest \ Worse))
    BY <2>1, FS_Union
  <2>5. Cardinality(Worse \cap (AfterBest \ Worse)) = 0
    BY <2>2, FS_EmptySet
  <2>6. Cardinality(AfterBest) = Cardinality(Worse \cup (AfterBest \ Worse))
    BY <2>2
  <2> QED BY <2>3, <2>4, <2>5, <2>6
<1>5. /\ Stops.tolerance - stopper.current_tolerance = Cardinality(Worse)
      /\ Stops.tolerance - stopper.stalled_tolerance
            = Cardinality(AfterBest \ Worse)
  BY CountsAre DEF StoppingInv, Counts
<1>6. /\ Stopping!SinceBest = 2 * Stops.tolerance - stopper.current_tolerance
                                                - stopper.stalled_tolerance
      /\ Stopping!SinceBest \in Int
  BY <1>1, <1>2, <1>3, <1>4, <1>5 DEF Stopping!SinceBest
<1>7. PatiencesRemain
  BY DEF StoppingInv
<1> QED BY <1>2, <1>6, <1>7 DEF PatiencesRemain, Stopping!StopIsTimely

StoppingPart == running = "stopping" => StoppingInv

LEMMA StoppingPartInit == BenchInit => StoppingPart
BY BenchAssumption, StoppingInit DEF BenchInit, StoppingPart

LEMMA StoppingPartStep == StoppingPart /\ [BenchNext]_benchVars => StoppingPart'
<1> SUFFICES ASSUME StoppingPart, [BenchNext]_benchVars, running' = "stopping"
             PROVE  StoppingInv'
  BY DEF StoppingPart
<1>1. CASE Stopping!Next /\ running = "stopping"
  BY <1>1, StoppingStep DEF StoppingPart
<1>2. CASE UNCHANGED benchVars
  BY <1>2, StoppingStep DEF StoppingPart, benchVars, Stopping!vars
<1> QED BY <1>1, <1>2, BenchAssumption
        DEF BenchNext, TrainingNext, Loop, StoppingNext, ValidationsAreOver,
            SchedulingNext

(* EarlyStopping stops the training neither before a patience is used up   *)
(* nor after both could be; its two patiences are the numbers of worse and *)
(* of mixed validations since the best one, which none dominates.          *)
THEOREM StoppingTimely == BenchSpec => []StoppingIsTimely
<1>1. StoppingPart => StoppingIsTimely
  BY StopIsTimelyFollows DEF StoppingPart, StoppingInv, StoppingIsTimely
<1> QED BY <1>1, StoppingPartInit, StoppingPartStep, PTL DEF BenchSpec

------------------------------------------------------------------------------
(* 2. Scheduled parameters.                                                *)

LEMMA PlansFacts ==
    /\ \A s \in Plans.schedules : /\ s.values \in Seq(Nat \ {0})
                                  /\ s.steps \in Seq(Nat)
                                  /\ Len(s.values) = Len(s.steps)
                                  /\ Len(s.values) > 0
    /\ Plans.max_step \in Nat \ {0} /\ Plans.save_every \in Nat \ {0}
    /\ Plans.max_skips \in Nat /\ Plans.max_restarts \in Nat
BY BenchAssumption DEF Scheduling!SchedulesAssumption

(* The thresholds that n has just passed.                               *)
Hits(n) == {i \in DOMAIN schedule.steps : n = schedule.steps[i] + 1}

(* Those passed since first.                                               *)
PassedSince(first, n) ==
    {i \in DOMAIN schedule.steps : /\ schedule.steps[i] > 0
                                   /\ schedule.steps[i] \in first .. (n - 1)}

First(S) == CHOOSE i \in S : \A j \in S : i <= j

Latest(S) == CHOOSE i \in S : \A j \in S :
                 \/ schedule.steps[j] < schedule.steps[i]
                 \/ schedule.steps[j] = schedule.steps[i] /\ i <= j

LEMMA UpdateIs ==
    ASSUME NEW value, NEW n
    PROVE  Scheduling!Update(value, n) =
              IF n > 1 /\ Hits(n) # {} THEN schedule.values[First(Hits(n))]
              ELSE value
BY DEF Scheduling!Update, Hits, First

LEMMA AskedIs ==
    ASSUME NEW first, NEW n
    PROVE  Scheduling!Asked(first, n) =
              IF PassedSince(first, n) = {} THEN schedule.values[1]
              ELSE schedule.values[Latest(PassedSince(first, n))]
BY DEF Scheduling!Asked, PassedSince, Latest

(* The first of some thresholds.                                           *)
LEMMA FirstIs ==
    ASSUME NEW S \in SUBSET Nat, S # {}
    PROVE  First(S) \in S /\ \A j \in S : First(S) <= j
<1>1. \E i \in S : \A j \in S : i <= j
  BY LeastNumber
<1> QED BY <1>1 DEF First

(* The value of a step is that of the step before, updated; and an update  *)
(* that is repeated changes nothing.                                       *)
LEMMA AskedStep ==
    ASSUME schedule \in Plans.schedules,
           NEW first \in Nat, NEW n \in Nat \ {0}, first < n,
           NEW value \in {Scheduling!Asked(first, n - 1), Scheduling!Asked(first, n)}
    PROVE  Scheduling!Update(value, n) = Scheduling!Asked(first, n)
<1> USE PlansFacts
<1>1. /\ schedule.steps \in Seq(Nat) /\ DOMAIN schedule.steps \subseteq Nat
      /\ \A i \in DOMAIN schedule.steps : schedule.steps[i] \in Nat
  OBVIOUS
<1>2. CASE n > 1 /\ Hits(n) # {}
  <2> DEFINE h == First(Hits(n))
  <2>1. /\ h \in DOMAIN schedule.steps /\ schedule.steps[h] = n - 1
        /\ \A j \in DOMAIN schedule.steps : n = schedule.steps[j] + 1 => h <= j
    <3>1. Hits(n) \in SUBSET Nat
      BY <1>1 DEF Hits
    <3>2. h \in Hits(n) /\ \A j \in Hits(n) : h <= j
      BY <1>2, <3>1, FirstIs
    <3> HIDE DEF h
    <3> QED BY <1>1, <3>2 DEF Hits
  <2> HIDE DEF h
  <2>2. h \in PassedSince(first, n)
    BY <1>1, <1>2, <2>1 DEF PassedSince
  <2>3. \A j \in PassedSince(first, n) :
            \/ schedule.steps[j] < schedule.steps[h]
            \/ schedule.steps[j] = schedule.steps[h] /\ h <= j
    BY <1>1, <2>1 DEF PassedSince
  <2>4. ASSUME NEW i \in PassedSince(first, n),
               \A j \in PassedSince(first, n) :
                   \/ schedule.steps[j] < schedule.steps[i]
                   \/ schedule.steps[j] = schedule.steps[i] /\ i <= j
        PROVE  i = h
    <3>1. /\ i \in Nat /\ h \in Nat
          /\ schedule.steps[i] \in Nat /\ schedule.steps[h] \in Nat
      BY <1>1, <2>2 DEF PassedSince
    <3>2. \/ schedule.steps[h] < schedule.steps[i]
          \/ schedule.steps[h] = schedule.steps[i] /\ i <= h
      BY <2>2, <2>4
    <3>3. \/ schedule.steps[i] < schedule.steps[h]
          \/ schedule.steps[i] = schedule.steps[h] /\ h <= i
      BY <2>3
    <3> QED BY <3>1, <3>2, <3>3
  <2>5. Latest(PassedSince(first, n)) = h
    BY <2>2, <2>3, <2>4 DEF Latest
  <2>6. h = First(Hits(n))
    BY DEF h
  <2> QED BY <1>2, <2>2, <2>5, <2>6, UpdateIs, AskedIs
<1>3. CASE ~(n > 1 /\ Hits(n) # {})
  <2>1. PassedSince(first, n) = PassedSince(first, n - 1)
    BY <1>1, <1>3 DEF PassedSince, Hits
  <2>2. Scheduling!Asked(first, n) = Scheduling!Asked(first, n - 1)
    BY <2>1, AskedIs
  <2> QED BY <1>3, <2>2, UpdateIs
<1> QED BY <1>2, <1>3

(* A run that starts asks for the first value.                             *)
LEMMA AskedAtStart ==
    ASSUME schedule \in Plans.schedules, NEW first \in Nat
    PROVE  Scheduling!Asked(first, first) = schedule.values[1]
<1>1. PassedSince(first, first) = {}
  BY DEF PassedSince
<1> QED BY <1>1, AskedIs

(* An update gives a value of the schedule.                                *)
LEMMA UpdateType ==
    ASSUME schedule \in Plans.schedules,
           NEW value \in Nat \ {0}, NEW n
    PROVE  Scheduling!Update(value, n) \in Nat \ {0}
<1>1. CASE Hits(n) # {}
  <2>1. /\ schedule.values \in Seq(Nat \ {0}) /\ schedule.steps \in Seq(Nat)
        /\ Len(schedule.values) = Len(schedule.steps)
    BY PlansFacts
  <2>2. Hits(n) \in SUBSET Nat
    BY <2>1 DEF Hits
  <2>3. First(Hits(n)) \in Hits(n)
    BY <1>1, <2>2, FirstIs
  <2>4. First(Hits(n)) \in DOMAIN schedule.values
    BY <2>1, <2>3 DEF Hits
  <2>5. schedule.values[First(Hits(n))] \in Nat \ {0}
    BY <2>1, <2>4
  <2> QED BY <2>5, UpdateIs
<1>2. CASE Hits(n) = {}
  BY <1>2, UpdateIs
<1> QED BY <1>1, <1>2

------------------------------------------------------------------------------
(* The value in force is that of this step or of the one before; while the *)
(* run goes on the generator collects to the value in force.               *)
ValueInForce ==
    /\ start <= training_step
    /\ current_value \in {Scheduling!Asked(start - 1, training_step - 1),
                          Scheduling!Asked(start - 1, training_step)}
    /\ ~ended => accum_count = current_value

SchedulingInv ==
    /\ Scheduling!TypeOK
    /\ Scheduling!RunFollowsSchedule
    /\ Scheduling!GroupLagsOneStep
    /\ ValueInForce

LEMMA FirstValue ==
    ASSUME schedule \in Plans.schedules PROVE schedule.values[1] \in Nat \ {0}
BY PlansFacts

LEMMA SchedulingInit == Scheduling!Init => SchedulingInv
<1> SUFFICES ASSUME Scheduling!Init PROVE SchedulingInv
  OBVIOUS
<1> USE PlansFacts DEF Scheduling!Init
<1>1. Scheduling!TypeOK
  <2>1. schedule.values[1] \in Nat \ {0}
    BY FirstValue
  <2>2. /\ current_value \in Nat \ {0} /\ accum_count \in Nat \ {0}
        /\ 0 \in 0 .. (accum_count - 1)
    BY <2>1
  <2>3. /\ 1 \in 1 .. (Plans.max_step + 1) /\ 1 \in 1 .. Plans.max_step
        /\ 0 \in 0 .. Plans.max_skips /\ 0 \in 0 .. Plans.max_restarts
    OBVIOUS
  <2>4. processed \in [step : Nat, size : Nat, value : Nat, partial : BOOLEAN]
    BY DEF Scheduling!None
  <2> QED BY <2>2, <2>3, <2>4 DEF Scheduling!TypeOK
<1>2. Scheduling!RunFollowsSchedule /\ Scheduling!GroupLagsOneStep
  BY DEF Scheduling!RunFollowsSchedule, Scheduling!GroupLagsOneStep
<1>3. ValueInForce
  <2>1. Scheduling!Asked(0, 0) = schedule.values[1]
    BY AskedAtStart
  <2> QED BY <2>1 DEF ValueInForce
<1> QED BY <1>1, <1>2, <1>3 DEF SchedulingInv

(* The schedule does not change, so that its values stay the same.         *)
LEMMA AskedStays ==
    ASSUME schedule' = schedule, NEW first, NEW n
    PROVE  Scheduling!Asked(first, n)' = Scheduling!Asked(first, n)
BY DEF Scheduling!Asked

(* A group is processed: its value is the one asked for, the count it was  *)
(* collected to is at most one step behind.                                *)
LEMMA ProcessStep ==
    ASSUME SchedulingInv, NEW amount \in 1 .. accum_count, NEW fits \in BOOLEAN,
           ~ended, training_step <= Plans.max_step,
           Scheduling!Process(amount, fits),
           schedule' = schedule, start' = start, restarts' = restarts,
           batches' = 0, ended' \in BOOLEAN,
           \/ ended' /\ accum_count' = accum_count /\ amount < accum_count
           \/ accum_count' = current_value'
    PROVE  SchedulingInv'
<1> USE PlansFacts
<1>1. /\ schedule \in Plans.schedules
      /\ current_value \in Nat \ {0} /\ accum_count \in Nat \ {0}
      /\ training_step \in 1 .. (Plans.max_step + 1)
      /\ start \in 1 .. Plans.max_step /\ start <= training_step
      /\ skips \in 0 .. Plans.max_skips
      /\ restarts \in 0 .. Plans.max_restarts
      /\ accum_count = current_value
  BY DEF SchedulingInv, Scheduling!TypeOK, ValueInForce
<1>2. /\ current_value' = Scheduling!Update(current_value, training_step)
      /\ training_step' = IF fits THEN training_step + 1 ELSE training_step
      /\ fits \/ skips < Plans.max_skips
      /\ skips' = IF fits THEN skips ELSE skips + 1
      /\ processed' = [step |-> training_step, size |-> amount,
                       value |-> current_value', partial |-> amount < accum_count]
  BY DEF Scheduling!Process
<1>3. current_value' = Scheduling!Asked(start - 1, training_step)
  BY <1>1, <1>2, AskedStep DEF SchedulingInv, ValueInForce
<1>4. current_value' \in Nat \ {0}
  BY <1>1, <1>2, UpdateType
<1>5. Scheduling!TypeOK'
  BY <1>1, <1>2, <1>4 DEF Scheduling!TypeOK
<1>6. ValueInForce'
  <2>1. current_value' \in {Scheduling!Asked(start - 1, training_step' - 1),
                            Scheduling!Asked(start - 1, training_step')}
    BY <1>1, <1>2, <1>3
  <2>2. /\ Scheduling!Asked(start - 1, training_step - 1)'
              = Scheduling!Asked(start - 1, training_step' - 1)
        /\ Scheduling!Asked(start - 1, training_step)'
              = Scheduling!Asked(start - 1, training_step')
    BY AskedStays
  <2>3. start' <= training_step'
    BY <1>1, <1>2
  <2>4. ~ended' => accum_count' = current_value'
    OBVIOUS
  <2> QED BY <2>1, <2>2, <2>3, <2>4 DEF ValueInForce
<1>7. Scheduling!RunFollowsSchedule'
  BY <1>2, <1>3, AskedStays DEF Scheduling!RunFollowsSchedule
<1>8. Scheduling!GroupLagsOneStep'
  <2>1. ~processed'.partial => processed'.size = accum_count
    <3>1. processed'.size = amount /\ processed'.partial = (amount < accum_count)
      BY <1>2
    <3>2. ~processed'.partial => ~(amount < accum_count)
      BY <3>1, Zenon
    <3>3. ~(amount < accum_count) => amount = accum_count
      BY <1>1
    <3> QED BY <3>1, <3>2, <3>3
  <2>2. accum_count \in {Scheduling!Asked(start - 1, training_step - 1),
                         Scheduling!Asked(start - 1, training_step)}
    BY <1>1 DEF SchedulingInv, ValueInForce
  <2>3. processed'.step = training_step
    BY <1>2
  <2>4. /\ Scheduling!Asked(start' - 1, processed'.step - 1)
              = Scheduling!Asked(start - 1, training_step - 1)
        /\ Scheduling!Asked(start' - 1, processed'.step)
              = Scheduling!Asked(start - 1, training_step)
    BY <2>3
  <2>5. /\ Scheduling!Asked(start - 1, processed.step - 1)'
              = Scheduling!Asked(start' - 1, processed'.step - 1)
        /\ Scheduling!Asked(start - 1, processed.step)'
              = Scheduling!Asked(start' - 1, processed'.step)
    BY AskedStays
  <2> QED BY <2>1, <2>2, <2>4, <2>5 DEF Scheduling!GroupLagsOneStep
<1> QED BY <1>5, <1>6, <1>7, <1>8 DEF SchedulingInv

LEMMA CollectStep == SchedulingInv /\ Scheduling!Collect => SchedulingInv'
<1> SUFFICES ASSUME SchedulingInv, Scheduling!Collect PROVE SchedulingInv'
  OBVIOUS
<1> USE DEF SchedulingInv, Scheduling!Collect
<1>1. Scheduling!TypeOK'
  BY DEF Scheduling!TypeOK
<1>2. Scheduling!RunFollowsSchedule' /\ Scheduling!GroupLagsOneStep'
  BY DEF Scheduling!RunFollowsSchedule, Scheduling!GroupLagsOneStep,
         Scheduling!None, Scheduling!Asked
<1>3. ValueInForce'
  BY DEF ValueInForce, Scheduling!Asked
<1> QED BY <1>1, <1>2, <1>3

(* A resumed run starts with the first value, and asks for no other before *)
(* it has passed a threshold itself.                                       *)
LEMMA RestartStep == SchedulingInv /\ Scheduling!Restart => SchedulingInv'
<1> SUFFICES ASSUME SchedulingInv, Scheduling!Restart PROVE SchedulingInv'
  OBVIOUS
<1> USE PlansFacts
<1>1. PICK n \in 1 .. training_step :
            /\ n <= Plans.max_step
            /\ training_step' = n
            /\ start' = n
  BY DEF Scheduling!Restart
<1>2. /\ schedule \in Plans.schedules /\ schedule' = schedule
      /\ training_step \in 1 .. (Plans.max_step + 1)
      /\ skips \in 0 .. Plans.max_skips /\ skips' = skips
      /\ restarts \in 0 .. Plans.max_restarts
      /\ restarts' = restarts + 1 /\ restarts < Plans.max_restarts
      /\ ended' = FALSE
      /\ current_value' = schedule.values[1]
      /\ accum_count' = schedule.values[1]
      /\ batches' = 0
      /\ processed' = Scheduling!None
  BY DEF SchedulingInv, Scheduling!TypeOK, Scheduling!Restart
<1>3. Scheduling!TypeOK'
  <2>1. schedule.values[1] \in Nat \ {0}
    BY <1>2, FirstValue
  <2>2. /\ current_value' \in Nat \ {0} /\ accum_count' \in Nat \ {0}
        /\ batches' \in 0 .. (accum_count' - 1)
    BY <1>2, <2>1
  <2>3. /\ training_step' \in 1 .. (Plans.max_step + 1)
        /\ start' \in 1 .. Plans.max_step
        /\ restarts' \in 0 .. Plans.max_restarts
    BY <1>1, <1>2
  <2>4. processed' \in [step : Nat, size : Nat, value : Nat, partial : BOOLEAN]
    BY <1>2 DEF Scheduling!None
  <2> QED BY <1>2, <2>2, <2>3, <2>4 DEF Scheduling!TypeOK
<1>4. Scheduling!RunFollowsSchedule' /\ Scheduling!GroupLagsOneStep'
  BY <1>2 DEF Scheduling!RunFollowsSchedule, Scheduling!GroupLagsOneStep, Scheduling!None
<1>5. ValueInForce'
  <2>1. Scheduling!Asked(start' - 1, training_step' - 1) = schedule.values[1]
    BY <1>1, <1>2, AskedAtStart
  <2>2. Scheduling!Asked(start - 1, training_step - 1)'
          = Scheduling!Asked(start' - 1, training_step' - 1)
    BY <1>2, AskedStays
  <2> QED BY <1>1, <1>2, <2>1, <2>2 DEF ValueInForce
<1> QED BY <1>3, <1>4, <1>5 DEF SchedulingInv

LEMMA SchedulingStep ==
    SchedulingInv /\ [Scheduling!Next]_(Scheduling!vars) => SchedulingInv'
<1> SUFFICES ASSUME SchedulingInv, [Scheduling!Next]_(Scheduling!vars)
             PROVE  SchedulingInv'
  OBVIOUS
<1>1. ASSUME NEW fits \in BOOLEAN, Scheduling!CollectLast(fits)
      PROVE  SchedulingInv'
  <2>1. accum_count \in 1 .. accum_count
    BY DEF SchedulingInv, Scheduling!TypeOK
  <2>2. ended \in BOOLEAN
    BY DEF SchedulingInv, Scheduling!TypeOK
  <2> QED BY <1>1, <2>1, <2>2, ProcessStep DEF Scheduling!CollectLast, Scheduling!Running
<1>2. ASSUME NEW fits \in BOOLEAN, Scheduling!EndOfData(fits)
      PROVE  SchedulingInv'
  <2>1. batches \in 1 .. accum_count /\ batches < accum_count
    BY <1>2 DEF SchedulingInv, Scheduling!TypeOK, Scheduling!EndOfData
  <2> QED BY <1>2, <2>1, ProcessStep DEF Scheduling!EndOfData, Scheduling!Running
<1>3. CASE UNCHANGED Scheduling!vars
  <2> USE <1>3 DEF Scheduling!vars, SchedulingInv
  <2>1. Scheduling!TypeOK'
    BY DEF Scheduling!TypeOK
  <2>2. Scheduling!RunFollowsSchedule' /\ Scheduling!GroupLagsOneStep'
    BY DEF Scheduling!RunFollowsSchedule, Scheduling!GroupLagsOneStep,
           Scheduling!None, Scheduling!Asked
  <2>3. ValueInForce'
    BY DEF ValueInForce, Scheduling!Asked
  <2> QED BY <2>1, <2>2, <2>3
<1> QED BY <1>1, <1>2, <1>3, CollectStep, RestartStep
        DEF Scheduling!Next, Scheduling!Finished

SchedulingPart == running = "schedule" => SchedulingInv

LEMMA SchedulingPartInit == BenchInit => SchedulingPart
BY BenchAssumption, SchedulingInit DEF BenchInit, SchedulingPart

LEMMA SchedulingPartStep == SchedulingPart /\ [BenchNext]_benchVars => SchedulingPart'
<1> SUFFICES ASSUME SchedulingPart, [BenchNext]_benchVars, running' = "schedule"
             PROVE  SchedulingInv'
  BY DEF SchedulingPart
<1>1. CASE Scheduling!Next /\ running = "schedule"
  BY <1>1, SchedulingStep DEF SchedulingPart
<1>2. CASE UNCHANGED benchVars
  BY <1>2, SchedulingStep DEF SchedulingPart, benchVars, schedules, Scheduling!vars
<1> QED BY <1>1, <1>2, BenchAssumption
        DEF BenchNext, TrainingNext, Loop, StoppingNext, ValidationsAreOver,
            SchedulingNext

(* Every step of a run has the value of the last threshold the run has     *)
(* passed, for any schedule, sorted or not, whatever groups are skipped    *)
(* and wherever the run was resumed; a group is at most one step behind.   *)
THEOREM SchedulesFollowed == BenchSpec => []SchedulesAreFollowed
<1>1. SchedulingPart => SchedulesAreFollowed
  BY DEF SchedulingPart, SchedulingInv, SchedulesAreFollowed
<1> QED BY <1>1, SchedulingPartInit, SchedulingPartStep, PTL DEF BenchSpec

------------------------------------------------------------------------------
(* 3. The loop.                                                            *)

LEMMA LoopFacts ==
    ASSUME NEW p \in DOMAIN Loops
    PROVE  /\ Loops[p].n \in Nat \ {0}
           /\ Loops[p].data_parallel \in BOOLEAN
           /\ Loops[p].supplies \subseteq [Training(p)!Ranks -> Nat]
           /\ Loops[p].start_step \in Nat \ {0}
           /\ Loops[p].train_steps \in Nat
           /\ Loops[p].valid_steps \in Nat \ {0}
           /\ Loops[p].save_every \in Nat \ {0}
           /\ Loops[p].report_every \in Nat \ {0}
           /\ Loops[p].early_stop \in BOOLEAN
           /\ Loops[p].slow_validation \in BOOLEAN
           /\ Loops[p].max_oom \in Nat /\ Loops[p].max_errors \in Nat
           /\ Loops[p].tolerance \in Nat \ {0}
           /\ 0 \in Training(p)!Ranks
<1>1. Training(p)!TrainingAssumption
  BY BenchAssumption
<1> QED BY <1>1 DEF Training!TrainingAssumption, Training!Ranks

(* The early stopping object of a run: while training goes on there is     *)
(* something left of both patiences.                                       *)
StopperOK(p) ==
    /\ stopper \in Training(p)!Stopping!Stopper
    /\ stopper.status # "stopped"
        => stopper.current_tolerance > 0 /\ stopper.stalled_tolerance > 0

LEMMA JudgeKeepsStopper ==
    ASSUME NEW p \in DOMAIN Loops, StopperOK(p), NEW k \in Nat,
           NEW stats \in Training(p)!Stopping!Stats,
           stopper' = Training(p)!Stopping!Called(stopper, stats, k)
    PROVE  StopperOK(p)'
<1> USE LoopFacts DEF StopperOK, Training!Stopping!Called
<1>1. CASE stopper.status = "stopped"
  BY <1>1
<1>2. CASE /\ stopper.status # "stopped"
           /\ Training(p)!Stopping!AllImproving(stopper, stats)
  <2>1. stats \in Training(p)!Stopping!Scores
    BY <1>2 DEF Training!Stopping!Scores, Training!Stopping!Stats,
                Training!Stopping!AllImproving, Training!Stopping!IsImproving
  <2> QED BY <1>2, <2>1 DEF Training!Stopping!Stopper,
                            Training!Stopping!UpdateIncreasing
<1>3. CASE /\ stopper.status # "stopped"
           /\ ~Training(p)!Stopping!AllImproving(stopper, stats)
  <2> DEFINE lost == stopper.current_tolerance - 1
             stalled == stopper.stalled_tolerance - 1
  <2>1. /\ lost \in 0 .. Loops[p].tolerance
        /\ stalled \in 0 .. Loops[p].tolerance
        /\ Training(p)!Stopping!StatusWith(lost) \in {"decreasing", "stopped"}
        /\ Training(p)!Stopping!StatusWith(stalled) \in {"decreasing", "stopped"}
        /\ Training(p)!Stopping!StatusWith(lost) # "stopped" => lost > 0
        /\ Training(p)!Stopping!StatusWith(stalled) # "stopped" => stalled > 0
    BY <1>3 DEF Training!Stopping!Stopper, Training!Stopping!StatusWith
  <2>2. CASE Training(p)!Stopping!AllDecreasing(stopper, stats)
    BY <1>3, <2>1, <2>2 DEF Training!Stopping!Stopper,
                            Training!Stopping!UpdateDecreasing
  <2>3. CASE ~Training(p)!Stopping!AllDecreasing(stopper, stats)
    BY <1>3, <2>1, <2>3 DEF Training!Stopping!Stopper,
                            Training!Stopping!UpdateStalled
  <2> QED BY <2>2, <2>3
<1> QED BY <1>1, <1>2, <1>3

------------------------------------------------------------------------------
(* Where a rank will wait next, if nothing fails: what decides it is its   *)
(* place, its step and the steps saved.                                    *)
There(label, s, last) == [at |-> label, step |-> s, last |-> last]

SaveLabel(p) == IF Loops[p].data_parallel THEN "barrier" ELSE "state"

FromLastSave(p, s, ls) ==
    There(IF s = ls THEN "exit" ELSE SaveLabel(p), s, 1)

FromNext(p, ts) ==
    There(IF Loops[p].data_parallel THEN "norm" ELSE "forward", ts, 0)

FromMore(p, s, ts, ls) ==
    IF Loops[p].train_steps > 0 /\ s >= Loops[p].train_steps
    THEN FromLastSave(p, s, ls)
    ELSE FromNext(p, ts)

FromSave(p, s, ts, ls) ==
    IF s = ls THEN FromMore(p, s, ts, ls) ELSE There(SaveLabel(p), s, 0)

FromCheckpoint(p, s, ts, ls) ==
    IF s % Loops[p].save_every = 0 THEN FromSave(p, s, ts, ls)
    ELSE FromMore(p, s, ts, ls)

FromValidate(p, s, ts, ls) ==
    IF s % Loops[p].valid_steps # 0 \/ Loops[p].data_parallel
    THEN FromCheckpoint(p, s, ts, ls)
    ELSE There("valid_forward", s, 0)

FromReport(p, s, ts, ls) ==
    IF Loops[p].data_parallel /\ Loops[p].n > 1 /\ s % Loops[p].report_every = 0
    THEN There("stats", s, 0)
    ELSE FromValidate(p, s, ts, ls)

From(p, label, last, s, ts, ls) ==
    CASE label = "next" -> FromNext(p, ts)
      [] label = "compute" ->
            There(IF Loops[p].data_parallel THEN "oom" ELSE "forward", s, last)
      [] label = "report" -> FromReport(p, s, ts, ls)
      [] label = "validate" -> FromValidate(p, s, ts, ls)
      [] label \in {"judge", "checkpoint"} -> FromCheckpoint(p, s, ts, ls)
      [] label = "save" -> IF last = 1 THEN FromLastSave(p, s, ls)
                           ELSE FromSave(p, s, ts, ls)
      [] label = "write" -> There("barrier", s, last)
      [] label = "more" -> FromMore(p, s, ts, ls)
      [] OTHER -> There(label, s, last)

HasLeft(r) == IF r \in final THEN 1 ELSE 0

Dest(p, r) == From(p, at[r], HasLeft(r), step[r], training_step[r],
                   last_saved_step[r])

------------------------------------------------------------------------------
Loose == {"gone", "aborted"}

(* A rank that goes on alone: it and the others will wait where they would *)
(* have waited before.                                                     *)
GoesOn(p, r) ==
    /\ at[r] \in Training(p)!Working
    /\ at'[r] \in Training(p)!Working \cup Training(p)!Waiting
    /\ \A q \in Training(p)!Ranks \ {r} : at'[q] = at[q]
    /\ \A q \in Training(p)!Ranks : Dest(p, q)' = Dest(p, q)
    /\ UNCHANGED <<training_step, updates, last_saved_step, errors>>
    /\ stopper'.status = "stopped" <=> stopper.status = "stopped"

(* A rank that fails alone.                                                *)
Fails(p, r) ==
    /\ \A q \in Training(p)!Ranks \ {r} : at'[q] = at[q] /\ Dest(p, q)' = Dest(p, q)
    /\ UNCHANGED <<training_step, updates, last_saved_step, stopper>>
    /\ errors \subseteq errors' /\ errors' \subseteq errors \cup {r}
    /\ \/ at'[r] = "gone" /\ errors' = errors
       \/ /\ at'[r] = "aborted" /\ errors' = errors
          /\ at[r] \in Training(p)!Waiting /\ Training(p)!Kept(r)
       \/ at'[r] = "exit" /\ errors' # {}

Steady(p) ==
    /\ Training(p)!TypeOK
    /\ StopperOK(p)
    /\ \A r \in final : at[r] \in {"save", "state", "write", "barrier", "exit"}
                                     \cup Training(p)!Over
    /\ stopper.status = "stopped" => 0 \in final
    /\ parent = "raised" => errors # {}

(* What another rank does leaves a rank's way as it is.                    *)
LEMMA OthersStay ==
    ASSUME NEW p \in DOMAIN Loops, Training(p)!TypeOK,
           NEW r \in Training(p)!Ranks, NEW label,
           at' = [at EXCEPT ![r] = label],
           \A q \in Training(p)!Ranks \ {r} :
               step'[q] = step[q] /\ (q \in final' <=> q \in final),
           UNCHANGED <<training_step, last_saved_step>>
    PROVE  \A q \in Training(p)!Ranks \ {r} : at'[q] = at[q] /\ Dest(p, q)' = Dest(p, q)
<1> SUFFICES ASSUME NEW q \in Training(p)!Ranks \ {r}
             PROVE  at'[q] = at[q] /\ Dest(p, q)' = Dest(p, q)
  OBVIOUS
<1>1. at'[q] = at[q]
  BY DEF Training!TypeOK
<1>2. HasLeft(q)' = HasLeft(q)
  BY DEF HasLeft
<1> QED BY <1>1, <1>2 DEF Dest

(* The steps of a rank that change only its place.                         *)
LEMMA FetchGoesOn ==
    ASSUME NEW p \in DOMAIN Loops, Steady(p), NEW r \in Training(p)!Ranks,
           Training(p)!Fetch(r)
    PROVE  GoesOn(p, r)
<1> USE LoopFacts
<1>1. /\ at[r] = "next"
      /\ step' = [step EXCEPT ![r] = training_step[r]]
      /\ at' = [at EXCEPT ![r] = IF Loops[p].data_parallel THEN "norm" ELSE "compute"]
      /\ UNCHANGED <<final, training_step, updates, last_saved_step, stopper, errors>>
      /\ at \in [Training(p)!Ranks -> Training(p)!Waiting \cup Training(p)!Working
                                       \cup Training(p)!Over]
      /\ step \in [Training(p)!Ranks -> Nat]
  BY DEF Steady, Training!TypeOK, Training!Fetch, Training!Goto, Training!model, Training!disk
<1>2. r \notin final
  BY <1>1 DEF Steady, Training!Over
<1>3. \A q \in Training(p)!Ranks \ {r} : at'[q] = at[q] /\ Dest(p, q)' = Dest(p, q)
  BY <1>1, OthersStay DEF Steady
<1>4. /\ at'[r] = IF Loops[p].data_parallel THEN "norm" ELSE "compute"
      /\ step'[r] = training_step[r]
  BY <1>1
<1>5. Dest(p, r)' = Dest(p, r)
  <2>1. Dest(p, r) = There(IF Loops[p].data_parallel THEN "norm" ELSE "forward",
                           training_step[r], 0)
    BY <1>1 DEF Dest, From, FromNext
  <2>2. Dest(p, r)' = There(IF Loops[p].data_parallel THEN "norm" ELSE "forward",
                            training_step[r], 0)
    BY <1>1, <1>2, <1>4 DEF Dest, From, HasLeft
  <2> QED BY <2>1, <2>2
<1> QED BY <1>1, <1>3, <1>4, <1>5 DEF GoesOn, Training!Working, Training!Waiting

(* A rank whose step and model stay as they are goes on, if the            *)
(* new place leads where the old one did.                                  *)
LEMMA MoveGoesOn ==
    ASSUME NEW p \in DOMAIN Loops, Steady(p), NEW r \in Training(p)!Ranks,
           NEW label \in Training(p)!Working \cup {"exit"} \cup Training(p)!Waiting,
           at[r] \in Training(p)!Working,
           at' = [at EXCEPT ![r] = label],
           \/ final' = final \cup {r}
           \/ final' = final,
           UNCHANGED <<step, training_step, updates, last_saved_step, stopper, errors>>,
           From(p, label, HasLeft(r)', step[r], training_step[r], last_saved_step[r])
             = Dest(p, r)
    PROVE  GoesOn(p, r)
<1>1. \A q \in Training(p)!Ranks \ {r} : at'[q] = at[q] /\ Dest(p, q)' = Dest(p, q)
  BY OthersStay DEF Steady
<1>2. at'[r] = label
  BY DEF Steady, Training!TypeOK
<1>3. Dest(p, r)' = Dest(p, r)
  BY <1>2 DEF Dest
<1>4. label \in Training(p)!Working \cup Training(p)!Waiting
  BY DEF Training!Waiting
<1> QED BY <1>1, <1>2, <1>3, <1>4 DEF GoesOn

(* A rank that is not at a save has not left the loop.                     *)
LEMMA InLoop ==
    ASSUME NEW p \in DOMAIN Loops, Steady(p), NEW r \in Training(p)!Ranks,
           at[r] \in {"next", "compute", "report", "validate", "judge", "checkpoint",
                      "more"}
    PROVE  /\ r \notin final /\ HasLeft(r) = 0
           /\ final' = final => HasLeft(r)' = 0
BY DEF Steady, Training!Over, HasLeft

(* The types of what decides where a rank goes.                            *)
LEMMA RankTypes ==
    ASSUME NEW p \in DOMAIN Loops, Steady(p), NEW r \in Training(p)!Ranks
    PROVE  /\ step[r] \in Nat /\ training_step[r] \in Nat
           /\ last_saved_step[r] \in Nat /\ updates[r] \in Nat
           /\ at[r] \in Training(p)!Waiting \cup Training(p)!Working \cup Training(p)!Over
           /\ at \in [Training(p)!Ranks -> Training(p)!Waiting \cup Training(p)!Working
                                            \cup Training(p)!Over]
BY DEF Steady, Training!TypeOK

LEMMA LeaveGoesOn ==
    ASSUME NEW p \in DOMAIN Loops, Steady(p), NEW r \in Training(p)!Ranks,
           Training(p)!More(r),
           Loops[p].train_steps > 0, step[r] >= Loops[p].train_steps
    PROVE  GoesOn(p, r)
<1> USE LoopFacts, RankTypes
<1>1. /\ at[r] = "more"
      /\ at' = [at EXCEPT ![r] = "save"]
      /\ final' = final \cup {r}
      /\ UNCHANGED <<step, training_step, updates, last_saved_step, stopper, errors>>
  BY DEF Training!More, Training!Leave, Training!Goto, Training!model, Training!disk
<1>2. HasLeft(r)' = 1
  BY <1>1 DEF HasLeft
<1>3. Dest(p, r) = FromLastSave(p, step[r], last_saved_step[r])
  BY <1>1 DEF Dest, From, FromMore
<1>4. From(p, "save", HasLeft(r)', step[r], training_step[r], last_saved_step[r])
        = Dest(p, r)
  BY <1>2, <1>3 DEF From
<1> QED BY <1>1, <1>4, MoveGoesOn DEF Training!Working

LEMMA MoreGoesOn ==
    ASSUME NEW p \in DOMAIN Loops, Steady(p), NEW r \in Training(p)!Ranks,
           Training(p)!More(r)
    PROVE  GoesOn(p, r)
<1> USE LoopFacts, RankTypes
<1>1. CASE Loops[p].train_steps > 0 /\ step[r] >= Loops[p].train_steps
  BY <1>1, LeaveGoesOn
<1>2. CASE ~(Loops[p].train_steps > 0 /\ step[r] >= Loops[p].train_steps)
  <2>1. /\ at[r] = "more" /\ at' = [at EXCEPT ![r] = "next"] /\ final' = final
        /\ UNCHANGED <<step, training_step, updates, last_saved_step, stopper, errors>>
    BY <1>2 DEF Training!More, Training!Goto, Training!model, Training!disk
  <2>2. Dest(p, r) = FromNext(p, training_step[r])
    BY <1>2, <2>1 DEF Dest, From, FromMore
  <2>3. From(p, "next", HasLeft(r)', step[r], training_step[r], last_saved_step[r])
          = Dest(p, r)
    BY <2>2 DEF From
  <2> QED BY <2>1, <2>3, MoveGoesOn DEF Training!Working
<1> QED BY <1>1, <1>2

LEMMA BatchGoesOn ==
    ASSUME NEW p \in DOMAIN Loops, Steady(p), NEW r \in Training(p)!Ranks,
           \/ Training(p)!BatchFits(r)
           \/ Training(p)!BatchTooLarge(r) /\ Loops[p].data_parallel
    PROVE  GoesOn(p, r)
<1> USE LoopFacts, RankTypes
<1> DEFINE label == IF Loops[p].data_parallel THEN "oom" ELSE "forward"
<1>1. /\ at[r] = "compute" /\ at' = [at EXCEPT ![r] = label] /\ final' = final
      /\ UNCHANGED <<step, training_step, updates, last_saved_step, stopper, errors>>
  BY DEF Training!BatchFits, Training!BatchTooLarge, Training!Goto, Training!local,
         Training!model, Training!disk
<1>2. HasLeft(r) = 0 /\ HasLeft(r)' = 0
  BY <1>1, InLoop
<1>3. From(p, label, HasLeft(r)', step[r], training_step[r], last_saved_step[r])
        = Dest(p, r)
  BY <1>1, <1>2 DEF From, Dest
<1> QED BY <1>1, <1>3, MoveGoesOn DEF Training!Working, Training!Waiting

LEMMA TailGoesOn ==
    ASSUME NEW p \in DOMAIN Loops, Steady(p), NEW r \in Training(p)!Ranks,
           \/ Training(p)!Report(r) \/ Training(p)!Validate(r)
           \/ Training(p)!JudgeNothing(r) \/ Training(p)!Checkpoint(r)
    PROVE  GoesOn(p, r)
<1> USE LoopFacts, RankTypes
<1> DEFINE args(label) == From(p, label, HasLeft(r)', step[r], training_step[r],
                               last_saved_step[r])
<1>1. /\ at[r] \in {"report", "validate", "judge", "checkpoint"}
      /\ final' = final
      /\ UNCHANGED <<step, training_step, updates, last_saved_step, stopper, errors>>
  BY DEF Training!Report, Training!Validate, Training!JudgeNothing,
         Training!Checkpoint, Training!local, Training!model, Training!disk
<1>2. HasLeft(r) = 0 /\ HasLeft(r)' = 0
  BY <1>1, InLoop
<1>3. PICK label \in Training(p)!Working \cup Training(p)!Waiting :
          at' = [at EXCEPT ![r] = label] /\ args(label) = Dest(p, r)
  <2>1. CASE Training(p)!Report(r)
    <3> DEFINE label == IF Loops[p].data_parallel /\ Loops[p].n > 1
                             /\ step[r] % Loops[p].report_every = 0
                        THEN "stats" ELSE "validate"
    <3>1. at[r] = "report" /\ at' = [at EXCEPT ![r] = label]
      BY <2>1 DEF Training!Report, Training!Goto
    <3>2. args(label) = Dest(p, r)
      BY <1>2, <3>1 DEF From, FromReport, Dest
    <3> QED BY <3>1, <3>2 DEF Training!Working, Training!Waiting
  <2>2. CASE Training(p)!Validate(r)
    <3> DEFINE label == IF step[r] % Loops[p].valid_steps # 0
                             \/ (Loops[p].data_parallel /\ r # 0)
                        THEN "checkpoint"
                        ELSE IF Loops[p].data_parallel THEN "judge" ELSE "valid_forward"
    <3>1. at[r] = "validate" /\ at' = [at EXCEPT ![r] = label]
      BY <2>2 DEF Training!Validate, Training!Goto
    <3>2. args(label) = Dest(p, r)
      BY <1>2, <3>1 DEF From, FromValidate, Dest
    <3> QED BY <3>1, <3>2 DEF Training!Working, Training!Waiting
  <2>3. CASE Training(p)!JudgeNothing(r)
    <3>1. at[r] = "judge" /\ at' = [at EXCEPT ![r] = "checkpoint"]
      BY <2>3 DEF Training!JudgeNothing, Training!Goto
    <3>2. args("checkpoint") = Dest(p, r)
      BY <1>2, <3>1 DEF From, Dest
    <3> QED BY <3>1, <3>2 DEF Training!Working, Training!Waiting
  <2>4. CASE Training(p)!Checkpoint(r)
    <3> DEFINE label == IF step[r] % Loops[p].save_every = 0 THEN "save" ELSE "more"
    <3>1. at[r] = "checkpoint" /\ at' = [at EXCEPT ![r] = label]
      BY <2>4 DEF Training!Checkpoint, Training!Goto
    <3>2. args(label) = Dest(p, r)
      BY <1>2, <3>1 DEF From, FromCheckpoint, Dest
    <3> QED BY <3>1, <3>2 DEF Training!Working, Training!Waiting
  <2> QED BY <2>1, <2>2, <2>3, <2>4
<1>4. at[r] \in Training(p)!Working
  BY <1>1 DEF Training!Working
<1> QED BY <1>1, <1>3, <1>4, MoveGoesOn

LEMMA SaveGoesOn ==
    ASSUME NEW p \in DOMAIN Loops, Steady(p), NEW r \in Training(p)!Ranks,
           Training(p)!Save(r) \/ Training(p)!Write(r)
    PROVE  GoesOn(p, r)
<1> USE LoopFacts, RankTypes
<1>1. /\ at[r] \in {"save", "write"} /\ final' = final
      /\ UNCHANGED <<step, training_step, updates, last_saved_step, stopper, errors>>
  BY DEF Training!Save, Training!Write, Training!local, Training!model, Training!disk
<1>2. HasLeft(r)' = HasLeft(r) /\ HasLeft(r) \in {0, 1} /\ (HasLeft(r) = 1 <=> r \in final)
  BY <1>1 DEF HasLeft
<1>3. CASE Training(p)!Save(r)
  <2> DEFINE label == IF step[r] = last_saved_step[r] THEN Training(p)!Back(r)
                      ELSE IF Loops[p].data_parallel THEN "write" ELSE "state"
  <2>1. at[r] = "save" /\ at' = [at EXCEPT ![r] = label]
    BY <1>3 DEF Training!Save, Training!Goto
  <2>2. From(p, label, HasLeft(r)', step[r], training_step[r], last_saved_step[r])
          = Dest(p, r)
    <3>1. CASE r \in final
      BY <1>2, <2>1, <3>1 DEF From, FromLastSave, SaveLabel, Dest, Training!Back, There
    <3>2. CASE r \notin final
      BY <1>2, <2>1, <3>2 DEF From, FromSave, SaveLabel, Dest, Training!Back, There
    <3> QED BY <3>1, <3>2
  <2>3. label \in Training(p)!Working \cup {"exit"} \cup Training(p)!Waiting
    BY DEF Training!Back, Training!Working, Training!Waiting
  <2> HIDE DEF label
  <2> QED BY <1>1, <2>1, <2>2, <2>3, MoveGoesOn DEF Training!Working
<1>4. CASE Training(p)!Write(r)
  <2>1. at[r] = "write" /\ at' = [at EXCEPT ![r] = "barrier"]
    BY <1>4 DEF Training!Write, Training!Goto
  <2>2. From(p, "barrier", HasLeft(r)', step[r], training_step[r], last_saved_step[r])
          = Dest(p, r)
    BY <1>2, <2>1 DEF From, Dest
  <2> QED BY <1>1, <2>1, <2>2, MoveGoesOn DEF Training!Working, Training!Waiting
<1> QED BY <1>3, <1>4

(* The steps in which a rank fails.                                        *)
LEMMA FailureFails ==
    ASSUME NEW p \in DOMAIN Loops, Steady(p), NEW r \in Training(p)!Ranks,
           \/ Training(p)!NothingToTrainOn(r)
           \/ Training(p)!BatchTooLarge(r) /\ ~Loops[p].data_parallel
           \/ Training(p)!BatchRaises(r) \/ Training(p)!WriteRaises(r)
           \/ Training(p)!Interrupted(r) \/ Training(p)!TimesOut(r)
    PROVE  Fails(p, r)
<1> USE LoopFacts, RankTypes
<1>1. /\ UNCHANGED <<step, final, training_step, updates, last_saved_step, stopper>>
      /\ \E label \in Loose \cup {"exit"} : at' = [at EXCEPT ![r] = label]
      /\ errors \subseteq errors' /\ errors' \subseteq errors \cup {r}
  BY DEF Training!NothingToTrainOn, Training!BatchTooLarge, Training!BatchRaises,
         Training!WriteRaises, Training!Interrupted, Training!TimesOut, Training!Raise,
         Training!Goto, Training!local, Training!model, Training!disk, Loose
<1>2. \A q \in Training(p)!Ranks \ {r} : at'[q] = at[q] /\ Dest(p, q)' = Dest(p, q)
  <2>1. PICK label \in Loose \cup {"exit"} : at' = [at EXCEPT ![r] = label]
    BY <1>1
  <2> QED BY <1>1, <2>1, OthersStay DEF Steady
<1>3. CASE \/ Training(p)!NothingToTrainOn(r)
           \/ Training(p)!BatchRaises(r) \/ Training(p)!WriteRaises(r)
  <2>1. at'[r] = "exit" /\ errors' = errors \cup {r}
    BY <1>3 DEF Training!NothingToTrainOn, Training!BatchRaises, Training!WriteRaises,
                Training!Raise, Training!Goto
  <2> QED BY <1>1, <1>2, <2>1 DEF Fails
<1>5. CASE Training(p)!BatchTooLarge(r) /\ ~Loops[p].data_parallel
  <2>1. at'[r] = "gone" /\ errors' = errors
    BY <1>5 DEF Training!BatchTooLarge, Training!Goto
  <2> QED BY <1>1, <1>2, <2>1 DEF Fails
<1>6. CASE Training(p)!TimesOut(r)
  <2>1. /\ at'[r] = "aborted" /\ errors' = errors
        /\ at[r] \in Training(p)!Waiting /\ Training(p)!Kept(r)
    BY <1>6 DEF Training!TimesOut, Training!Goto
  <2> QED BY <1>1, <1>2, <2>1 DEF Fails
<1>7. CASE Training(p)!Interrupted(r)
  <2>1. at'[r] = "exit" /\ errors' = errors /\ errors # {}
    BY <1>7 DEF Training!Interrupted, Training!Goto, Steady
  <2> QED BY <1>1, <1>2, <2>1 DEF Fails
<1> QED BY <1>3, <1>5, <1>6, <1>7

------------------------------------------------------------------------------
(* The early stopping object takes rank 0 out of the loop, alone.          *)
JudgeStops(p) ==
    /\ at[0] = "judge" /\ at'[0] = "save" /\ final' = final \cup {0}
    /\ stopper.status # "stopped" /\ stopper'.status = "stopped"
    /\ \A q \in Training(p)!Ranks \ {0} : at'[q] = at[q] /\ Dest(p, q)' = Dest(p, q)
    /\ UNCHANGED <<step, training_step, updates, last_saved_step, errors>>

LEMMA JudgeGoesOn ==
    ASSUME NEW p \in DOMAIN Loops, Steady(p), Training(p)!Judge
    PROVE  GoesOn(p, 0) \/ JudgeStops(p)
<1> USE LoopFacts, RankTypes
<1>1. /\ at[0] = "judge"
      /\ UNCHANGED <<step, training_step, updates, last_saved_step, errors>>
  BY DEF Training!Judge, Training!model, Training!disk
<1>2. HasLeft(0) = 0 /\ 0 \notin final /\ stopper.status # "stopped"
  BY <1>1, InLoop DEF Steady
<1>3. CASE stopper'.status = "stopped"
  <2>1. at' = [at EXCEPT ![0] = "save"] /\ final' = final \cup {0}
    BY <1>3 DEF Training!Judge, Training!Leave, Training!Goto
  <2>2. \A q \in Training(p)!Ranks \ {0} : at'[q] = at[q] /\ Dest(p, q)' = Dest(p, q)
    BY <1>1, <2>1, OthersStay DEF Steady
  <2> QED BY <1>1, <1>2, <1>3, <2>1, <2>2 DEF JudgeStops
<1>4. CASE stopper'.status # "stopped"
  <2>1. at' = [at EXCEPT ![0] = "checkpoint"] /\ final' = final
    BY <1>4 DEF Training!Judge, Training!Goto
  <2>2. \A q \in Training(p)!Ranks \ {0} : at'[q] = at[q] /\ Dest(p, q)' = Dest(p, q)
    BY <1>1, <2>1, OthersStay DEF Steady
  <2>3. HasLeft(0)' = HasLeft(0) /\ at'[0] = "checkpoint"
    BY <2>1 DEF HasLeft
  <2>4. Dest(p, 0)' = Dest(p, 0)
    BY <1>1, <2>3 DEF Dest, From
  <2> QED BY <1>1, <1>2, <1>4, <2>2, <2>3, <2>4 DEF GoesOn, Training!Working
<1> QED BY <1>3, <1>4

------------------------------------------------------------------------------
(* The ranks that are bound to each other: all of them while nothing has   *)
(* failed; then those that still run, but not rank 0 once it has stopped   *)
(* early.                                                                  *)
Peer(p, r) == Training(p)!Sound(r) /\ (stopper.status = "stopped" => r # 0)

Clean(p) ==
    /\ stopper.status # "stopped" /\ errors = {}
    /\ \A r \in Training(p)!Ranks : at[r] \notin Loose

Same(p, r, q) ==
    /\ Dest(p, r) = Dest(p, q)
    /\ training_step[r] = training_step[q] /\ updates[r] = updates[q]
    /\ last_saved_step[r] = last_saved_step[q]

(* They will wait in the same collective of the same step.                 *)
PeersAreSame(p) ==
    \A r, q \in Training(p)!Ranks :
        Clean(p) \/ (Peer(p, r) /\ Peer(p, q)) => Same(p, r, q)

(* A rank that will save does so with rank 0, which writes; or for ever;   *)
(* or with the barrier of rank 0 at exit, if something has been raised.    *)
SavesWithRank0(p) ==
    \A r \in Training(p)!Ranks \ {0} :
        Training(p)!Sound(r) /\ Dest(p, r).at \in {"state", "barrier"} =>
            \/ at[0] \in Training(p)!Over
            \/ at[0] = "exit" /\ errors # {}
            \/ /\ Training(p)!Sound(0)
               /\ Dest(p, 0).at = Dest(p, r).at /\ Dest(p, 0).step = Dest(p, r).step

InStepInv(p) ==
    /\ PeersAreSame(p)
    /\ SavesWithRank0(p)
    /\ Training(p)!NoRankIsLeftWaiting

(* A rank that waits, or has ended, has arrived.                           *)
LEMMA Arrived ==
    ASSUME NEW p \in DOMAIN Loops, NEW r \in Training(p)!Ranks,
           at[r] \in Training(p)!Waiting \cup Training(p)!Over
    PROVE  Dest(p, r) = There(at[r], step[r], HasLeft(r))
BY DEF Dest, From, Training!Waiting, Training!Over

LEMMA ArrivesNext ==
    ASSUME NEW p \in DOMAIN Loops, NEW r \in Training(p)!Ranks,
           at'[r] \in Training(p)!Waiting \cup Training(p)!Over
    PROVE  Dest(p, r)' = There(at'[r], step'[r], HasLeft(r)')
BY DEF Dest, From, Training!Waiting, Training!Over

LEMMA GoesOnInStep ==
    ASSUME NEW p \in DOMAIN Loops, Steady(p), InStepInv(p),
           NEW r \in Training(p)!Ranks, GoesOn(p, r)
    PROVE  InStepInv(p)'
<1> USE DEF InStepInv
<1>1. /\ at[r] \in Training(p)!Working
      /\ at'[r] \in Training(p)!Working \cup Training(p)!Waiting
      /\ \A q \in Training(p)!Ranks \ {r} : at'[q] = at[q]
      /\ \A q \in Training(p)!Ranks : Dest(p, q)' = Dest(p, q)
      /\ UNCHANGED <<training_step, updates, last_saved_step, errors>>
      /\ stopper'.status = "stopped" <=> stopper.status = "stopped"
  BY DEF GoesOn
<1>2. \A q \in Training(p)!Ranks : Training(p)!Sound(q)' => Training(p)!Sound(q)
  BY <1>1 DEF Training!Sound, Training!Working, Training!Over
<1>3. \A q \in Training(p)!Ranks : Peer(p, q)' => Peer(p, q)
  BY <1>1, <1>2 DEF Peer
<1>4. Clean(p)' => Clean(p)
  BY <1>1 DEF Clean, Loose, Training!Working
<1>5. PeersAreSame(p)'
  BY <1>1, <1>3, <1>4 DEF PeersAreSame, Same
<1>7. SavesWithRank0(p)'
  <2> SUFFICES ASSUME NEW q \in Training(p)!Ranks \ {0}, Training(p)!Sound(q)',
                      Dest(p, q)'.at \in {"state", "barrier"}
               PROVE  \/ at'[0] \in Training(p)!Over
                      \/ at'[0] = "exit" /\ errors' # {}
                      \/ /\ Training(p)!Sound(0)'
                         /\ Dest(p, 0)'.at = Dest(p, q)'.at
                         /\ Dest(p, 0)'.step = Dest(p, q)'.step
    BY DEF SavesWithRank0
  <2>1. \/ at[0] \in Training(p)!Over
        \/ at[0] = "exit" /\ errors # {}
        \/ /\ Training(p)!Sound(0)
           /\ Dest(p, 0).at = Dest(p, q).at /\ Dest(p, 0).step = Dest(p, q).step
    BY <1>1, <1>2 DEF SavesWithRank0
  <2>2. 0 \in Training(p)!Ranks
    BY LoopFacts
  <2>3. CASE r # 0
    BY <1>1, <2>1, <2>2, <2>3 DEF Training!Sound
  <2>4. CASE r = 0
    <3>1. at'[0] # "exit"
      <4> SUFFICES ASSUME at'[0] = "exit" PROVE FALSE
        OBVIOUS
      <4>1. Dest(p, 0)'.at = "exit"
        BY <2>2, ArrivesNext DEF There, Training!Waiting
      <4> QED BY <1>1, <2>1, <2>2, <2>4, <4>1 DEF Training!Working, Training!Over
    <3>2. Training(p)!Sound(0)'
      BY <1>1, <2>4, <3>1 DEF Training!Sound, Training!Working, Training!Waiting,
                              Training!Over
    <3> QED BY <1>1, <2>1, <2>2, <2>4, <3>2 DEF Training!Working, Training!Over
  <2> QED BY <2>3, <2>4
<1>8. Training(p)!NoRankIsLeftWaiting'
  BY <1>1 DEF Training!NoRankIsLeftWaiting, Training!Working, Training!Waiting
<1> QED BY <1>5, <1>7, <1>8

LEMMA FailsInStep ==
    ASSUME NEW p \in DOMAIN Loops, Steady(p), InStepInv(p),
           NEW r \in Training(p)!Ranks, Fails(p, r)
    PROVE  InStepInv(p)'
<1> USE DEF InStepInv
<1>1. /\ \A q \in Training(p)!Ranks \ {r} : at'[q] = at[q] /\ Dest(p, q)' = Dest(p, q)
      /\ UNCHANGED <<training_step, updates, last_saved_step, stopper>>
      /\ at'[r] \in Loose \cup {"exit"}
      /\ errors \subseteq errors' /\ errors' \subseteq errors \cup {r}
      /\ at'[r] = "exit" => errors' # {}
  BY DEF Fails, Loose
<1>2. \A q \in Training(p)!Ranks : Training(p)!Sound(q)' => q # r /\ Training(p)!Sound(q)
  BY <1>1 DEF Training!Sound, Training!Over, Loose
<1>3. \A q \in Training(p)!Ranks : Peer(p, q)' => q # r /\ Peer(p, q)
  BY <1>1, <1>2 DEF Peer
<1>4. ~Clean(p)'
  BY <1>1 DEF Clean
<1>5. PeersAreSame(p)'
  BY <1>1, <1>3, <1>4 DEF PeersAreSame, Same
<1>8. SavesWithRank0(p)'
  <2> SUFFICES ASSUME NEW q \in Training(p)!Ranks \ {0}, Training(p)!Sound(q)',
                      Dest(p, q)'.at \in {"state", "barrier"}
               PROVE  \/ at'[0] \in Training(p)!Over
                      \/ at'[0] = "exit" /\ errors' # {}
                      \/ /\ Training(p)!Sound(0)'
                         /\ Dest(p, 0)'.at = Dest(p, q)'.at
                         /\ Dest(p, 0)'.step = Dest(p, q)'.step
    BY DEF SavesWithRank0
  <2>1. /\ q # r /\ Training(p)!Sound(q) /\ Dest(p, q)' = Dest(p, q)
        /\ \/ at[0] \in Training(p)!Over
           \/ at[0] = "exit" /\ errors # {}
           \/ /\ Training(p)!Sound(0)
              /\ Dest(p, 0).at = Dest(p, q).at /\ Dest(p, 0).step = Dest(p, q).step
    BY <1>1, <1>2 DEF SavesWithRank0
  <2>2. 0 \in Training(p)!Ranks
    BY LoopFacts
  <2>3. CASE r # 0
    BY <1>1, <2>1, <2>2, <2>3 DEF Training!Sound
  <2>4. CASE r = 0
    BY <1>1, <2>4 DEF Loose, Training!Over
  <2> QED BY <2>3, <2>4
<1>9. Training(p)!NoRankIsLeftWaiting'
  <2> SUFFICES ASSUME errors' = {}, \A q \in Training(p)!Ranks : at'[q] # "gone",
                      ~Loops[p].slow_validation, stopper'.status # "stopped"
               PROVE  \A q \in Training(p)!Ranks : at'[q] # "aborted"
    BY DEF Training!NoRankIsLeftWaiting
  <2>1. /\ errors = {} /\ stopper.status # "stopped"
        /\ at'[r] = "aborted" /\ at[r] \in Training(p)!Waiting /\ Training(p)!Kept(r)
    BY <1>1 DEF Fails
  <2>2. \A q \in Training(p)!Ranks : at[q] # "gone"
    BY <1>1, <2>1 DEF Training!Waiting
  <2>3. \A q \in Training(p)!Ranks : at[q] # "aborted"
    BY <2>1, <2>2 DEF Training!NoRankIsLeftWaiting
  <2>4. Clean(p)
    BY <2>1, <2>2, <2>3 DEF Clean, Loose
  <2>5. PICK q \in Training(p)!Ranks :
            \/ at[q] \in Training(p)!Over
            \/ /\ at[q] \in Training(p)!Waiting
               /\ Training(p)!Kind(at[q]) # Training(p)!Kind(at[r])
    BY <2>1 DEF Training!Kept
  <2>6. Dest(p, q) = Dest(p, r)
    BY <2>4 DEF PeersAreSame, Same
  <2>7. at[q] = at[r]
    BY <2>1, <2>5, <2>6, Arrived DEF There
  <2> QED BY <2>1, <2>5, <2>7 DEF Training!Over, Training!Waiting
<1> QED BY <1>5, <1>8, <1>9

LEMMA JudgeInStep ==
    ASSUME NEW p \in DOMAIN Loops, Steady(p), InStepInv(p), JudgeStops(p)
    PROVE  InStepInv(p)'
<1> USE DEF InStepInv
<1>0. 0 \in Training(p)!Ranks
  BY LoopFacts
<1>1. \A q \in Training(p)!Ranks : Peer(p, q)' => q # 0 /\ Peer(p, q)
  BY DEF Peer, JudgeStops, Training!Sound
<1>2. ~Clean(p)'
  BY DEF Clean, JudgeStops
<1>3. PeersAreSame(p)'
  BY <1>1, <1>2 DEF PeersAreSame, Same, JudgeStops
<1>5. SavesWithRank0(p)'
  <2> SUFFICES ASSUME NEW q \in Training(p)!Ranks \ {0}, Training(p)!Sound(q)',
                      Dest(p, q)'.at \in {"state", "barrier"}
               PROVE  /\ Training(p)!Sound(0)'
                      /\ Dest(p, 0)'.at = Dest(p, q)'.at
                      /\ Dest(p, 0)'.step = Dest(p, q)'.step
    BY DEF SavesWithRank0
  <2> DEFINE s == step[0]
             ls == last_saved_step[0]
  <2>1. Peer(p, q) /\ Peer(p, 0)
    BY <1>0 DEF Peer, JudgeStops, Training!Sound, Training!Over
  <2>2. Dest(p, q)' = FromCheckpoint(p, s, training_step[0], ls)
    <3>1. Dest(p, q)' = Dest(p, q) /\ Dest(p, q) = Dest(p, 0)
      BY <1>0, <2>1 DEF PeersAreSame, Same, JudgeStops
    <3> QED BY <3>1 DEF JudgeStops, Dest, From
  <2>3. Dest(p, 0)' = FromLastSave(p, s, ls)
    BY DEF JudgeStops, Dest, From, HasLeft
  <2>4. /\ s # ls
        /\ Dest(p, q)'.at = SaveLabel(p) /\ Dest(p, q)'.step = s
    BY <2>2 DEF FromCheckpoint, FromSave, FromMore, FromNext, FromLastSave, There, SaveLabel
  <2>5. Dest(p, 0)'.at = SaveLabel(p) /\ Dest(p, 0)'.step = s
    BY <2>3, <2>4 DEF FromLastSave, There
  <2>6. Training(p)!Sound(0)'
    BY DEF JudgeStops, Training!Sound, Training!Over
  <2> QED BY <2>4, <2>5, <2>6
<1>6. Training(p)!NoRankIsLeftWaiting'
  BY DEF Training!NoRankIsLeftWaiting, JudgeStops
<1> QED BY <1>3, <1>5, <1>6

(* A collective that completes takes every rank on.                        *)
LEMMA CollectiveFacts ==
    ASSUME NEW p \in DOMAIN Loops, Steady(p), NEW kind, Training(p)!Collective(kind),
           NEW r \in Training(p)!Ranks
    PROVE  /\ at[r] \in Training(p)!Waiting
           /\ Training(p)!Kind(at[r]) = kind
           /\ at'[r] = Training(p)!After(r)
           /\ training_step'[r] = training_step[r] + IF at[r] = "grads" THEN 1 ELSE 0
           /\ updates'[r] = updates[r] + IF at[r] = "grads" THEN 1 ELSE 0
           /\ last_saved_step'[r] = IF at[r] = "barrier" THEN step[r] ELSE last_saved_step[r]
           /\ UNCHANGED <<step, left, final, saved, oom, ooms, stopper, errors, parent>>
           /\ HasLeft(r)' = HasLeft(r)
BY DEF Training!Collective, Training!Meet, Training!Continue, Training!local, HasLeft

LEMMA AfterWaiting ==
    ASSUME NEW p \in DOMAIN Loops, NEW r \in Training(p)!Ranks,
           at[r] \in Training(p)!Waiting
    PROVE  /\ Training(p)!After(r) \in {"compute", "grads", "report", "validate", "judge",
                                        "write", "exit", "more", "done"}
           /\ Training(p)!After(r) = "done" <=> at[r] = "exit"
           /\ Training(p)!After(r) = "exit" <=> at[r] = "barrier" /\ r \in final
           /\ at[r] = "state" => Training(p)!After(r) = "write"
           /\ at[r] = "barrier" /\ r \notin final => Training(p)!After(r) = "more"
BY DEF Training!Waiting, Training!After, Training!AnyOom

LEMMA CollectiveKeepsSame ==
    ASSUME NEW p \in DOMAIN Loops, Steady(p), NEW kind, Training(p)!Collective(kind),
           NEW r \in Training(p)!Ranks, NEW q \in Training(p)!Ranks, Same(p, r, q)
    PROVE  Same(p, r, q)'
<1>1. at[r] = at[q] /\ step[r] = step[q] /\ HasLeft(r) = HasLeft(q)
  BY CollectiveFacts, Arrived DEF Same, There
<1>2. r \in final <=> q \in final
  BY <1>1 DEF HasLeft
<1>3. Training(p)!After(r) = Training(p)!After(q)
  BY <1>1, <1>2 DEF Training!After
<1>4. /\ at'[r] = at'[q] /\ step'[r] = step'[q]
      /\ HasLeft(r)' = HasLeft(q)' /\ training_step'[r] = training_step'[q]
      /\ updates'[r] = updates'[q] /\ last_saved_step'[r] = last_saved_step'[q]
  BY <1>1, <1>3, CollectiveFacts DEF Same
<1> QED BY <1>4 DEF Same, Dest

LEMMA CollectiveInStep ==
    ASSUME NEW p \in DOMAIN Loops, Steady(p), InStepInv(p), NEW kind,
           Training(p)!Collective(kind)
    PROVE  InStepInv(p)'
<1> USE DEF InStepInv
<1>0. 0 \in Training(p)!Ranks
  BY LoopFacts
<1>1. \A q \in Training(p)!Ranks : Training(p)!Sound(q)' =>
          at[q] # "exit" /\ Training(p)!Sound(q)
  BY CollectiveFacts, AfterWaiting
     DEF Training!Sound, Training!Waiting, Training!Over
<1>2. \A q \in Training(p)!Ranks : Peer(p, q)' => Peer(p, q)
  BY <1>0, <1>1, CollectiveFacts DEF Peer
<1>3. Clean(p)' => Clean(p)
  BY <1>0, CollectiveFacts DEF Clean, Loose, Training!Waiting
<1>4. PeersAreSame(p)'
  BY <1>2, <1>3, CollectiveKeepsSame DEF PeersAreSame
<1>6. SavesWithRank0(p)'
  <2> SUFFICES ASSUME NEW q \in Training(p)!Ranks \ {0}, Training(p)!Sound(q)',
                      Dest(p, q)'.at \in {"state", "barrier"}
               PROVE  \/ at'[0] \in Training(p)!Over
                      \/ at'[0] = "exit" /\ errors' # {}
                      \/ /\ Training(p)!Sound(0)'
                         /\ Dest(p, 0)'.at = Dest(p, q)'.at
                         /\ Dest(p, 0)'.step = Dest(p, q)'.step
    BY DEF SavesWithRank0
  <2>1. CASE at[0] = "exit"
    BY <1>0, <2>1, CollectiveFacts, AfterWaiting DEF Training!Over
  <2>2. CASE at[0] # "exit" /\ stopper.status # "stopped"
    <3>1. Peer(p, q) /\ Peer(p, 0)
      BY <1>0, <1>1, <2>2, CollectiveFacts DEF Peer, Training!Sound, Training!Waiting,
                                                Training!Over
    <3>2. Same(p, 0, q)'
      BY <1>0, <3>1, CollectiveKeepsSame DEF PeersAreSame
    <3>3. at'[0] # "exit"
      BY <1>0, <3>2, ArrivesNext DEF Same, There, Training!Waiting
    <3>4. Training(p)!Sound(0)'
      BY <1>0, <2>2, <3>3, CollectiveFacts, AfterWaiting DEF Training!Sound, Training!Over
    <3> QED BY <3>2, <3>4 DEF Same
  <2>3. CASE at[0] # "exit" /\ stopper.status = "stopped"
    <3>1. at[0] \in {"state", "barrier"}
      BY <1>0, <2>3, CollectiveFacts DEF Steady, Training!Waiting, Training!Over
    <3>2. at[q] = at[0]
      BY <1>0, <1>1, <3>1, CollectiveFacts DEF Training!Waiting, Training!Kind
    <3>3. step[0] = step[q]
      BY <1>0, <1>1, <3>1, <3>2, CollectiveFacts, Arrived
         DEF SavesWithRank0, There, Training!Over
    <3>4. CASE at[0] = "state"
      <4>1. at'[0] = "write" /\ at'[q] = "write" /\ step'[0] = step'[q]
        BY <1>0, <3>2, <3>3, <3>4, CollectiveFacts, AfterWaiting
      <4> QED BY <4>1 DEF Dest, From, There, Training!Sound, Training!Over
    <3>5. CASE at[0] = "barrier"
      <4>1. at'[q] = "more" /\ last_saved_step'[q] = step[q] /\ step' = step
        BY <3>2, <3>5, CollectiveFacts, AfterWaiting DEF Training!Sound
      <4>2. Dest(p, q)'.at \notin {"state", "barrier"}
        BY <4>1 DEF Dest, From, FromMore, FromNext, FromLastSave, There
      <4> QED BY <4>2
    <3> QED BY <3>1, <3>4, <3>5
  <2> QED BY <2>1, <2>2, <2>3
<1>7. Training(p)!NoRankIsLeftWaiting'
  BY CollectiveFacts, AfterWaiting DEF Training!NoRankIsLeftWaiting
<1> QED BY <1>4, <1>6, <1>7

(* A step of a rank keeps the types.                                       *)
LEMMA MoveKeepsTypes ==
    ASSUME NEW p \in DOMAIN Loops, Training(p)!TypeOK, NEW r \in Training(p)!Ranks,
           NEW label \in Training(p)!Waiting \cup Training(p)!Working \cup Training(p)!Over,
           at' = [at EXCEPT ![r] = label],
           step' \in [Training(p)!Ranks -> Nat], left' \in [Training(p)!Ranks -> Nat],
           oom' \subseteq oom \cup {r}, final' \subseteq final \cup {r},
           ooms' \in 0 .. Loops[p].max_oom, errors' \subseteq errors \cup {r},
           saved' \subseteq [step : Nat, training_step : Nat, updates : Nat],
           stopper' \in Training(p)!Stopping!Stopper,
           UNCHANGED <<training_step, updates, last_saved_step, parent>>
    PROVE  Training(p)!TypeOK'
BY DEF Training!TypeOK

LEMMA RankStepKeepsTypes ==
    ASSUME NEW p \in DOMAIN Loops, Training(p)!TypeOK, NEW r \in Training(p)!Ranks,
           Training(p)!RankStep(r)
    PROVE  Training(p)!TypeOK'
<1> USE LoopFacts DEF Training!Goto, Training!Leave, Training!Raise, Training!Back,
                      Training!Waiting, Training!Working, Training!Over,
                      Training!local, Training!model, Training!disk
<1>0. /\ step \in [Training(p)!Ranks -> Nat] /\ left \in [Training(p)!Ranks -> Nat]
      /\ training_step \in [Training(p)!Ranks -> Nat]
      /\ updates \in [Training(p)!Ranks -> Nat]
      /\ ooms \in 0 .. Loops[p].max_oom
      /\ saved \subseteq [step : Nat, training_step : Nat, updates : Nat]
      /\ stopper \in Training(p)!Stopping!Stopper
  BY DEF Training!TypeOK
<1>1. CASE Training(p)!Fetch(r)
  <2>1. /\ step' \in [Training(p)!Ranks -> Nat] /\ left' \in [Training(p)!Ranks -> Nat]
        /\ oom' \subseteq oom \cup {r}
    BY <1>0, <1>1 DEF Training!Fetch
  <2> QED BY <1>0, <1>1, <2>1, MoveKeepsTypes DEF Training!Fetch
<1>2. CASE Training(p)!NothingToTrainOn(r) \/ Training(p)!WriteRaises(r)
  BY <1>0, <1>2, MoveKeepsTypes DEF Training!NothingToTrainOn, Training!WriteRaises
<1>3. CASE Training(p)!BatchFits(r) \/ Training(p)!BatchRaises(r)
  BY <1>0, <1>3, MoveKeepsTypes DEF Training!BatchFits, Training!BatchRaises
<1>4. CASE Training(p)!BatchTooLarge(r)
  <2>1. ooms' \in 0 .. Loops[p].max_oom
    BY <1>0, <1>4 DEF Training!BatchTooLarge
  <2> QED BY <1>0, <1>4, <2>1, MoveKeepsTypes DEF Training!BatchTooLarge
<1>5. CASE Training(p)!Report(r) \/ Training(p)!Validate(r)
  BY <1>0, <1>5, MoveKeepsTypes DEF Training!Report, Training!Validate
<1>6. CASE Training(p)!JudgeNothing(r) \/ Training(p)!Checkpoint(r)
  BY <1>0, <1>6, MoveKeepsTypes DEF Training!JudgeNothing, Training!Checkpoint
<1>7. CASE Training(p)!Save(r) \/ Training(p)!More(r)
  BY <1>0, <1>7, MoveKeepsTypes DEF Training!Save, Training!More
<1>8. CASE Training(p)!Write(r)
  <2>1. saved' \subseteq [step : Nat, training_step : Nat, updates : Nat]
    BY <1>0, <1>8 DEF Training!Write
  <2> QED BY <1>0, <1>8, <2>1, MoveKeepsTypes DEF Training!Write
<1>9. CASE Training(p)!Interrupted(r) \/ Training(p)!TimesOut(r)
  BY <1>0, <1>9, MoveKeepsTypes DEF Training!Interrupted, Training!TimesOut
<1> QED BY <1>1, <1>2, <1>3, <1>4, <1>5, <1>6, <1>7, <1>8, <1>9 DEF Training!RankStep

LEMMA RankStepSteady ==
    ASSUME NEW p \in DOMAIN Loops, Steady(p), NEW r \in Training(p)!Ranks,
           Training(p)!RankStep(r)
    PROVE  Steady(p)'
<1> USE LoopFacts DEF Training!local, Training!model, Training!disk
<1>1. Training(p)!TypeOK' /\ Training(p)!TypeOK
  BY RankStepKeepsTypes DEF Steady
<1>2. /\ UNCHANGED <<stopper, parent>>
      /\ errors \subseteq errors'
      /\ final' \subseteq final \cup {r} /\ final \subseteq final'
      /\ \A q \in Training(p)!Ranks \ {r} : at'[q] = at[q]
  BY <1>1 DEF Training!RankStep, Training!Fetch, Training!WriteRaises, Training!NothingToTrainOn,
         Training!BatchFits, Training!BatchTooLarge, Training!BatchRaises, Training!Report,
         Training!Validate, Training!JudgeNothing, Training!Checkpoint, Training!Save,
         Training!Write, Training!More, Training!Interrupted, Training!TimesOut,
         Training!Raise, Training!Leave, Training!Goto, Training!TypeOK
<1>3. r \in final' => at'[r] \in {"save", "state", "write", "barrier", "exit"}
                                     \cup Training(p)!Over
  <2> SUFFICES ASSUME r \in final'
               PROVE  at'[r] \in {"save", "state", "write", "barrier", "exit"}
                                     \cup Training(p)!Over
    OBVIOUS
  <2>1. CASE r \notin final
    BY <1>1, <2>1
       DEF Training!RankStep, Training!Fetch, Training!WriteRaises, Training!NothingToTrainOn,
         Training!BatchFits, Training!BatchTooLarge, Training!BatchRaises, Training!Report,
         Training!Validate, Training!JudgeNothing, Training!Checkpoint, Training!Save,
         Training!Write, Training!More, Training!Interrupted, Training!TimesOut,
         Training!Raise, Training!Leave, Training!Goto, Training!TypeOK
  <2>2. CASE r \in final
    <3>1. at[r] \in {"save", "state", "write", "barrier", "exit"} \cup Training(p)!Over
      BY <2>2 DEF Steady
    <3> QED BY <1>1, <2>2, <3>1
       DEF Training!RankStep, Training!Fetch, Training!WriteRaises, Training!NothingToTrainOn,
         Training!BatchFits, Training!BatchTooLarge, Training!BatchRaises, Training!Report,
         Training!Validate, Training!JudgeNothing, Training!Checkpoint, Training!Save,
         Training!Write, Training!More, Training!Interrupted, Training!TimesOut, Training!Back,
         Training!Raise, Training!Leave, Training!Goto, Training!TypeOK, Training!Over
  <2> QED BY <2>1, <2>2
<1>4. StopperOK(p)'
  BY <1>2 DEF Steady, StopperOK
<1> QED BY <1>1, <1>2, <1>3, <1>4 DEF Steady, Training!TypeOK

LEMMA JudgeSteady ==
    ASSUME NEW p \in DOMAIN Loops, Steady(p), Training(p)!Judge
    PROVE  Steady(p)'
<1> USE LoopFacts DEF Training!local, Training!model, Training!disk
<1>1. Training(p)!TypeOK /\ StopperOK(p) /\ at[0] = "judge"
  BY DEF Steady, Training!Judge
<1>2. StopperOK(p)'
  BY <1>1, JudgeKeepsStopper DEF Training!Judge, Training!TypeOK
<1>3. /\ \/ /\ at' = [at EXCEPT ![0] = "save"] /\ final' = final \cup {0}
         \/ /\ at' = [at EXCEPT ![0] = "checkpoint"] /\ final' = final
            /\ stopper'.status # "stopped"
      /\ UNCHANGED <<step, left, training_step, updates, last_saved_step, saved, oom, ooms,
                     errors, parent>>
  BY DEF Training!Judge, Training!Leave, Training!Goto
<1>4. Training(p)!TypeOK'
  BY <1>1, <1>2, <1>3, MoveKeepsTypes DEF StopperOK, Training!TypeOK, Training!Working
<1>5. \A q \in final' : at'[q] \in {"save", "state", "write", "barrier", "exit"}
                                     \cup Training(p)!Over
  <2>1. final \subseteq Training(p)!Ranks /\ 0 \notin final
    BY <1>1, InLoop DEF Training!TypeOK
  <2> QED BY <1>1, <1>3, <2>1 DEF Steady, Training!TypeOK
<1> QED BY <1>2, <1>3, <1>4, <1>5 DEF Steady

LEMMA CollectiveSteady ==
    ASSUME NEW p \in DOMAIN Loops, Steady(p), NEW kind, Training(p)!Collective(kind)
    PROVE  Steady(p)'
<1>0. 0 \in Training(p)!Ranks
  BY LoopFacts
<1>1. UNCHANGED <<step, left, final, saved, oom, ooms, stopper, errors, parent>>
  BY <1>0, CollectiveFacts
<1>2. \A r \in Training(p)!Ranks :
          at'[r] \in Training(p)!Waiting \cup Training(p)!Working \cup Training(p)!Over
  BY CollectiveFacts, AfterWaiting DEF Training!Waiting, Training!Working, Training!Over
<1>3. Training(p)!TypeOK'
  <2>1. /\ at' = [r \in Training(p)!Ranks |-> Training(p)!After(r)]
        /\ training_step' \in [Training(p)!Ranks -> Nat]
        /\ updates' \in [Training(p)!Ranks -> Nat]
        /\ last_saved_step' \in [Training(p)!Ranks -> Nat]
    BY DEF Training!Collective, Training!Continue, Steady, Training!TypeOK
  <2>2. at' \in [Training(p)!Ranks -> Training(p)!Waiting \cup Training(p)!Working
                                         \cup Training(p)!Over]
    BY <1>2, <2>1
  <2> QED BY <1>1, <2>1, <2>2 DEF Steady, Training!TypeOK
<1>4. \A q \in final' : at'[q] \in {"save", "state", "write", "barrier", "exit"}
                                     \cup Training(p)!Over
  <2> SUFFICES ASSUME NEW q \in final
               PROVE  at'[q] \in {"write", "exit"} \cup Training(p)!Over
    BY <1>1
  <2>1. q \in Training(p)!Ranks
    BY DEF Steady, Training!TypeOK
  <2>2. at[q] \in {"state", "barrier", "exit"}
    BY <2>1, CollectiveFacts DEF Steady, Training!Waiting, Training!Over
  <2> QED BY <2>1, <2>2, CollectiveFacts, AfterWaiting DEF Training!Over
<1>5. StopperOK(p)'
  BY <1>1 DEF Steady, StopperOK
<1> QED BY <1>1, <1>3, <1>4, <1>5 DEF Steady

------------------------------------------------------------------------------
LoopInv(p) == Steady(p) /\ InStepInv(p)

LEMMA RankStepKeepsLoop ==
    ASSUME NEW p \in DOMAIN Loops, LoopInv(p), NEW r \in Training(p)!Ranks,
           Training(p)!RankStep(r)
    PROVE  LoopInv(p)'
<1>1. Steady(p) /\ InStepInv(p) /\ Steady(p)'
  BY RankStepSteady DEF LoopInv
<1>2. GoesOn(p, r) \/ Fails(p, r)
  <2>1. CASE Training(p)!Fetch(r)
    BY <1>1, <2>1, FetchGoesOn
  <2>2. CASE Training(p)!More(r)
    BY <1>1, <2>2, MoreGoesOn
  <2>3. CASE Training(p)!BatchFits(r)
    BY <1>1, <2>3, BatchGoesOn
  <2>4. CASE \/ Training(p)!Report(r) \/ Training(p)!Validate(r)
             \/ Training(p)!JudgeNothing(r) \/ Training(p)!Checkpoint(r)
    BY <1>1, <2>4, TailGoesOn
  <2>5. CASE Training(p)!Save(r) \/ Training(p)!Write(r)
    BY <1>1, <2>5, SaveGoesOn
  <2>6. CASE \/ Training(p)!NothingToTrainOn(r) \/ Training(p)!BatchRaises(r)
             \/ Training(p)!WriteRaises(r) \/ Training(p)!Interrupted(r) \/ Training(p)!TimesOut(r)
    BY <1>1, <2>6, FailureFails
  <2>7. CASE Training(p)!BatchTooLarge(r)
    <3>1. CASE Loops[p].data_parallel
      BY <1>1, <2>7, <3>1, BatchGoesOn
    <3>2. CASE ~Loops[p].data_parallel
      BY <1>1, <2>7, <3>2, FailureFails
    <3> QED BY <3>1, <3>2
  <2> QED BY <2>1, <2>2, <2>3, <2>4, <2>5, <2>6, <2>7 DEF Training!RankStep
<1>3. InStepInv(p)'
  BY <1>1, <1>2, GoesOnInStep, FailsInStep
<1> QED BY <1>1, <1>3 DEF LoopInv

LEMMA InStepStays ==
    ASSUME NEW p \in DOMAIN Loops, InStepInv(p),
           UNCHANGED <<at, step, training_step, updates, final, last_saved_step, stopper,
                       errors>>
    PROVE  InStepInv(p)'
<1>1. /\ \A q \in Training(p)!Ranks : Dest(p, q)' = Dest(p, q)
      /\ \A q \in Training(p)!Ranks : Training(p)!Sound(q)' <=> Training(p)!Sound(q)
  BY DEF Dest, HasLeft, Training!Sound
<1>2. /\ Clean(p)' <=> Clean(p)
      /\ \A q \in Training(p)!Ranks : Peer(p, q)' <=> Peer(p, q)
  BY <1>1 DEF Clean, Peer
<1>3. PeersAreSame(p)'
  BY <1>1, <1>2 DEF InStepInv, PeersAreSame, Same
<1>5. SavesWithRank0(p)'
  BY LoopFacts, <1>1 DEF InStepInv, SavesWithRank0
<1>6. Training(p)!NoRankIsLeftWaiting'
  BY DEF InStepInv, Training!NoRankIsLeftWaiting
<1> QED BY <1>3, <1>5, <1>6 DEF InStepInv

LEMMA LoopNext ==
    ASSUME NEW p \in DOMAIN Loops, LoopInv(p), Training(p)!Next
    PROVE  LoopInv(p)'
<1>1. CASE \E r \in Training(p)!Ranks : Training(p)!RankStep(r)
  BY <1>1, RankStepKeepsLoop
<1>2. CASE Training(p)!Judge
  <2>1. Steady(p) /\ InStepInv(p) /\ Steady(p)' /\ 0 \in Training(p)!Ranks
    BY <1>2, JudgeSteady, LoopFacts DEF LoopInv
  <2> QED BY <1>2, <2>1, JudgeGoesOn, GoesOnInStep, JudgeInStep DEF LoopInv
<1>3. CASE \E kind \in Training(p)!Kinds : Training(p)!Collective(kind)
  BY <1>3, CollectiveSteady, CollectiveInStep DEF LoopInv
<1>4. CASE Training(p)!ParentRaises \/ Training(p)!Ended
  <2>1. /\ UNCHANGED <<at, step, training_step, updates, left, oom, final, last_saved_step,
                       saved, stopper, errors, ooms>>
        /\ parent' \in {"joining", "raised"}
        /\ parent' = "raised" => errors # {}
    BY <1>4 DEF Training!ParentRaises, Training!Ended, Training!vars, Training!local,
                Training!model, Training!disk, LoopInv, Steady, Training!TypeOK
  <2>2. Steady(p)'
    BY <2>1 DEF LoopInv, Steady, StopperOK, Training!TypeOK
  <2>3. InStepInv(p)'
    BY <2>1, InStepStays DEF LoopInv
  <2> QED BY <2>2, <2>3 DEF LoopInv
<1> QED BY <1>1, <1>2, <1>3, <1>4 DEF Training!Next

LEMMA LoopInit ==
    ASSUME NEW p \in DOMAIN Loops, Training(p)!Init
    PROVE  LoopInv(p)
<1> USE LoopFacts
<1>1. Steady(p)
  <2>1. Training(p)!TypeOK /\ StopperOK(p)
    <3>1. stopper \in Training(p)!Stopping!Stopper
      BY DEF Training!Stopping!NewStopper, Training!Stopping!Stopper,
             Training!Stopping!Scores, Training!Init
    <3> QED BY <3>1 DEF Training!Init, Training!TypeOK, StopperOK, Training!Working,
                        Training!Stopping!NewStopper
  <2> QED BY <2>1 DEF Training!Init, Steady, Training!Stopping!NewStopper
<1>2. \A r, q \in Training(p)!Ranks : Same(p, r, q)
  BY DEF Training!Init, Same, Dest, HasLeft
<1>3. InStepInv(p)
  <2>1. \A r \in Training(p)!Ranks : Dest(p, r).at \notin {"state", "barrier"}
    BY DEF Training!Init, Dest, From, FromNext, There
  <2> QED BY <1>2, <2>1 DEF Training!Init, InStepInv, PeersAreSame,
                            SavesWithRank0, Training!NoRankIsLeftWaiting
<1> QED BY <1>1, <1>3 DEF LoopInv

LEMMA LoopInStep ==
    ASSUME NEW p \in DOMAIN Loops, LoopInv(p)
    PROVE  /\ Training(p)!TypeOK
           /\ Training(p)!RanksInStep
           /\ Training(p)!NoRankIsLeftWaiting
<1>1. Training(p)!TypeOK /\ Training(p)!NoRankIsLeftWaiting
  BY DEF LoopInv, Steady, InStepInv
<1>2. Training(p)!RanksInStep
  <2> SUFFICES ASSUME stopper.status # "stopped",
                      NEW r \in Training(p)!Ranks, NEW q \in Training(p)!Ranks,
                      Training(p)!Sound(r), at[r] \in Training(p)!Waiting,
                      Training(p)!Sound(q), at[q] \in Training(p)!Waiting
               PROVE  /\ at[r] = at[q] /\ step[r] = step[q] /\ updates[r] = updates[q]
                      /\ last_saved_step[r] = last_saved_step[q]
    BY DEF Training!RanksInStep
  <2>1. Same(p, r, q)
    BY DEF LoopInv, InStepInv, PeersAreSame, Peer
  <2> QED BY <2>1, Arrived DEF Same, There
<1> QED BY <1>1, <1>2

LEMMA LoopStutters ==
    ASSUME NEW p \in DOMAIN Loops, LoopInv(p), UNCHANGED <<loop, training_step, stopper>>
    PROVE  LoopInv(p)'
<1>1. /\ UNCHANGED <<at, step, training_step, updates, left, oom, final, last_saved_step,
                     saved, stopper, errors, ooms, parent>>
  BY DEF loop
<1>2. Steady(p)'
  BY <1>1 DEF LoopInv, Steady, StopperOK, Training!TypeOK
<1>3. InStepInv(p)'
  BY <1>1, InStepStays DEF LoopInv
<1> QED BY <1>2, <1>3 DEF LoopInv

(* While one process group runs, its steps are those of the bench.         *)
LEMMA LoopRuns ==
    ASSUME [BenchNext]_benchVars, NEW p \in DOMAIN Loops, running' = p
    PROVE  running = p /\ (Training(p)!Next \/ UNCHANGED benchVars)
<1>1. p \notin {"stopping", "schedule"}
  BY BenchAssumption
<1> QED BY <1>1 DEF BenchNext, TrainingNext, Loop, StoppingNext, ValidationsAreOver,
                    SchedulingNext, benchVars

LEMMA LoopStarts ==
    ASSUME BenchInit, NEW p \in DOMAIN Loops, running = p
    PROVE  Training(p)!Init
BY BenchAssumption DEF BenchInit

LoopsInv == \A p \in DOMAIN Loops : running = p => LoopInv(p)

LEMMA LoopsInit == BenchInit => LoopsInv
BY LoopStarts, LoopInit DEF LoopsInv

LEMMA LoopsNext == LoopsInv /\ [BenchNext]_benchVars => LoopsInv'
<1> SUFFICES ASSUME LoopsInv, [BenchNext]_benchVars, NEW p \in DOMAIN Loops, running' = p
             PROVE  LoopInv(p)'
  BY DEF LoopsInv
<1>1. LoopInv(p) /\ (Training(p)!Next \/ UNCHANGED benchVars)
  BY LoopRuns DEF LoopsInv
<1>2. CASE Training(p)!Next
  BY <1>1, <1>2, LoopNext
<1>3. CASE UNCHANGED benchVars
  BY <1>1, <1>3, LoopStutters DEF benchVars
<1> QED BY <1>1, <1>2, <1>3

(* Ranks that wait, wait for the same collective of the same step, holding *)
(* the same weights, and none is killed by the timeout while nothing has   *)
(* failed (Trainer.train), whatever the number of ranks, the options and   *)
(* the batches each rank is supplied with before its iterator raises.      *)
THEOREM RanksTogether == BenchSpec => []RanksStayTogether
<1>1. LoopsInv => RanksStayTogether
  BY LoopInStep DEF LoopsInv, RanksStayTogether, OfLoop
<1> QED BY <1>1, LoopsInit, LoopsNext, PTL DEF BenchSpec

------------------------------------------------------------------------------
(* 4. Checkpoints.                                                         *)

(* The counters of a rank: its step is the one its update is to complete,  *)
(* or has completed.                                                       *)
Counted(r) ==
    /\ training_step[r] = updates[r] + 1
    /\ step[r] <= training_step[r] /\ (step[r] # 0 => updates[r] <= step[r])
    /\ at[r] \in {"norm", "compute", "forward", "oom", "grads"}
        => step[r] = training_step[r]

(* What rank 0 has saved: its checkpoints are of steps up to its own, and  *)
(* of steps up to the last it knows of unless it has just written one.     *)
RankZeroSaves ==
    /\ last_saved_step[0] <= step[0]
    /\ at[0] \in {"state", "write"} => step[0] # last_saved_step[0]
    /\ at[0] = "barrier" => \E c \in saved : c.step = step[0]
    /\ \A c \in saved :
        /\ c.step <= step[0]
        /\ at[0] \notin {"barrier", "aborted"} => c.step <= last_saved_step[0]

SaveInv(p) ==
    /\ \A r \in Training(p)!Ranks : Counted(r)
    /\ RankZeroSaves
    /\ Training(p)!CheckpointCounts
    /\ Training(p)!SavedIsWritten

(* A rank changes its place only, and has not written.                     *)
Moves(r) ==
    \/ at'[r] = at[r]
    \/ at[r] = "barrier" /\ at'[r] = "aborted"
    \/ /\ at[r] \notin {"barrier", "aborted", "done"}
       /\ at'[r] \notin {"norm", "compute", "forward", "oom", "grads", "state", "write",
                         "barrier"}
    \/ at[r] = "compute" /\ at'[r] \in {"oom", "forward"}
    \/ at[r] = "save" /\ at'[r] \in {"state", "write"} /\ step[r] # last_saved_step[r]

LEMMA MoveSaves ==
    ASSUME NEW p \in DOMAIN Loops, SaveInv(p),
           UNCHANGED <<step, training_step, updates, last_saved_step, saved>>,
           errors \subseteq errors',
           \A r \in Training(p)!Ranks : Moves(r) \/ (r # 0 /\ at'[r] = "barrier")
    PROVE  SaveInv(p)'
<1>0. 0 \in Training(p)!Ranks
  BY LoopFacts
<1>1. RankZeroSaves'
  BY <1>0 DEF SaveInv, RankZeroSaves, Moves
<1>2. ASSUME NEW r \in Training(p)!Ranks PROVE Counted(r)'
  BY DEF SaveInv, Counted, Moves
<1>3. at[0] = "done" => at'[0] = "done"
  BY <1>0 DEF Moves
<1>4. Training(p)!SavedIsWritten'
  BY <1>3 DEF SaveInv, Training!SavedIsWritten
<1>5. Training(p)!CheckpointCounts'
  BY DEF SaveInv, Training!CheckpointCounts
<1> QED BY <1>1, <1>2, <1>4, <1>5 DEF SaveInv

LEMMA SaveTypes ==
    ASSUME NEW p \in DOMAIN Loops, Steady(p)
    PROVE  /\ step \in [Training(p)!Ranks -> Nat]
           /\ training_step \in [Training(p)!Ranks -> Nat]
           /\ updates \in [Training(p)!Ranks -> Nat]
           /\ last_saved_step \in [Training(p)!Ranks -> Nat]
           /\ saved \subseteq [step : Nat, training_step : Nat, updates : Nat]
           /\ at \in [Training(p)!Ranks -> Training(p)!Waiting \cup Training(p)!Working
                                             \cup Training(p)!Over]
           /\ 0 \in Training(p)!Ranks
BY LoopFacts DEF Steady, Training!TypeOK

LEMMA FetchSaves ==
    ASSUME NEW p \in DOMAIN Loops, Steady(p), SaveInv(p), NEW r \in Training(p)!Ranks,
           Training(p)!Fetch(r)
    PROVE  SaveInv(p)'
<1> USE SaveTypes
<1>1. /\ step' = [step EXCEPT ![r] = training_step[r]]
      /\ at' = [at EXCEPT ![r] = IF Loops[p].data_parallel THEN "norm" ELSE "compute"]
      /\ at[r] = "next"
      /\ UNCHANGED <<training_step, updates, last_saved_step, saved, errors>>
  BY DEF Training!Fetch, Training!Goto, Training!model, Training!disk
<1>2. /\ step'[r] = training_step[r] /\ at'[r] \in {"norm", "compute"}
      /\ \A q \in Training(p)!Ranks \ {r} : step'[q] = step[q] /\ at'[q] = at[q]
  BY <1>1
<1>3. RankZeroSaves'
  <2>1. CASE r = 0
    <3>1. \A c \in saved : c.step \in Nat /\ c.step <= last_saved_step[0]
      BY <1>1, <2>1 DEF SaveInv, RankZeroSaves
    <3>2. last_saved_step[0] <= training_step[0]
      BY DEF SaveInv, RankZeroSaves, Counted
    <3> QED BY <1>1, <1>2, <2>1, <3>1, <3>2 DEF RankZeroSaves
  <2>2. CASE r # 0
    BY <1>1, <1>2, <2>2 DEF SaveInv, RankZeroSaves
  <2> QED BY <2>1, <2>2
<1>4. ASSUME NEW q \in Training(p)!Ranks PROVE Counted(q)'
  BY <1>1, <1>2 DEF SaveInv, Counted
<1>5. Training(p)!SavedIsWritten'
  <2>1. at[0] = "done" => at'[0] = "done"
    BY <1>1, <1>2
  <2> QED BY <1>1, <2>1 DEF SaveInv, Training!SavedIsWritten
<1>6. Training(p)!CheckpointCounts'
  BY <1>1 DEF SaveInv, Training!CheckpointCounts
<1> QED BY <1>3, <1>4, <1>5, <1>6 DEF SaveInv

LEMMA WriteSaves ==
    ASSUME NEW p \in DOMAIN Loops, Steady(p), SaveInv(p), Training(p)!Write(0)
    PROVE  SaveInv(p)'
<1> USE SaveTypes
<1> DEFINE new == [step |-> step[0], updates |-> updates[0],
                   training_step |-> training_step[0]]
<1>1. /\ saved' = saved \cup {new} /\ at[0] = "write"
      /\ at' = [at EXCEPT ![0] = "barrier"]
      /\ UNCHANGED <<step, training_step, updates, last_saved_step, errors>>
  BY DEF Training!Write, Training!Goto, Training!local, Training!model
<1>2. /\ at'[0] = "barrier"
      /\ \A q \in Training(p)!Ranks \ {0} : at'[q] = at[q]
  BY <1>1
<1>3. /\ step[0] \in Nat /\ updates[0] \in Nat /\ training_step[0] \in Nat
      /\ last_saved_step[0] \in Nat
      /\ last_saved_step[0] < step[0]
      /\ training_step[0] = updates[0] + 1
      /\ step[0] - updates[0] \in {0, 1}
  BY <1>1 DEF SaveInv, RankZeroSaves, Counted
<1>4. \A c \in saved : c.step \in Nat /\ c.step < step[0]
  BY <1>1, <1>3 DEF SaveInv, RankZeroSaves
<1>5. new \in saved' /\ new.step = step[0] /\ new.updates = updates[0]
      /\ new.training_step = training_step[0]
  BY <1>1
<1>6. \A c \in saved' : c \in saved \/ c = new
  BY <1>1
<1> HIDE DEF new
<1>7. RankZeroSaves'
  BY <1>1, <1>2, <1>3, <1>4, <1>5, <1>6 DEF SaveInv, RankZeroSaves
<1>8. ASSUME NEW q \in Training(p)!Ranks PROVE Counted(q)'
  BY <1>1, <1>2 DEF SaveInv, Counted
<1>9. Training(p)!CheckpointCounts'
  BY <1>3, <1>4, <1>5, <1>6 DEF SaveInv, Training!CheckpointCounts
<1>10. Training(p)!SavedIsWritten'
  BY <1>1 DEF SaveInv, Training!SavedIsWritten
<1> QED BY <1>7, <1>8, <1>9, <1>10 DEF SaveInv

LEMMA RankStepSaves ==
    ASSUME NEW p \in DOMAIN Loops, Steady(p), SaveInv(p), NEW r \in Training(p)!Ranks,
           Training(p)!RankStep(r)
    PROVE  SaveInv(p)'
<1> USE LoopFacts, SaveTypes
    DEF Training!Goto, Training!Leave, Training!Raise, Training!Back,
        Training!local, Training!model, Training!disk
<1>1. CASE Training(p)!Fetch(r) \/ (r = 0 /\ Training(p)!Write(r))
  BY <1>1, FetchSaves, WriteSaves
<1>2. CASE r # 0 /\ Training(p)!Write(r)
  <2>1. /\ at' = [at EXCEPT ![r] = "barrier"]
        /\ UNCHANGED <<step, training_step, updates, last_saved_step, saved, errors>>
    BY <1>2 DEF Training!Write
  <2>2. \A q \in Training(p)!Ranks : Moves(q) \/ (q # 0 /\ at'[q] = "barrier")
    BY <1>2, <2>1 DEF Moves
  <2> QED BY <2>1, <2>2, MoveSaves
<1>3. CASE ~Training(p)!Fetch(r) /\ ~Training(p)!Write(r)
  <2>1. /\ UNCHANGED <<step, training_step, updates, last_saved_step, saved>>
        /\ errors \subseteq errors'
        /\ \A q \in Training(p)!Ranks \ {r} : at'[q] = at[q]
    BY <1>3 DEF Training!RankStep, Training!WriteRaises, Training!NothingToTrainOn,
         Training!BatchFits, Training!BatchTooLarge, Training!BatchRaises, Training!Report,
         Training!Validate, Training!JudgeNothing, Training!Checkpoint, Training!Save,
         Training!More, Training!Interrupted, Training!TimesOut
  <2>2. Moves(r)
    BY <1>3 DEF Moves, Training!RankStep, Training!WriteRaises, Training!NothingToTrainOn,
         Training!BatchFits, Training!BatchTooLarge, Training!BatchRaises, Training!Report,
         Training!Validate, Training!JudgeNothing, Training!Checkpoint, Training!Save,
         Training!More, Training!Interrupted, Training!TimesOut, Training!Working,
         Training!Waiting
  <2>3. \A q \in Training(p)!Ranks : Moves(q)
    BY <2>1, <2>2 DEF Moves
  <2> QED BY <2>1, <2>3, MoveSaves
<1> QED BY <1>1, <1>2, <1>3

LEMMA CollectiveSaves ==
    ASSUME NEW p \in DOMAIN Loops, LoopInv(p), SaveInv(p), NEW kind,
           Training(p)!Collective(kind)
    PROVE  SaveInv(p)'
<1>0. 0 \in Training(p)!Ranks /\ Steady(p)
  BY LoopFacts DEF LoopInv
<1> USE SaveTypes
<1>1. ASSUME NEW r \in Training(p)!Ranks
      PROVE  /\ at[r] \in Training(p)!Waiting
             /\ at'[r] = Training(p)!After(r)
             /\ training_step'[r] = training_step[r] + IF at[r] = "grads" THEN 1 ELSE 0
             /\ updates'[r] = updates[r] + IF at[r] = "grads" THEN 1 ELSE 0
             /\ last_saved_step'[r] = IF at[r] = "barrier" THEN step[r]
                                      ELSE last_saved_step[r]
             /\ step' = step /\ saved' = saved /\ errors' = errors
             /\ at'[r] \notin {"norm", "forward", "oom", "state", "barrier", "aborted"}
             /\ at'[r] = "compute" => at[r] = "norm"
             /\ at'[r] = "grads" => at[r] \in {"forward", "oom"}
             /\ at'[r] = "write" => at[r] = "state"
             /\ at[r] = "grads" => at'[r] = "report"
             /\ at[r] = "barrier" => at'[r] \in {"exit", "more"}
             /\ at[r] = "exit" => at'[r] = "done"
  <2>1. at[r] \in Training(p)!Waiting /\ at'[r] = Training(p)!After(r)
    BY <1>0, CollectiveFacts
  <2> QED BY <1>0, <2>1, CollectiveFacts DEF Training!After, Training!Waiting, Training!AnyOom
<1>2. ASSUME NEW r \in Training(p)!Ranks PROVE Counted(r)'
  <2>1. /\ step[r] \in Nat /\ training_step[r] \in Nat /\ updates[r] \in Nat
        /\ Counted(r)
    BY <1>0 DEF SaveInv
  <2>2. CASE at[r] = "grads"
    BY <1>1, <2>1, <2>2 DEF Counted
  <2>3. CASE at[r] # "grads"
    BY <1>1, <2>1, <2>3 DEF Counted
  <2> QED BY <2>2, <2>3
<1>3. RankZeroSaves'
  <2>1. /\ step[0] \in Nat /\ last_saved_step[0] \in Nat
        /\ \A c \in saved : c.step \in Nat
        /\ RankZeroSaves
    BY <1>0 DEF SaveInv
  <2>2. CASE at[0] = "barrier"
    BY <1>0, <1>1, <2>1, <2>2 DEF RankZeroSaves
  <2>3. CASE at[0] # "barrier"
    BY <1>0, <1>1, <2>1, <2>3 DEF RankZeroSaves, Training!Waiting
  <2> QED BY <2>2, <2>3
<1>4. Training(p)!CheckpointCounts'
  BY <1>0, <1>1 DEF SaveInv, Training!CheckpointCounts
<1>5. Training(p)!SavedIsWritten'
  <2> SUFFICES ASSUME NEW r \in Training(p)!Ranks, last_saved_step'[r] > 0
               PROVE  \/ \E c \in saved : c.step = last_saved_step'[r]
                      \/ /\ errors # {} /\ at'[0] = "done"
                         /\ updates'[r] <= last_saved_step'[r]
    BY <1>0, <1>1 DEF Training!SavedIsWritten
  <2>1. CASE at[r] # "barrier"
    <3>1. last_saved_step'[r] = last_saved_step[r] /\ at[0] # "done"
      BY <1>0, <1>1, <2>1 DEF Training!Waiting
    <3> QED BY <3>1 DEF SaveInv, Training!SavedIsWritten
  <2>2. CASE at[r] = "barrier"
    <3>1. last_saved_step'[r] = step[r] /\ updates'[r] = updates[r]
      BY <1>0, <1>1, <2>2
    <3>2. \/ at[0] = "barrier" /\ step[0] = step[r]
          \/ at[0] = "exit" /\ errors # {}
      <4>1. CASE r = 0
        BY <2>2, <4>1
      <4>2. CASE r # 0
        <5>1. Training(p)!Sound(r) /\ Dest(p, r).at = "barrier" /\ Dest(p, r).step = step[r]
          BY <1>1, <2>2, Arrived DEF There, Training!Sound, Training!Over
        <5>2. CASE at[0] = "exit" /\ errors # {}
          BY <5>2
        <5>3. CASE ~(at[0] = "exit" /\ errors # {})
          <6>1. Dest(p, 0).at = "barrier" /\ Dest(p, 0).step = step[r]
            BY <1>0, <1>1, <4>2, <5>1, <5>3
               DEF LoopInv, InStepInv, SavesWithRank0, Training!Waiting, Training!Over
          <6> QED BY <1>0, <1>1, <6>1, Arrived DEF There
        <5> QED BY <5>2, <5>3
      <4> QED BY <4>1, <4>2
    <3>3. CASE at[0] = "barrier" /\ step[0] = step[r]
      BY <3>1, <3>3 DEF SaveInv, RankZeroSaves
    <3>4. CASE at[0] = "exit" /\ errors # {}
      <4>1. updates[r] <= step[r]
        BY <1>0, <3>1 DEF SaveInv, Counted
      <4> QED BY <1>0, <1>1, <3>1, <3>4, <4>1
    <3> QED BY <3>2, <3>3, <3>4
  <2> QED BY <2>1, <2>2
<1> QED BY <1>2, <1>3, <1>4, <1>5 DEF SaveInv

LEMMA SaveNext ==
    ASSUME NEW p \in DOMAIN Loops, LoopInv(p), SaveInv(p), Training(p)!Next
    PROVE  SaveInv(p)'
<1>1. CASE \E r \in Training(p)!Ranks : Training(p)!RankStep(r)
  BY <1>1, RankStepSaves DEF LoopInv
<1>2. CASE Training(p)!Judge
  <2>1. /\ UNCHANGED <<step, training_step, updates, last_saved_step, saved, errors>>
        /\ at[0] = "judge" /\ at'[0] \in {"save", "checkpoint"}
        /\ \A q \in Training(p)!Ranks \ {0} : at'[q] = at[q]
    BY <1>2, LoopFacts DEF Training!Judge, Training!Leave, Training!Goto, Training!model,
              Training!disk, LoopInv, Steady, Training!TypeOK
  <2> QED BY <2>1, MoveSaves DEF Moves
<1>3. CASE \E kind \in Training(p)!Kinds : Training(p)!Collective(kind)
  BY <1>3, CollectiveSaves
<1>4. CASE Training(p)!ParentRaises \/ Training(p)!Ended
  <2>1. UNCHANGED <<at, step, training_step, updates, last_saved_step, saved, errors>>
    BY <1>4 DEF Training!ParentRaises, Training!Ended, Training!vars, Training!local,
                Training!model, Training!disk
  <2> QED BY <2>1, MoveSaves DEF Moves
<1> QED BY <1>1, <1>2, <1>3, <1>4 DEF Training!Next

LEMMA SaveInit ==
    ASSUME NEW p \in DOMAIN Loops, Training(p)!Init
    PROVE  SaveInv(p)
<1>1. RankZeroSaves /\ \A r \in Training(p)!Ranks : Counted(r)
  BY LoopFacts DEF RankZeroSaves, Counted, Training!Init
<1> QED BY <1>1 DEF Training!Init, SaveInv, Training!CheckpointCounts, Training!SavedIsWritten

SavesInv == LoopsInv /\ \A p \in DOMAIN Loops : running = p => SaveInv(p)

(* A checkpoint contains the updates its name and counter tell, none is    *)
(* written twice with two contents, and no rank trains on before it has    *)
(* been written, also if the save raises (Optimizer.step, ModelSaver.save),*)
(* whatever the options and the batches the ranks are supplied with.       *)
THEOREM CheckpointsSound == BenchSpec => []CheckpointsAreSound
<1>1. BenchInit => SavesInv
  BY LoopsInit, LoopStarts, SaveInit DEF SavesInv
<1>2. SavesInv /\ [BenchNext]_benchVars => SavesInv'
  <2> SUFFICES ASSUME SavesInv, [BenchNext]_benchVars, NEW p \in DOMAIN Loops, running' = p
               PROVE  SaveInv(p)'
    BY LoopsNext DEF SavesInv
  <2>1. /\ LoopInv(p) /\ SaveInv(p)
        /\ Training(p)!Next \/ UNCHANGED benchVars
    BY LoopRuns DEF SavesInv, LoopsInv
  <2>2. CASE Training(p)!Next
    BY <2>1, <2>2, SaveNext
  <2>3. CASE UNCHANGED benchVars
    BY <2>1, <2>3, MoveSaves DEF benchVars, loop, Moves
  <2> QED BY <2>1, <2>2, <2>3
<1>3. SavesInv => CheckpointsAreSound
  BY DEF SavesInv, SaveInv, CheckpointsAreSound, OfLoop
<1> QED BY <1>1, <1>2, <1>3, PTL DEF BenchSpec

------------------------------------------------------------------------------
(* 5. Gathering of objects.                                                *)

(* What the rank waits to send is in its buffer, behind its size.          *)
SentIsReady ==
    \A r \in Ranks : pc[r] = "sent" =>
        /\ SizeOf(header[r]) = size[r]
        /\ \A j \in 1 .. size[r] : in_buffer[r][j] = <<r, call[r], j>>

(* What the rank has received and not decoded is what was sent.            *)
ReceivedIsWhole ==
    \A r, q \in Ranks : pc[r] = "received" /\ call[q] = call[r] =>
        /\ SizeOf(out_headers[r][q]) = size[q]
        /\ \A j \in 1 .. size[q] : out_buffers[r][q][j] = <<q, call[q], j>>

(* The collectives a rank has been through.                                *)
Passed(r) == IF pc[r] \in {"received", "returned"} THEN call[r] ELSE call[r] - 1

(* No rank has been through a collective that another has not.             *)
InStep == \A r, q \in Ranks : Passed(r) = Passed(q)

Shapes ==
    /\ DOMAIN in_buffer = Ranks
    /\ DOMAIN out_buffers = Ranks
    /\ DOMAIN results = Ranks

IInv ==
    /\ TypeOK
    /\ Shapes
    /\ InStep
    /\ SentIsReady
    /\ ReceivedIsWhole
    /\ EveryoneHasEveryObject

(* Two bytes hold every size below Base * Modulo, and give it back.        *)
THEOREM HeaderIsExact ==
    ASSUME NEW n \in Nat, n < Base * Modulo
    PROVE  /\ Header(n) \in Bytes \X Bytes
           /\ SizeOf(Header(n)) = n
<1> DEFINE hi == n \div Base
           lo == n % Base
<1>1. /\ Base \in Nat \ {0} /\ Modulo \in Nat \ {0} /\ Base <= Modulo
  BY ListGatheringAssumption
<1>2. hi \in Nat /\ lo \in 0 .. Base - 1
  BY <1>1
<1>3. n = Base * hi + lo
  BY <1>1
<1>4. hi < Modulo
  <2>1. SUFFICES ASSUME hi >= Modulo PROVE FALSE
    BY <1>1, <1>2
  <2> HIDE DEF hi, lo
  <2>2. Base * hi >= Base * Modulo
    BY <1>1, <1>2, <2>1
  <2>3. Base * hi \in Nat /\ Base * Modulo \in Nat
    BY <1>1, <1>2
  <2> QED
    BY <1>2, <1>3, <2>2, <2>3
<1>5. Header(n) = <<hi, lo>>
  BY DEF Header
<1> HIDE DEF hi, lo
<1> QED
  BY <1>1, <1>2, <1>3, <1>4, <1>5 DEF Bytes, SizeOf

(* A rank that has what it gathered is one call behind those that have not *)
(* yet sent or not yet received.                                           *)
Behind(r) == pc[r] \in {"received", "returned"}

LEMMA Turns ==
    ASSUME TypeOK, InStep, NEW r \in Ranks, NEW q \in Ranks
    PROVE  /\ call[r] \in Nat \ {0} /\ call[q] \in Nat \ {0}
           /\ (Behind(r) <=> Behind(q)) => call[r] = call[q]
           /\ Behind(r) /\ ~Behind(q) => call[q] = call[r] + 1
<1>1. call[r] \in Nat \ {0} /\ call[q] \in Nat \ {0}
  BY DEF TypeOK
<1>2. Passed(r) = Passed(q)
  BY DEF InStep
<1> QED
  BY <1>1, <1>2 DEF Passed, Behind

LEMMA InitIInv == Init => IInv
<1> SUFFICES ASSUME Init PROVE IInv
  OBVIOUS
<1>1. 0 \in Bytes
  BY ListGatheringAssumption DEF Bytes
<1>2. TypeOK
  BY <1>1 DEF Init, TypeOK
<1>3. InStep
  BY DEF Init, InStep, Passed
<1>4. Shapes /\ SentIsReady /\ ReceivedIsWhole /\ EveryoneHasEveryObject
  BY DEF Init, Shapes, SentIsReady, ReceivedIsWhole, EveryoneHasEveryObject
<1> QED
  BY <1>2, <1>3, <1>4 DEF IInv

LEMMA SendIInv ==
    ASSUME IInv, NEW r \in Ranks, NEW n \in Sizes, Send(r, n)
    PROVE  IInv'
<1> USE DEF IInv
<1>1. /\ n \in Nat /\ call[r] \in 1 .. Calls /\ n + 2 <= MaxSize[call[r]]
  BY ListGatheringAssumption DEF Send, TypeOK
<1>2. MaxSize[call[r]] \in Nat /\ MaxSize[call[r]] < Base * Modulo
  BY <1>1, ListGatheringAssumption
<1>3. n < Base * Modulo
  <2> Base * Modulo \in Nat
    BY ListGatheringAssumption
  <2> QED
    BY <1>1, <1>2
<1>4. Header(n) \in Bytes \X Bytes /\ SizeOf(Header(n)) = n
  BY <1>1, <1>3, HeaderIsExact
<1>5. TypeOK'
  BY <1>1, <1>4 DEF Send, TypeOK
<1>6. InStep'
  BY DEF Send, InStep, Passed, TypeOK
<1>7. SentIsReady'
  <2> SUFFICES ASSUME NEW q \in Ranks, pc'[q] = "sent"
               PROVE  /\ SizeOf(header'[q]) = size'[q]
                      /\ \A j \in 1 .. size'[q] : in_buffer'[q][j] = <<q, call'[q], j>>
    BY DEF SentIsReady, SizeOf
  <2>1. CASE q = r
    <3>1. header'[q] = Header(n) /\ size'[q] = n /\ call'[q] = call[r]
      BY <2>1 DEF Send, TypeOK
    <3>2. \A j \in 1 .. n : j \in Places(call[r])
      BY <1>1, <1>2 DEF Places
    <3>3. ASSUME NEW j \in 1 .. n PROVE in_buffer'[q][j] = <<r, call[r], j>>
      <4> DEFINE cells == [i \in Places(call[r]) |->
                             IF i <= n THEN <<r, call[r], i>> ELSE Buffer(r, call[r])[i]]
      <4>1. j \in Places(call[r]) /\ j <= n
        BY <3>2, <1>1
      <4>2. cells[j] = <<r, call[r], j>>
        BY <4>1
      <4> HIDE DEF cells
      <4>3. in_buffer' = [in_buffer EXCEPT ![r] = cells]
        BY DEF Send, cells
      <4> QED
        BY <2>1, <4>2, <4>3 DEF Shapes
    <3> QED
      BY <1>4, <2>1, <3>1, <3>3
  <2>2. CASE q # r
    <3>1. pc[q] = "sent" /\ header'[q] = header[q] /\ size'[q] = size[q]
      BY <2>2 DEF Send, TypeOK
    <3>2. in_buffer'[q] = in_buffer[q] /\ call' = call
      BY <2>2 DEF Send, Shapes
    <3> QED
      BY <3>1, <3>2 DEF SentIsReady
  <2> QED
    BY <2>1, <2>2
<1>8. ReceivedIsWhole'
  <2> SUFFICES ASSUME NEW p \in Ranks, NEW q \in Ranks,
                      pc'[p] = "received", call'[q] = call'[p]
               PROVE  /\ SizeOf(out_headers'[p][q]) = size'[q]
                      /\ \A j \in 1 .. size'[q] :
                             out_buffers'[p][q][j] = <<q, call'[q], j>>
    BY DEF ReceivedIsWhole, SizeOf
  <2>1. pc[p] = "received" /\ call[q] = call[p]
    BY DEF Send, TypeOK
  <2>2. q # r
    BY <2>1, Turns DEF Send, Behind
  <2>3. size'[q] = size[q] /\ UNCHANGED <<call, out_headers, out_buffers>>
    BY <2>2 DEF Send, TypeOK
  <2> QED
    BY <2>1, <2>3 DEF ReceivedIsWhole
<1>9. EveryoneHasEveryObject'
  <2> SUFFICES ASSUME NEW p \in Ranks, NEW q \in Ranks,
                      pc'[p] = "returned", call'[q] = call'[p]
               PROVE  results'[p][q] = Message(q, call'[p], size'[q])
    BY DEF EveryoneHasEveryObject, Message
  <2>1. pc[p] = "returned" /\ call[q] = call[p]
    BY DEF Send, TypeOK
  <2>2. q # r
    BY <2>1, Turns DEF Send, Behind
  <2>3. size'[q] = size[q] /\ UNCHANGED <<call, results>>
    BY <2>2 DEF Send, TypeOK
  <2> QED
    BY <2>1, <2>3 DEF EveryoneHasEveryObject
<1>10. Shapes'
  BY DEF Send, Shapes
<1> QED
  BY <1>5, <1>6, <1>7, <1>8, <1>9, <1>10

LEMMA RefuseIInv ==
    ASSUME IInv, NEW r \in Ranks, NEW n \in Sizes, Refuse(r, n)
    PROVE  IInv'
<1> USE DEF IInv
<1>1. TypeOK' /\ Shapes'
  BY DEF Refuse, TypeOK, Shapes
<1>2. InStep'
  BY DEF Refuse, InStep, Passed, TypeOK
<1>3. SentIsReady'
  BY DEF Refuse, SentIsReady, TypeOK, SizeOf
<1>4. ReceivedIsWhole'
  BY DEF Refuse, ReceivedIsWhole, TypeOK, SizeOf
<1>5. EveryoneHasEveryObject'
  BY DEF Refuse, EveryoneHasEveryObject, TypeOK, Message
<1> QED
  BY <1>1, <1>2, <1>3, <1>4, <1>5

LEMMA AllGatherIInv == IInv /\ AllGather => IInv'
<1> SUFFICES ASSUME IInv, AllGather PROVE IInv'
  OBVIOUS
<1> USE DEF IInv
<1>1. TypeOK' /\ Shapes'
  BY DEF AllGather, TypeOK, Shapes
<1>2. \A r, q \in Ranks : call[r] = call[q]
  BY Turns DEF AllGather, Behind
<1>3. InStep'
  BY <1>2 DEF AllGather, InStep, Passed
<1>4. SentIsReady' /\ EveryoneHasEveryObject'
  BY DEF AllGather, SentIsReady, EveryoneHasEveryObject
<1>5. ReceivedIsWhole'
  BY DEF AllGather, ReceivedIsWhole, SentIsReady, SizeOf
<1> QED
  BY <1>1, <1>3, <1>4, <1>5

LEMMA ReceiveIInv ==
    ASSUME IInv, NEW r \in Ranks, Receive(r)
    PROVE  IInv'
<1> USE DEF IInv
<1>1. TypeOK' /\ Shapes'
  BY DEF Receive, TypeOK, Shapes
<1>2. InStep'
  BY DEF Receive, InStep, Passed, TypeOK
<1>3. SentIsReady'
  BY DEF Receive, SentIsReady, TypeOK, SizeOf
<1>4. ReceivedIsWhole'
  BY DEF Receive, ReceivedIsWhole, TypeOK, SizeOf
<1>5. EveryoneHasEveryObject'
  <2> SUFFICES ASSUME NEW p \in Ranks, NEW q \in Ranks,
                      pc'[p] = "returned", call'[q] = call'[p]
               PROVE  results'[p][q] = Message(q, call'[p], size'[q])
    BY DEF EveryoneHasEveryObject, Message
  <2>1. call[q] = call[p] /\ size'[q] = size[q] /\ call'[p] = call[p]
    BY DEF Receive
  <2>2. CASE p = r
    <3>1. results'[p][q] = Decoded(r, q)
      BY <2>2 DEF Receive, Shapes
    <3>2. /\ SizeOf(out_headers[r][q]) = size[q]
          /\ \A j \in 1 .. size[q] : out_buffers[r][q][j] = <<q, call[q], j>>
      BY <2>1, <2>2 DEF Receive, ReceivedIsWhole
    <3>3. Decoded(r, q) = [j \in 1 .. size[q] |-> out_buffers[r][q][j]]
      BY <3>2 DEF Decoded
    <3>4. Decoded(r, q) = [j \in 1 .. size[q] |-> <<q, call[q], j>>]
      BY <3>2, <3>3
    <3> QED
      BY <2>1, <3>1, <3>4 DEF Message
  <2>3. CASE p # r
    <3>1. results'[p] = results[p] /\ pc[p] = "returned"
      BY <2>3 DEF Receive, TypeOK, Shapes
    <3> QED
      BY <2>1, <3>1 DEF EveryoneHasEveryObject
  <2> QED
    BY <2>2, <2>3
<1> QED
  BY <1>1, <1>2, <1>3, <1>4, <1>5

LEMMA CallIInv ==
    ASSUME IInv, NEW r \in Ranks, Call(r)
    PROVE  IInv'
<1> USE DEF IInv
<1>1. TypeOK' /\ Shapes'
  BY DEF Call, TypeOK, Shapes
<1>2. InStep'
  <2>1. call'[r] = call[r] + 1 /\ pc[r] = "returned" /\ pc'[r] = "called"
    BY DEF Call, TypeOK
  <2>2. Passed(r)' = Passed(r)
    BY <2>1 DEF Passed, TypeOK
  <2>3. \A q \in Ranks : q # r => Passed(q)' = Passed(q)
    BY DEF Call, Passed, TypeOK
  <2> QED
    BY <2>2, <2>3 DEF InStep
<1>3. SentIsReady'
  BY DEF Call, SentIsReady, TypeOK, SizeOf
<1>4. ReceivedIsWhole'
  BY DEF Call, ReceivedIsWhole, InStep, Passed, TypeOK, SizeOf
<1>5. EveryoneHasEveryObject'
  BY DEF Call, EveryoneHasEveryObject, InStep, Passed, TypeOK, Message
<1> QED
  BY <1>1, <1>2, <1>3, <1>4, <1>5

(* No step of any rank disturbs the inductive invariant.                   *)
LEMMA NextIInv == IInv /\ [Next]_vars => IInv'
<1> SUFFICES ASSUME IInv, [Next]_vars PROVE IInv'
  OBVIOUS
<1>1. CASE UNCHANGED vars
  BY <1>1 DEF vars, IInv, TypeOK, Shapes, InStep, Passed, SentIsReady,
     ReceivedIsWhole, EveryoneHasEveryObject, SizeOf, Message
<1>2. ASSUME NEW r \in Ranks, NEW n \in Sizes, Send(r, n) \/ Refuse(r, n)
      PROVE  IInv'
  BY <1>2, SendIInv, RefuseIInv
<1>3. ASSUME NEW r \in Ranks, Receive(r) \/ Call(r) PROVE IInv'
  BY <1>3, ReceiveIInv, CallIInv
<1> QED
  BY <1>1, <1>2, <1>3, AllGatherIInv DEF Next

(* Every call of all_gather_list returns from every rank exactly the       *)
(* object it sent in that call.                                            *)
THEOREM GatheringIsExact == Spec => []EveryoneHasEveryObject
<1>1. IInv => EveryoneHasEveryObject
  BY DEF IInv
<1> QED
  BY <1>1, InitIInv, NextIInv, PTL DEF Spec

(* The two values of a header are always bytes.                            *)
THEOREM GatheringTypeOK == Spec => []TypeOK
<1>1. IInv => TypeOK
  BY DEF IInv
<1> QED
  BY <1>1, InitIInv, NextIInv, PTL DEF Spec

(* No rank gets a collective ahead of another.                             *)
THEOREM GatheringInStep == Spec => []InStep
<1>1. IInv => InStep
  BY DEF IInv
<1> QED
  BY <1>1, InitIInv, NextIInv, PTL DEF Spec

------------------------------------------------------------------------------
(* 6. Reduction of gradients.                                              *)

LEMMA ReductionFacts ==
    /\ Ranks # {} /\ IsFiniteSet(Ranks)
    /\ NumParams \in Nat \ {0} /\ ElementSize \in Nat \ {0} /\ BufferSize \in Nat \ {0}
    /\ \A m \in Models : m.experts \subseteq Reduction!Params /\ m.numels \subseteq Nat \ {0}
    /\ Reduction!Params = 1 .. NumParams
BY ModelsAssumption
   DEF Reduction!GradientReductionAssumption, Reduction!IsFiniteSet, IsFiniteSet,
       Reduction!Params

(* Adding up over the ranks: one element after the other is taken out.     *)
Chosen(s) == CHOOSE x \in s : TRUE

Adds(f, g) == \A s \in SUBSET Ranks :
    f[s] = IF s = {} THEN 0 ELSE g[Chosen(s)] + f[s \ {Chosen(s)}]

(* What is 1 for one rank and 0 for the others adds up to 1, and what is 0 *)
(* for all to 0.                                                           *)
Indicates(g, one, r0) == \A r \in Ranks : g[r] = IF one /\ r = r0 THEN 1 ELSE 0
SumOf(one, r0) == [s \in SUBSET Ranks |-> IF one /\ r0 \in s THEN 1 ELSE 0]

LEMMA SumExists ==
    ASSUME NEW g, NEW one \in BOOLEAN, NEW r0 \in Ranks, Indicates(g, one, r0)
    PROVE  Adds(SumOf(one, r0), g)
<1> SUFFICES ASSUME NEW s \in SUBSET Ranks, s # {}
             PROVE  SumOf(one, r0)[s] = g[Chosen(s)] + SumOf(one, r0)[s \ {Chosen(s)}]
  BY DEF Adds, SumOf
<1>1. Chosen(s) \in s /\ Chosen(s) \in Ranks /\ s \ {Chosen(s)} \in SUBSET Ranks
  BY DEF Chosen
<1> HIDE DEF Chosen
<1>2. SumOf(one, r0)[s] = IF one /\ r0 \in s THEN 1 ELSE 0
  BY DEF SumOf
<1>3. SumOf(one, r0)[s \ {Chosen(s)}] = IF one /\ r0 \in s \ {Chosen(s)} THEN 1 ELSE 0
  BY <1>1 DEF SumOf
<1> QED BY <1>1, <1>2, <1>3 DEF Indicates

LEMMA SumIsUnique ==
    ASSUME NEW f, NEW g, NEW one \in BOOLEAN, NEW r0 \in Ranks,
           Indicates(g, one, r0), Adds(f, g)
    PROVE  f[Ranks] = IF one THEN 1 ELSE 0
<1> DEFINE sum(s) == IF one /\ r0 \in s THEN 1 ELSE 0
           Bad == {n \in Nat : \E s \in SUBSET Ranks : Cardinality(s) = n /\ f[s] # sum(s)}
<1>1. Bad = {}
  <2> SUFFICES ASSUME Bad # {} PROVE FALSE
    OBVIOUS
  <2>1. PICK n \in Bad : \A k \in Bad : n <= k
    BY LeastNumber
  <2>2. PICK s \in SUBSET Ranks : Cardinality(s) = n /\ f[s] # sum(s)
    OBVIOUS
  <2>3. s # {}
    BY <2>2 DEF Adds
  <2>4. Chosen(s) \in s
    BY <2>3 DEF Chosen
  <2> DEFINE t == s \ {Chosen(s)}
  <2>5. f[s] = g[Chosen(s)] + f[t]
    BY <2>3 DEF Adds
  <2>6. IsFiniteSet(s)
    BY ReductionFacts, FS_Subset
  <2>7. IsFiniteSet(t) /\ Cardinality(t) = n - 1 /\ n \in Nat
    BY <2>2, <2>4, <2>6, FS_RemoveElement, FS_CardinalityType
  <2>8. n - 1 \in Nat /\ n - 1 \notin Bad
    BY <2>1, <2>7, FS_CardinalityType
  <2>9. f[t] = sum(t)
    BY <2>7, <2>8
  <2>10. g[Chosen(s)] = IF one /\ Chosen(s) = r0 THEN 1 ELSE 0
    BY <2>4 DEF Indicates
  <2> QED BY <2>2, <2>4, <2>5, <2>9, <2>10
<1>2. Cardinality(Ranks) \in Nat
  BY ReductionFacts, FS_CardinalityType
<1>3. f[Ranks] = sum(Ranks)
  BY <1>1, <1>2
<1> QED BY <1>3

(* The sum that the collective makes.                                      *)
LEMMA AddedUpIs ==
    ASSUME NEW i, NEW c \in Ranks \X Reduction!Params, NEW one \in BOOLEAN,
           NEW r0 \in Ranks,
           \A q \in Ranks : grad[q][posted[q].tensors[i]].from[c]
                                = IF one /\ q = r0 THEN 1 ELSE 0
    PROVE  Reduction!AddedUp(i)[c] = IF one THEN 1 ELSE 0
<1> DEFINE g == [q \in Ranks |-> grad[q][posted[q].tensors[i]].from[c]]
           sums(f) == f = [s \in SUBSET Ranks |->
                             IF s = {} THEN 0
                             ELSE grad[CHOOSE x \in s : TRUE]
                                    [posted[CHOOSE x \in s : TRUE].tensors[i]].from[c]
                                  + f[s \ {CHOOSE x \in s : TRUE}]]
           f0 == CHOOSE f : sums(f)
<1>1. Reduction!AddedUp(i)[c] = f0[Ranks]
  BY DEF Reduction!AddedUp, Reduction!MapThenSumSet, Reduction!MapThenFoldSet
<1>2. Indicates(g, one, r0)
  BY DEF Indicates
<1>3. \A s \in SUBSET Ranks : s # {} =>
          g[Chosen(s)] = grad[CHOOSE x \in s : TRUE]
                                    [posted[CHOOSE x \in s : TRUE].tensors[i]].from[c]
  BY DEF Chosen
<1>4. \A f : sums(f) => Adds(f, g)
  <2> SUFFICES ASSUME NEW f, sums(f), NEW s \in SUBSET Ranks
               PROVE  f[s] = IF s = {} THEN 0 ELSE g[Chosen(s)] + f[s \ {Chosen(s)}]
    BY DEF Adds
  <2> HIDE DEF g
  <2>1. f[s] = IF s = {} THEN 0
               ELSE grad[CHOOSE x \in s : TRUE]
                      [posted[CHOOSE x \in s : TRUE].tensors[i]].from[c]
                    + f[s \ {CHOOSE x \in s : TRUE}]
    BY Zenon
  <2> QED BY <1>3, <2>1 DEF Chosen
<1>5. sums(SumOf(one, r0))
  <2>1. Adds(SumOf(one, r0), g)
    BY <1>2, SumExists
  <2> HIDE DEF g
  <2>2. \A s \in SUBSET Ranks : SumOf(one, r0)[s] =
               IF s = {} THEN 0
               ELSE grad[CHOOSE x \in s : TRUE]
                      [posted[CHOOSE x \in s : TRUE].tensors[i]].from[c]
                    + SumOf(one, r0)[s \ {CHOOSE x \in s : TRUE}]
    BY <1>3, <2>1 DEF Adds, Chosen
  <2>3. SumOf(one, r0) = [s \in SUBSET Ranks |-> SumOf(one, r0)[s]]
    BY DEF SumOf
  <2> QED BY <2>2, <2>3
<1> HIDE DEF g, sums
<1>6. sums(f0)
  BY <1>5, Zenon
<1> HIDE DEF f0
<1>7. Adds(f0, g)
  BY <1>4, <1>6
<1>8. f0[Ranks] = IF one THEN 1 ELSE 0
  BY <1>2, <1>7, SumIsUnique
<1> QED BY <1>1, <1>8

(* Adding up along a sequence: its greatest place is taken out, then the   *)
(* next.                                                                   *)
Greatest(s) == CHOOSE x \in s : \A y \in s : x >= y

Totals(f, sizes, seq, n) ==
    f = [s \in SUBSET (1 .. n) |->
            IF s = {} THEN 0
            ELSE f[s \ {Greatest(s)}] + sizes[seq[Greatest(s)]] * ElementSize]

LEMMA GreatestIs ==
    ASSUME NEW s \in SUBSET Nat, NEW n \in s, \A y \in s : n >= y
    PROVE  Greatest(s) = n
<1>1. Greatest(s) \in s /\ \A y \in s : Greatest(s) >= y
  BY DEF Greatest
<1>2. Greatest(s) \in Nat /\ n \in Nat /\ n >= Greatest(s) /\ Greatest(s) >= n
  BY <1>1
<1> QED BY <1>2

LEMMA GreatestExists ==
    ASSUME NEW n \in Nat, NEW s \in SUBSET (1 .. n), s # {}
    PROVE  Greatest(s) \in s /\ \A y \in s : Greatest(s) >= y
<1> DEFINE T == {k \in Nat : \A y \in s : k >= y}
<1>1. n \in T
  OBVIOUS
<1>2. PICK k \in T : \A j \in T : k <= j
  <2> HIDE DEF T
  <2>1. T # {}
    BY <1>1
  <2>2. T \in SUBSET Nat
    BY DEF T
  <2> QED BY <2>1, <2>2, LeastNumber
<1>3. k \in s
  <2> SUFFICES ASSUME k \notin s PROVE FALSE
    OBVIOUS
  <2>1. PICK y \in s : TRUE
    OBVIOUS
  <2>2. k - 1 \in Nat /\ \A z \in s : k - 1 >= z
    BY <2>1
  <2> QED BY <1>2, <2>2
<1>4. \A y \in s : k >= y
  OBVIOUS
<1> QED BY <1>3, <1>4, GreatestIs

LEMMA TotalsExist ==
    ASSUME NEW sizes, NEW seq, NEW n \in Nat
    PROVE  \E f : Totals(f, sizes, seq, n)
<1> DEFINE P == {k \in Nat : \E f : Totals(f, sizes, seq, k)}
<1>1. 0 \in P
  <2>1. Totals([s \in SUBSET (1 .. 0) |-> 0], sizes, seq, 0)
    BY DEF Totals
  <2> QED BY <2>1
<1>2. ASSUME NEW k \in P PROVE k + 1 \in P
  <2>1. PICK f : Totals(f, sizes, seq, k)
    OBVIOUS
  <2> DEFINE g == [s \in SUBSET (1 .. k + 1) |->
                     IF k + 1 \in s
                     THEN f[s \ {k + 1}] + sizes[seq[k + 1]] * ElementSize
                     ELSE f[s]]
             next(s) == IF s = {} THEN 0
                        ELSE g[s \ {Greatest(s)}] + sizes[seq[Greatest(s)]] * ElementSize
  <2>2. ASSUME NEW s \in SUBSET (1 .. k + 1)
        PROVE  g[s] = next(s)
    <3>1. CASE k + 1 \in s
      <4>1. Greatest(s) = k + 1
        BY <3>1, GreatestIs
      <4>2. g[s \ {k + 1}] = f[s \ {k + 1}]
        OBVIOUS
      <4> QED BY <3>1, <4>1, <4>2
    <3>2. CASE k + 1 \notin s
      <4>1. s \in SUBSET (1 .. k)
        BY <3>2
      <4>2. g[s] = f[s]
        BY <3>2
      <4>3. f[s] = IF s = {} THEN 0
                   ELSE f[s \ {Greatest(s)}] + sizes[seq[Greatest(s)]] * ElementSize
        <5> DEFINE h == f
        <5>1. h = [t \in SUBSET (1 .. k) |->
                    IF t = {} THEN 0
                    ELSE f[t \ {Greatest(t)}] + sizes[seq[Greatest(t)]] * ElementSize]
          BY <2>1 DEF Totals
        <5> HIDE DEF h
        <5>2. h[s] = IF s = {} THEN 0
                     ELSE f[s \ {Greatest(s)}] + sizes[seq[Greatest(s)]] * ElementSize
          BY <4>1, <5>1
        <5> QED BY <5>2 DEF h
      <4>4. g[s \ {Greatest(s)}] = f[s \ {Greatest(s)}]
        BY <3>2, <4>1
      <4> QED BY <4>2, <4>3, <4>4
    <3> QED BY <3>1, <3>2
  <2>3. g = [s \in SUBSET (1 .. k + 1) |-> g[s]]
    OBVIOUS
  <2> HIDE DEF g
  <2>4. Totals(g, sizes, seq, k + 1)
    BY <2>2, <2>3 DEF Totals
  <2> QED BY <2>4
<1> HIDE DEF P
<1>3. P = Nat
  BY <1>1, <1>2, Induction DEF P
<1> QED BY <1>3 DEF P

(* The bytes of a sequence of parameters, of the sizes given.              *)
BytesOf(sizes, seq) ==
    Reduction!FoldLeft(LAMBDA n, p : n + sizes[p] * ElementSize, 0, seq)

LEMMA BytesSums ==
    ASSUME NEW sizes \in [Reduction!Params -> Nat \ {0}], NEW seq \in Seq(Reduction!Params)
    PROVE  \E sums : /\ sums[0] = 0
                     /\ \A k \in 1 .. Len(seq) :
                            sums[k] = sums[k - 1] + sizes[seq[k]] * ElementSize
                     /\ BytesOf(sizes, seq) = sums[Len(seq)]
<1> DEFINE n == Len(seq)
           f0 == CHOOSE f : Totals(f, sizes, seq, n)
<1>0. n \in Nat /\ DOMAIN seq = 1 .. n
  OBVIOUS
<1>1. Totals(f0, sizes, seq, n)
  <2> HIDE DEF n
  <2> QED BY <1>0, TotalsExist
<1>2. BytesOf(sizes, seq) = f0[1 .. n]
  BY <1>0 DEF BytesOf, Reduction!FoldLeft, Reduction!MapThenFoldSet, Totals, Greatest,
              Reduction!Max
<1> HIDE DEF f0, n
<1>3. \A s \in SUBSET (1 .. n) :
          f0[s] = IF s = {} THEN 0
                  ELSE f0[s \ {Greatest(s)}] + sizes[seq[Greatest(s)]] * ElementSize
  <2> DEFINE h == f0
  <2>1. h = [s \in SUBSET (1 .. n) |->
               IF s = {} THEN 0
               ELSE f0[s \ {Greatest(s)}] + sizes[seq[Greatest(s)]] * ElementSize]
    BY <1>1 DEF Totals
  <2> HIDE DEF h
  <2>2. \A s \in SUBSET (1 .. n) : h[s] = IF s = {} THEN 0
               ELSE f0[s \ {Greatest(s)}] + sizes[seq[Greatest(s)]] * ElementSize
    BY <2>1
  <2> QED BY <2>2 DEF h
<1> DEFINE sums == [k \in 0 .. n |-> f0[1 .. k]]
<1>4. sums[0] = 0
  <2>1. 1 .. 0 = {} /\ {} \in SUBSET (1 .. n) /\ 0 \in 0 .. n
    BY <1>0
  <2>2. f0[{}] = 0
    BY <1>3, <2>1
  <2> QED BY <2>1, <2>2
<1>5. \A k \in 1 .. n : sums[k] = sums[k - 1] + sizes[seq[k]] * ElementSize
  <2> SUFFICES ASSUME NEW k \in 1 .. n
               PROVE  sums[k] = sums[k - 1] + sizes[seq[k]] * ElementSize
    OBVIOUS
  <2>1. /\ 1 .. k \in SUBSET (1 .. n) /\ 1 .. k # {} /\ k \in 1 .. k
        /\ (1 .. k) \ {k} = 1 .. k - 1 /\ k \in 0 .. n /\ k - 1 \in 0 .. n
    <3>1. k \in Nat /\ n \in Nat /\ 1 <= k /\ k <= n
      BY <1>0
    <3>2. (1 .. k) \ {k} = 1 .. k - 1
      BY <3>1
    <3>3. k \in 1 .. k /\ k \in 0 .. n /\ k - 1 \in 0 .. n
      BY <3>1
    <3>4. \A i \in 1 .. k : i \in 1 .. n
      BY <3>1
    <3> QED BY <3>2, <3>3, <3>4
  <2>2. Greatest(1 .. k) = k
    BY <2>1, GreatestIs
  <2>3. f0[1 .. k] = f0[1 .. k - 1] + sizes[seq[k]] * ElementSize
    BY <1>3, <2>1, <2>2
  <2> QED BY <2>1, <2>3
<1>6. sums[n] = f0[1 .. n]
  BY <1>0
<1> HIDE DEF sums
<1> QED BY <1>2, <1>4, <1>5, <1>6 DEF n

LEMMA BytesAre ==
    ASSUME NEW sizes \in [Reduction!Params -> Nat \ {0}]
    PROVE  /\ BytesOf(sizes, <<>>) = 0
           /\ \A seq \in Seq(Reduction!Params) : BytesOf(sizes, seq) \in Nat
           /\ \A seq \in Seq(Reduction!Params), p \in Reduction!Params :
                  BytesOf(sizes, Append(seq, p)) = BytesOf(sizes, seq) + sizes[p] * ElementSize
<1>1. BytesOf(sizes, <<>>) = 0
  <2>1. <<>> \in Seq(Reduction!Params) /\ Len(<<>>) = 0
    OBVIOUS
  <2> QED BY <2>1, BytesSums
<1>2. ASSUME NEW seq \in Seq(Reduction!Params) PROVE BytesOf(sizes, seq) \in Nat
  <2>1. PICK sums : /\ sums[0] = 0
                    /\ \A k \in 1 .. Len(seq) :
                           sums[k] = sums[k - 1] + sizes[seq[k]] * ElementSize
                    /\ BytesOf(sizes, seq) = sums[Len(seq)]
    BY BytesSums
  <2> DEFINE P == {k \in Nat : k <= Len(seq) => sums[k] \in Nat}
  <2>2. 0 \in P
    BY <2>1
  <2>3. ASSUME NEW k \in P PROVE k + 1 \in P
    <3> SUFFICES ASSUME k + 1 <= Len(seq) PROVE sums[k + 1] \in Nat
      OBVIOUS
    <3>1. sums[k] \in Nat /\ sizes[seq[k + 1]] * ElementSize \in Nat
      BY ReductionFacts
    <3>2. sums[k + 1] = sums[k] + sizes[seq[k + 1]] * ElementSize
      BY <2>1
    <3> QED BY <3>1, <3>2
  <2> HIDE DEF P
  <2>4. P = Nat
    BY <2>2, <2>3, Induction DEF P
  <2>5. Len(seq) \in P
    BY <2>4
  <2> QED BY <2>1, <2>5 DEF P
<1>3. ASSUME NEW seq \in Seq(Reduction!Params), NEW p \in Reduction!Params
      PROVE  BytesOf(sizes, Append(seq, p)) = BytesOf(sizes, seq) + sizes[p] * ElementSize
  <2> DEFINE long == Append(seq, p)
  <2>1. /\ long \in Seq(Reduction!Params) /\ Len(seq) \in Nat /\ Len(long) = Len(seq) + 1
        /\ long[Len(seq) + 1] = p /\ \A k \in 1 .. Len(seq) : long[k] = seq[k]
    OBVIOUS
  <2> HIDE DEF long
  <2>2. PICK sums : /\ sums[0] = 0
                    /\ \A k \in 1 .. Len(seq) :
                           sums[k] = sums[k - 1] + sizes[seq[k]] * ElementSize
                    /\ BytesOf(sizes, seq) = sums[Len(seq)]
    BY BytesSums
  <2>3. PICK more : /\ more[0] = 0
                    /\ \A k \in 1 .. Len(long) :
                           more[k] = more[k - 1] + sizes[long[k]] * ElementSize
                    /\ BytesOf(sizes, long) = more[Len(long)]
    BY <2>1, BytesSums
  <2> DEFINE P == {k \in Nat : k <= Len(seq) => sums[k] = more[k]}
  <2>4. 0 \in P
    BY <2>2, <2>3
  <2>5. ASSUME NEW k \in P PROVE k + 1 \in P
    <3> SUFFICES ASSUME k + 1 <= Len(seq) PROVE sums[k + 1] = more[k + 1]
      OBVIOUS
    <3>1. k \in Nat /\ sums[k] = more[k] /\ k + 1 \in 1 .. Len(seq) /\ (k + 1) - 1 = k
      BY <2>1
    <3>2. k + 1 \in 1 .. Len(long) /\ long[k + 1] = seq[k + 1]
      BY <2>1, <3>1
    <3>3. sums[k + 1] = sums[k] + sizes[seq[k + 1]] * ElementSize
      BY <2>2, <3>1
    <3>4. more[k + 1] = more[k] + sizes[long[k + 1]] * ElementSize
      BY <2>3, <3>1, <3>2
    <3> QED BY <3>1, <3>2, <3>3, <3>4
  <2> HIDE DEF P
  <2>6. P = Nat
    BY <2>4, <2>5, Induction DEF P
  <2>7. sums[Len(seq)] = more[Len(seq)]
    BY <2>1, <2>6 DEF P
  <2>8. more[Len(seq) + 1] = more[Len(seq)] + sizes[p] * ElementSize
    <3>1. Len(seq) + 1 \in 1 .. Len(long) /\ (Len(seq) + 1) - 1 = Len(seq)
      BY <2>1
    <3> QED BY <2>1, <2>3, <3>1
  <2> QED BY <2>1, <2>2, <2>3, <2>7, <2>8 DEF long
<1> QED BY <1>1, <1>2, <1>3

LEMMA SizesOfTensors ==
    ASSUME Reduction!TypeOK, NEW p \in Reduction!Params
    PROVE  Reduction!Size(p) = numel[p] * ElementSize /\ Reduction!Size(p) \in Nat \ {0}
<1>1. numel[p] \in Nat \ {0} /\ ElementSize \in Nat \ {0}
  BY ReductionFacts DEF Reduction!TypeOK
<1>2. \A a, b \in Nat \ {0} : a * b \in Nat \ {0}
  OBVIOUS
<1> QED BY <1>1, <1>2 DEF Reduction!Size

(* What is packed is counted, and what is counted fits.                    *)
PackedFits ==
    /\ Reduction!TypeOK
    /\ \A r \in Ranks : /\ BytesOf(numel, buffer[r]) <= filled[r]
                        /\ posted[r].buffered
                               => BytesOf(numel, posted[r].tensors) <= BufferSize

(* What a rank takes from its tensors.                                     *)
LEMMA HeadFacts ==
    ASSUME Reduction!TypeOK, NEW r \in Ranks, Reduction!Working(r)
    PROVE  /\ Head(todo[r]) \in Reduction!Params
           /\ Tail(todo[r]) \in Seq(Reduction!Params)
           /\ Head(todo[r]) = todo[r][1]
           /\ Len(todo[r]) \in Nat \ {0}
           /\ Len(Tail(todo[r])) = Len(todo[r]) - 1
           /\ \A k \in 1 .. Len(todo[r]) - 1 : Tail(todo[r])[k] = todo[r][k + 1]
<1>1. todo[r] \in Seq(Reduction!Params) /\ todo[r] # <<>>
  BY DEF Reduction!TypeOK, Reduction!Working
<1> QED BY <1>1

LEMMA PackedFitsStep ==
    ASSUME PackedFits, [Reduction!Next]_(Reduction!vars)
    PROVE  PackedFits'
<1> DEFINE P == Reduction!Params
<1>0. /\ numel \in [P -> Nat \ {0}]
      /\ tensors \in [Ranks -> Seq(P)] /\ todo \in [Ranks -> Seq(P)]
      /\ buffer \in [Ranks -> Seq(P)] /\ filled \in [Ranks -> 0 .. BufferSize]
      /\ posted \in [Ranks -> [tensors : Seq(P), buffered : BOOLEAN]]
      /\ BufferSize \in Nat
  BY ReductionFacts DEF PackedFits, Reduction!TypeOK
<1> HIDE DEF P
<1>1. /\ BytesOf(numel, <<>>) = 0
      /\ \A s \in Seq(P) : BytesOf(numel, s) \in Nat
      /\ \A s \in Seq(P), p \in P :
             BytesOf(numel, Append(s, p)) = BytesOf(numel, s) + Reduction!Size(p)
  BY <1>0, BytesAre, SizesOfTensors DEF P, PackedFits
<1>2. ASSUME NEW r \in Ranks, Reduction!Working(r)
      PROVE  /\ Head(todo[r]) \in P /\ Tail(todo[r]) \in Seq(P)
             /\ Reduction!Size(Head(todo[r])) \in Nat
             /\ <<Head(todo[r])>> \in Seq(P)
             /\ BytesOf(numel, <<Head(todo[r])>>) = Reduction!Size(Head(todo[r]))
  <2>1. /\ Head(todo[r]) \in P /\ Tail(todo[r]) \in Seq(P)
        /\ Reduction!Size(Head(todo[r])) \in Nat
    BY <1>2, HeadFacts, SizesOfTensors DEF P, PackedFits
  <2>2. <<Head(todo[r])>> = Append(<<>>, Head(todo[r])) /\ <<>> \in Seq(P)
    OBVIOUS
  <2>3. BytesOf(numel, Append(<<>>, Head(todo[r]))) = 0 + Reduction!Size(Head(todo[r]))
    BY <1>1, <2>1, <2>2
  <2> QED BY <2>1, <2>2, <2>3
<1>3. ASSUME NEW r \in Ranks, Reduction!Direct(r) PROVE PackedFits'
  <2>1. /\ Reduction!Working(r)
        /\ posted' = [posted EXCEPT ![r] = [tensors |-> <<Head(todo[r])>>, buffered |-> FALSE]]
        /\ todo' = [todo EXCEPT ![r] = Tail(@)]
        /\ UNCHANGED <<numel, tensors, buffer, filled>>
    BY <1>3 DEF Reduction!Direct
  <2>2. Reduction!TypeOK'
    BY <1>0, <1>2, <2>1 DEF Reduction!TypeOK, P
  <2> QED BY <1>0, <2>1, <2>2 DEF PackedFits
<1>4. ASSUME NEW r \in Ranks, Reduction!Full(r) PROVE PackedFits'
  <2>1. /\ Reduction!Working(r) /\ Reduction!Size(Head(todo[r])) <= BufferSize
        /\ posted' = [posted EXCEPT ![r] = [tensors |-> buffer[r], buffered |-> TRUE]]
        /\ buffer' = [buffer EXCEPT ![r] = <<Head(todo[r])>>]
        /\ filled' = [filled EXCEPT ![r] = Reduction!Size(Head(todo[r]))]
        /\ todo' = [todo EXCEPT ![r] = Tail(@)]
        /\ UNCHANGED <<numel, tensors>>
    BY <1>4 DEF Reduction!Full, Reduction!RestartedBuffer, Reduction!RestartedFilled
  <2>2. Reduction!TypeOK'
    BY <1>0, <1>2, <2>1 DEF Reduction!TypeOK, P
  <2>3. BytesOf(numel, buffer[r]) <= BufferSize
    BY <1>0, <1>1 DEF PackedFits
  <2> QED BY <1>0, <1>2, <2>1, <2>2, <2>3 DEF PackedFits
<1>5. ASSUME NEW r \in Ranks, Reduction!Pack(r) PROVE PackedFits'
  <2>1. /\ Reduction!Working(r)
        /\ filled[r] + Reduction!Size(Head(todo[r])) <= BufferSize
        /\ buffer' = [buffer EXCEPT ![r] = Append(@, Head(todo[r]))]
        /\ filled' = [filled EXCEPT ![r] = @ + Reduction!Size(Head(todo[r]))]
        /\ todo' = [todo EXCEPT ![r] = Tail(@)]
        /\ UNCHANGED <<numel, tensors, posted>>
    BY <1>5 DEF Reduction!Pack
  <2>2. PICK p \in P : /\ p = Head(todo[r]) /\ Tail(todo[r]) \in Seq(P)
                         /\ Reduction!Size(p) \in Nat
    BY <1>2, <2>1
  <2>3. buffer[r] \in Seq(P) /\ Append(buffer[r], p) \in Seq(P) /\ filled[r] \in Nat
    BY <1>0
  <2>4. filled[r] + Reduction!Size(p) \in 0 .. BufferSize
    BY <1>0, <2>1, <2>2, <2>3
  <2>5. Reduction!TypeOK'
    BY <1>0, <2>1, <2>2, <2>3, <2>4 DEF Reduction!TypeOK, P
  <2>6. BytesOf(numel, buffer'[r]) <= filled'[r]
    <3>1. BytesOf(numel, Append(buffer[r], p))
             = BytesOf(numel, buffer[r]) + Reduction!Size(p)
      BY <1>1, <2>3
    <3>2. BytesOf(numel, buffer[r]) \in Nat /\ BytesOf(numel, buffer[r]) <= filled[r]
      BY <1>1, <2>3 DEF PackedFits
    <3>3. buffer'[r] = Append(buffer[r], p) /\ filled'[r] = filled[r] + Reduction!Size(p)
      BY <1>0, <2>1, <2>2
    <3> QED BY <2>2, <2>3, <3>1, <3>2, <3>3
  <2> QED BY <1>0, <2>1, <2>5, <2>6 DEF PackedFits
<1>6. ASSUME NEW r \in Ranks, Reduction!Flush(r) PROVE PackedFits'
  <2>1. /\ posted' = [posted EXCEPT ![r] = [tensors |-> buffer[r], buffered |-> TRUE]]
        /\ buffer' = [buffer EXCEPT ![r] = <<>>]
        /\ UNCHANGED <<numel, tensors, todo, filled>>
    BY <1>6 DEF Reduction!Flush
  <2>2. Reduction!TypeOK'
    BY <1>0, <2>1 DEF Reduction!TypeOK, P
  <2>3. BytesOf(numel, buffer[r]) <= BufferSize
    BY <1>0, <1>1 DEF PackedFits
  <2> QED BY <1>0, <1>1, <2>1, <2>2, <2>3 DEF PackedFits
<1>7. CASE Reduction!AllReduce
  <2>1. /\ posted' = [r \in Ranks |-> [tensors |-> <<>>, buffered |-> FALSE]]
        /\ UNCHANGED <<numel, tensors, todo, buffer, filled>>
    BY <1>7 DEF Reduction!AllReduce, Reduction!None
  <2>2. Reduction!TypeOK'
    BY <1>0, <2>1 DEF Reduction!TypeOK, P
  <2> QED BY <2>1, <2>2 DEF PackedFits
<1>8. CASE UNCHANGED Reduction!vars
  BY <1>8 DEF Reduction!vars, PackedFits, Reduction!TypeOK
<1> QED BY <1>3, <1>4, <1>5, <1>6, <1>7, <1>8 DEF Reduction!Next, Reduction!Step

(* The parameters that have a gradient: in their order, each once.         *)
InOrder(s) == \A i, j \in 1 .. Len(s) : i < j => s[i] < s[j]

LEMMA GradsFacts ==
    ASSUME NEW experts, NEW routed
    PROVE  /\ Reduction!Grads(experts, routed) \in Seq(Reduction!Params)
           /\ InOrder(Reduction!Grads(experts, routed))
<1> DEFINE all == [p \in Reduction!Params |-> p]
           S == {p \in Reduction!Params : Reduction!HasGradient(experts, routed, p)}
<1>1. Reduction!Grads(experts, routed) = Kept(all, S)
  BY DEF Reduction!Grads, Reduction!Kept, Kept
<1>2. /\ all \in Seq(Reduction!Params) /\ Len(all) = NumParams
      /\ \A i \in 1 .. NumParams : all[i] = i
  BY ReductionFacts
<1> HIDE DEF all, S
<1>3. PICK place : IsPlacement(place, all, Kept(all, S), S, Len(Kept(all, S)), NumParams)
  BY <1>2, KeptPlaces
<1>4. InOrder(Kept(all, S))
  BY <1>2, <1>3 DEF IsPlacement, InOrder
<1>5. Kept(all, S) \in Seq(Reduction!Params)
  BY <1>2, KeptPlaces
<1> QED BY <1>1, <1>4, <1>5

LEMMA PackedFitsInit ==
    ASSUME Reduction!Init
    PROVE  PackedFits /\ \A r \in Ranks : InOrder(tensors[r])
<1>1. PICK m \in Models :
          /\ numel \in [Reduction!Params -> m.numels]
          /\ \E routed \in [Ranks -> SUBSET m.experts] :
                 tensors = [r \in Ranks |-> Reduction!Grads(m.experts, routed[r])]
  BY DEF Reduction!Init
<1>2. PICK routed : tensors = [r \in Ranks |-> Reduction!Grads(m.experts, routed[r])]
  BY <1>1
<1>3. /\ tensors \in [Ranks -> Seq(Reduction!Params)]
      /\ \A r \in Ranks : InOrder(tensors[r])
  BY <1>2, GradsFacts
<1>4. numel \in [Reduction!Params -> Nat \ {0}]
  BY <1>1, ReductionFacts
<1>5. Reduction!TypeOK
  BY <1>3, <1>4, ReductionFacts DEF Reduction!Init, Reduction!TypeOK, Reduction!None
<1>6. BytesOf(numel, <<>>) = 0
  BY <1>4, BytesAre
<1> QED BY <1>3, <1>5, <1>6 DEF Reduction!Init, PackedFits, Reduction!None

LEMMA BufferFitsFollows == PackedFits => Reduction!BufferFits
BY DEF PackedFits, Reduction!BufferFits, BytesOf, Reduction!Size

(* What a rank with the gradients of list does is settled: place by place  *)
(* what its buffer holds, what it sends on the way there, and which        *)
(* gradients are gone out.  The place behind the last is the final flush.  *)
Members(s) == {s[k] : k \in 1 .. Len(s)}

Nothing == [buffer |-> <<>>, filled |-> 0, sent |-> <<>>, buffered |-> FALSE, gone |-> {}]

Consumed(b, p) ==
    IF Reduction!Size(p) > BufferSize
    THEN [buffer |-> b.buffer, filled |-> b.filled, sent |-> <<p>>, buffered |-> FALSE,
          gone |-> b.gone \cup {p}]
    ELSE IF b.filled + Reduction!Size(p) > BufferSize
    THEN [buffer |-> <<p>>, filled |-> Reduction!Size(p), sent |-> b.buffer,
          buffered |-> TRUE, gone |-> b.gone \cup Members(b.buffer)]
    ELSE [buffer |-> Append(b.buffer, p), filled |-> b.filled + Reduction!Size(p),
          sent |-> <<>>, buffered |-> FALSE, gone |-> b.gone]

Flushed(b) == [buffer |-> <<>>, filled |-> b.filled, sent |-> b.buffer, buffered |-> TRUE,
               gone |-> b.gone \cup Members(b.buffer)]

IsCourse(c, list) ==
    /\ c[0] = Nothing
    /\ \A i \in 1 .. Len(list) : c[i] = Consumed(c[i - 1], list[i])
    /\ c[Len(list) + 1] = Flushed(c[Len(list)])

LEMMA CourseExists ==
    ASSUME NEW list, Len(list) \in Nat
    PROVE  \E c : IsCourse(c, list)
<1> DEFINE Starts(c, k) == c[0] = Nothing /\ \A i \in 1 .. k : c[i] = Consumed(c[i - 1], list[i])
           P == {k \in Nat : \E c : Starts(c, k)}
           n == Len(list)
<1>1. 0 \in P
  <2>1. Starts([i \in {0} |-> Nothing], 0)
    OBVIOUS
  <2> QED BY <2>1
<1>2. ASSUME NEW k \in P PROVE k + 1 \in P
  <2>1. PICK c : Starts(c, k)
    OBVIOUS
  <2> DEFINE d == [i \in 0 .. k + 1 |-> IF i <= k THEN c[i] ELSE Consumed(c[k], list[k + 1])]
  <2>2. d[0] = Nothing
    BY <2>1
  <2>3. ASSUME NEW i \in 1 .. k + 1 PROVE d[i] = Consumed(d[i - 1], list[i])
    <3>1. d[i - 1] = c[i - 1]
      OBVIOUS
    <3>2. d[i] = Consumed(c[i - 1], list[i])
      <4>1. CASE i <= k
        BY <2>1, <4>1
      <4>2. CASE i = k + 1
        BY <4>2
      <4> QED BY <4>1, <4>2
    <3> QED BY <3>1, <3>2
  <2> HIDE DEF d
  <2>4. Starts(d, k + 1)
    BY <2>2, <2>3
  <2> QED BY <2>4
<1> HIDE DEF P
<1>3. n \in P
  BY <1>1, <1>2, Induction DEF P
<1>4. PICK c : Starts(c, n)
  BY <1>3 DEF P
<1> HIDE DEF n
<1> DEFINE d == [i \in 0 .. n + 1 |-> IF i <= n THEN c[i] ELSE Flushed(c[n])]
<1>5. n \in Nat
  BY DEF n
<1>6. /\ d[0] = c[0] /\ d[n + 1] = Flushed(d[n])
      /\ \A i \in 1 .. n : d[i] = c[i] /\ d[i - 1] = c[i - 1]
  BY <1>5
<1> HIDE DEF d
<1>7. IsCourse(d, list)
  BY <1>4, <1>6 DEF IsCourse, n
<1> QED BY <1>7

(* What holds at every place: nothing is in the buffer that is gone out,   *)
(* nothing is sent twice, and nothing is lost.                             *)
Once(s) == \A i, j \in 1 .. Len(s) : s[i] = s[j] => i = j

Holding(b, list, k) ==
    /\ b.buffer \in Seq(Reduction!Params) /\ Once(b.buffer)
    /\ b.filled \in Nat /\ b.filled <= BufferSize /\ (b.filled > 0 => b.buffer # <<>>)
    /\ Members(b.buffer) \cap b.gone = {}
    /\ Members(b.buffer) \cup b.gone = {list[j] : j \in 1 .. k}

Fresh(b, a) ==
    /\ b.sent \in Seq(Reduction!Params) /\ Once(b.sent)
    /\ Members(b.sent) \cap a.gone = {}
    /\ b.gone = a.gone \cup Members(b.sent)

LEMMA AppendOnce ==
    ASSUME NEW T, NEW s \in Seq(T), Once(s), NEW p \in T, p \notin Members(s)
    PROVE  /\ Append(s, p) \in Seq(T) /\ Once(Append(s, p)) /\ Append(s, p) # <<>>
           /\ Members(Append(s, p)) = Members(s) \cup {p}
<1> DEFINE a == Append(s, p)
<1>1. /\ a \in Seq(T) /\ Len(s) \in Nat /\ Len(a) = Len(s) + 1 /\ a[Len(s) + 1] = p
      /\ \A k \in 1 .. Len(s) : a[k] = s[k]
  OBVIOUS
<1> HIDE DEF a
<1>2. Once(a)
  BY <1>1 DEF Once, Members
<1>3. Members(a) = Members(s) \cup {p}
  BY <1>1 DEF Members
<1> QED BY <1>1, <1>2, <1>3 DEF a

LEMMA SingleOnce ==
    ASSUME NEW T, NEW p \in T
    PROVE  <<p>> \in Seq(T) /\ Once(<<p>>) /\ Members(<<p>>) = {p} /\ <<p>> # <<>>
BY DEF Once, Members

LEMMA EmptyOnce == Once(<<>>) /\ Members(<<>>) = {}
BY DEF Once, Members

LEMMA CourseStep ==
    ASSUME Reduction!TypeOK, NEW list \in Seq(Reduction!Params), InOrder(list),
           NEW k \in 1 .. Len(list), NEW a, Holding(a, list, k - 1)
    PROVE  Holding(Consumed(a, list[k]), list, k) /\ Fresh(Consumed(a, list[k]), a)
<1> DEFINE p == list[k]
           b == Consumed(a, p)
<1>1. p \in Reduction!Params
  OBVIOUS
<1>2. Reduction!Size(p) \in Nat \ {0} /\ BufferSize \in Nat
  BY <1>1, SizesOfTensors, ReductionFacts
<1>3. /\ {list[j] : j \in 1 .. k} = {list[j] : j \in 1 .. k - 1} \cup {p}
      /\ p \notin {list[j] : j \in 1 .. k - 1}
  <2>1. \A j \in 1 .. k - 1 : list[j] < p
    BY DEF InOrder
  <2>2. \A j \in 1 .. k - 1 : list[j] \in Nat /\ p \in Nat
    BY ReductionFacts
  <2>3. \A j \in 1 .. k : j = k \/ j \in 1 .. k - 1
    OBVIOUS
  <2> QED BY <2>1, <2>2, <2>3
<1>4. p \notin Members(a.buffer) /\ p \notin a.gone
  BY <1>3 DEF Holding
<1> HIDE DEF p
<1>5. CASE Reduction!Size(p) > BufferSize
  <2>1. b = [buffer |-> a.buffer, filled |-> a.filled, sent |-> <<p>>, buffered |-> FALSE,
             gone |-> a.gone \cup {p}]
    BY <1>5 DEF Consumed
  <2> HIDE DEF b
  <2>2. Holding(b, list, k)
    BY <1>3, <1>4, <2>1 DEF Holding
  <2>3. Fresh(b, a)
    BY <1>1, <1>4, <2>1, SingleOnce DEF Fresh
  <2> QED BY <2>2, <2>3 DEF b, p
<1>6. CASE /\ Reduction!Size(p) <= BufferSize
           /\ a.filled + Reduction!Size(p) > BufferSize
  <2>1. b = [buffer |-> <<p>>, filled |-> Reduction!Size(p), sent |-> a.buffer,
             buffered |-> TRUE, gone |-> a.gone \cup Members(a.buffer)]
    BY <1>2, <1>6 DEF Consumed
  <2> HIDE DEF b
  <2>2. Holding(b, list, k)
    BY <1>1, <1>2, <1>3, <1>4, <1>6, <2>1, SingleOnce DEF Holding
  <2>3. Fresh(b, a)
    BY <2>1 DEF Fresh, Holding
  <2> QED BY <2>2, <2>3 DEF b, p
<1>7. CASE a.filled + Reduction!Size(p) <= BufferSize
  <2>1. a.filled \in Nat
    BY DEF Holding
  <2>2. b = [buffer |-> Append(a.buffer, p), filled |-> a.filled + Reduction!Size(p),
             sent |-> <<>>, buffered |-> FALSE, gone |-> a.gone]
    BY <1>2, <1>7, <2>1 DEF Consumed
  <2> HIDE DEF b
  <2>3. Holding(b, list, k)
    <3>1. /\ Append(a.buffer, p) \in Seq(Reduction!Params) /\ Once(Append(a.buffer, p))
          /\ Append(a.buffer, p) # <<>>
          /\ Members(Append(a.buffer, p)) = Members(a.buffer) \cup {p}
      BY <1>1, <1>4, AppendOnce DEF Holding
    <3>2. /\ b.buffer \in Seq(Reduction!Params) /\ Once(b.buffer)
          /\ Members(b.buffer) = Members(a.buffer) \cup {p} /\ b.gone = a.gone
          /\ b.buffer # <<>>
      BY <2>2, <3>1
    <3>3. b.filled \in Nat /\ b.filled <= BufferSize
      BY <1>2, <1>7, <2>1, <2>2
    <3>4. Members(a.buffer) \cap a.gone = {}
      BY DEF Holding
    <3>5. Members(a.buffer) \cup a.gone = {list[j] : j \in 1 .. k - 1}
      BY DEF Holding
    <3>6. Members(b.buffer) \cap b.gone = {}
      BY <1>4, <3>2, <3>4
    <3>7. Members(b.buffer) \cup b.gone = {list[j] : j \in 1 .. k}
      BY <1>3, <3>2, <3>5
    <3> QED BY <3>2, <3>3, <3>6, <3>7 DEF Holding
  <2>4. Fresh(b, a)
    BY <2>2, EmptyOnce DEF Fresh
  <2> QED BY <2>3, <2>4 DEF b, p
<1>8. a.filled \in Nat
  BY DEF Holding
<1> QED BY <1>2, <1>5, <1>6, <1>7, <1>8

LEMMA CourseFacts ==
    ASSUME Reduction!TypeOK, NEW list \in Seq(Reduction!Params), InOrder(list),
           NEW c, IsCourse(c, list)
    PROVE  /\ \A i \in 0 .. Len(list) : Holding(c[i], list, i)
           /\ \A i \in 1 .. Len(list) + 1 : Fresh(c[i], c[i - 1])
           /\ \A j \in 0 .. Len(list) + 1 : \A i \in 0 .. j : c[i].gone \subseteq c[j].gone
<1> DEFINE n == Len(list)
           P == {i \in Nat : i <= n => Holding(c[i], list, i)}
<1>0. n \in Nat
  OBVIOUS
<1>1. 0 \in P
  <2>1. Holding(Nothing, list, 0)
    <3>1. {list[j] : j \in 1 .. 0} = {}
      OBVIOUS
    <3> QED BY <3>1, EmptyOnce, ReductionFacts DEF Holding, Nothing
  <2> QED BY <2>1 DEF IsCourse
<1>2. ASSUME NEW i \in P PROVE i + 1 \in P
  <2> SUFFICES ASSUME i + 1 <= n PROVE Holding(c[i + 1], list, i + 1)
    OBVIOUS
  <2>1. i + 1 \in 1 .. Len(list) /\ (i + 1) - 1 = i /\ Holding(c[i], list, i)
    BY <1>0
  <2>2. c[i + 1] = Consumed(c[i], list[i + 1])
    BY <2>1 DEF IsCourse
  <2> QED BY <2>1, <2>2, CourseStep
<1> HIDE DEF P
<1>3. P = Nat
  BY <1>1, <1>2, Induction DEF P
<1>4. \A i \in 0 .. n : Holding(c[i], list, i)
  BY <1>0, <1>3 DEF P
<1>5. ASSUME NEW i \in 1 .. n + 1 PROVE Fresh(c[i], c[i - 1])
  <2>1. CASE i \in 1 .. n
    <3>1. Holding(c[i - 1], list, i - 1) /\ c[i] = Consumed(c[i - 1], list[i])
      BY <1>0, <1>4, <2>1 DEF IsCourse
    <3> QED BY <2>1, <3>1, CourseStep
  <2>2. CASE i = n + 1
    <3>1. Holding(c[n], list, n) /\ c[n + 1] = Flushed(c[n]) /\ i - 1 = n
      BY <1>0, <1>4, <2>2 DEF IsCourse
    <3> QED BY <2>2, <3>1 DEF Fresh, Holding, Flushed
  <2> QED BY <1>0, <2>1, <2>2
<1> DEFINE Q == {j \in Nat : j <= n + 1 => \A i \in 0 .. j : c[i].gone \subseteq c[j].gone}
<1>6. 0 \in Q
  OBVIOUS
<1>7. ASSUME NEW j \in Q PROVE j + 1 \in Q
  <2> SUFFICES ASSUME j + 1 <= n + 1, NEW i \in 0 .. j + 1
               PROVE  c[i].gone \subseteq c[j + 1].gone
    OBVIOUS
  <2>1. j + 1 \in 1 .. n + 1 /\ (j + 1) - 1 = j
    BY <1>0
  <2>2. c[j].gone \subseteq c[j + 1].gone
    BY <1>5, <2>1 DEF Fresh
  <2>3. i = j + 1 \/ i \in 0 .. j
    OBVIOUS
  <2> QED BY <1>0, <2>1, <2>2, <2>3
<1> HIDE DEF Q
<1>8. Q = Nat
  BY <1>6, <1>7, Induction DEF Q
<1>9. \A j \in 0 .. n + 1 : \A i \in 0 .. j : c[i].gone \subseteq c[j].gone
  BY <1>0, <1>8 DEF Q
<1> QED BY <1>4, <1>5, <1>9 DEF n

(* A rank with todo, buffer, filled and posted is at a place of the course.*)
AtPlace(c, list, i, todo_, buffer_, filled_, posted_) ==
    /\ i \in 0 .. Len(list) + 1
    /\ i <= Len(list) => /\ Len(todo_) = Len(list) - i
                         /\ \A k \in 1 .. Len(list) - i : todo_[k] = list[i + k]
                         /\ buffer_ = c[i].buffer
                         /\ filled_ = c[i].filled
    /\ i = Len(list) + 1 => todo_ = <<>> /\ buffer_ = <<>> /\ c[Len(list)].buffer # <<>>
    /\ posted_ # Reduction!None =>
           /\ i # 0
           /\ posted_ = [tensors |-> c[i].sent, buffered |-> c[i].buffered]
           /\ c[i].sent # <<>>

Place(c, list, r, i) == AtPlace(c, list, i, todo[r], buffer[r], filled[r], posted[r])

(* What has been reduced, for a rank at a place: all that is gone out but  *)
(* what it still waits to reduce.                                          *)
Collected(c, i, posted_) == IF posted_ = Reduction!None THEN c[i].gone ELSE c[i - 1].gone

Synced(p) == [from |-> [e \in Ranks \X Reduction!Params |-> IF e[2] = p THEN 1 ELSE 0],
              rescaled |-> 1]

(* Every rank is at a place of the one course, and all have collected the  *)
(* same: these gradients are averaged, the others as the backward pass     *)
(* left them.                                                              *)
SyncedAt(list, c, spot, done) ==
    /\ list \in Seq(Reduction!Params) /\ InOrder(list) /\ IsCourse(c, list)
    /\ spot \in [Ranks -> 0 .. Len(list) + 1]
    /\ \A r \in Ranks : /\ tensors[r] = list
                        /\ Place(c, list, r, spot[r])
                        /\ Collected(c, spot[r], posted[r]) = done
    /\ \A r \in Ranks, p \in Reduction!Params :
           grad[r][p] = IF p \in done THEN Synced(p) ELSE Reduction!Own(r, p)

AveragesInStep ==
    Reduction!SameParameters => \E list, c, spot, done : SyncedAt(list, c, spot, done)

LEMMA InStepInit ==
    ASSUME Reduction!Init
    PROVE  AveragesInStep
<1> SUFFICES ASSUME Reduction!SameParameters
             PROVE  \E list, c, spot, done : SyncedAt(list, c, spot, done)
  BY DEF AveragesInStep
<1>1. PICK r0 \in Ranks : TRUE
  BY ReductionFacts
<1>2. /\ Reduction!TypeOK
      /\ tensors[r0] \in Seq(Reduction!Params) /\ InOrder(tensors[r0])
      /\ \A r \in Ranks : tensors[r] = tensors[r0]
  BY <1>1, PackedFitsInit DEF PackedFits, Reduction!TypeOK, Reduction!SameParameters
<1> DEFINE list == tensors[r0]
           spot == [r \in Ranks |-> 0]
<1>3. Len(list) \in Nat
  BY <1>2
<1>4. PICK c : IsCourse(c, list)
  BY <1>3, CourseExists
<1>5. c[0] = Nothing
  BY <1>4 DEF IsCourse
<1>6. /\ todo = tensors /\ buffer = [r \in Ranks |-> <<>>] /\ filled = [r \in Ranks |-> 0]
      /\ posted = [r \in Ranks |-> Reduction!None]
      /\ grad = [r \in Ranks |-> [p \in Reduction!Params |-> Reduction!Own(r, p)]]
  BY DEF Reduction!Init
<1>7. ASSUME NEW r \in Ranks
      PROVE  Place(c, list, r, 0) /\ Collected(c, 0, posted[r]) = {}
  BY <1>2, <1>3, <1>5, <1>6 DEF Place, AtPlace, Collected, Nothing
<1>8. \A r \in Ranks, p \in Reduction!Params : grad[r][p] = Reduction!Own(r, p)
  BY <1>6
<1>9. spot \in [Ranks -> 0 .. Len(list) + 1] /\ \A r \in Ranks : spot[r] = 0
  BY <1>3
<1> HIDE DEF list, spot
<1>10. SyncedAt(list, c, spot, {})
  BY <1>2, <1>4, <1>7, <1>8, <1>9 DEF SyncedAt, list
<1> QED BY <1>10

(* One rank moves to the next place, and the others wait where they are.   *)
LEMMA OneMoves ==
    ASSUME NEW list, NEW c, NEW spot, NEW done, SyncedAt(list, c, spot, done),
           NEW r \in Ranks, spot[r] + 1 \in 0 .. Len(list) + 1,
           Place(c, list, r, spot[r] + 1)',
           Collected(c, spot[r] + 1, posted'[r]) = done,
           UNCHANGED <<numel, tensors, grad>>,
           \A q \in Ranks \ {r} : /\ todo'[q] = todo[q] /\ buffer'[q] = buffer[q]
                                  /\ filled'[q] = filled[q] /\ posted'[q] = posted[q]
    PROVE  AveragesInStep'
<1> DEFINE to == [spot EXCEPT ![r] = @ + 1]
<1>1. /\ list \in Seq(Reduction!Params) /\ InOrder(list) /\ IsCourse(c, list)
      /\ spot \in [Ranks -> 0 .. Len(list) + 1]
      /\ \A q \in Ranks : /\ tensors[q] = list /\ Place(c, list, q, spot[q])
                          /\ Collected(c, spot[q], posted[q]) = done
      /\ \A q \in Ranks, p \in Reduction!Params :
             grad[q][p] = IF p \in done THEN Synced(p) ELSE Reduction!Own(q, p)
  BY DEF SyncedAt
<1>2. IsCourse(c, list)'
  BY <1>1 DEF IsCourse, Consumed, Reduction!Size
<1>3. to \in [Ranks -> 0 .. Len(list) + 1] /\ to[r] = spot[r] + 1
      /\ \A q \in Ranks \ {r} : to[q] = spot[q]
  BY <1>1
<1> HIDE DEF to
<1>4. ASSUME NEW q \in Ranks
      PROVE  /\ tensors'[q] = list /\ Place(c, list, q, to[q])'
             /\ Collected(c, to[q], posted'[q]) = done
  <2>1. CASE q = r
    BY <1>1, <1>3, <2>1
  <2>2. CASE q # r
    BY <1>1, <1>3, <2>2 DEF Place
  <2> QED BY <2>1, <2>2
<1>5. \A q \in Ranks, p \in Reduction!Params :
          grad'[q][p] = IF p \in done THEN Synced(p) ELSE Reduction!Own(q, p)
  BY <1>1
<1>6. SyncedAt(list, c, to, done)'
  BY <1>1, <1>2, <1>3, <1>4, <1>5 DEF SyncedAt
<1> QED BY <1>6 DEF AveragesInStep

(* What a rank that is working has before it, and what Consumed makes of it*)
LEMMA PlaceFacts ==
    ASSUME PackedFits, NEW list, NEW c, NEW spot, NEW done, SyncedAt(list, c, spot, done),
           NEW r \in Ranks
    PROVE  /\ list \in Seq(Reduction!Params) /\ Len(list) \in Nat
           /\ spot[r] \in 0 .. Len(list) + 1
           /\ Place(c, list, r, spot[r]) /\ Collected(c, spot[r], posted[r]) = done
           /\ c[0] = Nothing
           /\ \A k \in 1 .. Len(list) : c[k] = Consumed(c[k - 1], list[k])
           /\ c[Len(list) + 1] = Flushed(c[Len(list)])
           /\ \A k \in 0 .. Len(list) : Holding(c[k], list, k)
           /\ \A k \in 1 .. Len(list) + 1 : Fresh(c[k], c[k - 1])
           /\ \A k \in 0 .. Len(list) + 1 : \A j \in 0 .. k : c[j].gone \subseteq c[k].gone
BY CourseFacts DEF SyncedAt, PackedFits, IsCourse

LEMMA WorkingFacts ==
    ASSUME PackedFits, NEW list, NEW c, NEW spot, NEW done, SyncedAt(list, c, spot, done),
           NEW r \in Ranks, Reduction!Working(r)
    PROVE  /\ spot[r] \in 0 .. Len(list) - 1
           /\ Len(todo[r]) = Len(list) - spot[r]
           /\ Head(todo[r]) = list[spot[r] + 1]
           /\ Len(Tail(todo[r])) = Len(list) - (spot[r] + 1)
           /\ \A k \in 1 .. Len(list) - (spot[r] + 1) : Tail(todo[r])[k] = list[spot[r] + 1 + k]
           /\ buffer[r] = c[spot[r]].buffer /\ filled[r] = c[spot[r]].filled
           /\ c[spot[r] + 1] = Consumed(c[spot[r]], list[spot[r] + 1])
           /\ c[spot[r]].gone = done
           /\ Reduction!Size(list[spot[r] + 1]) \in Nat \ {0}
           /\ filled[r] \in 0 .. BufferSize
<1> DEFINE i == spot[r]
           n == Len(list)
<1>1. /\ n \in Nat /\ i \in 0 .. n + 1 /\ Place(c, list, r, i)
      /\ Collected(c, i, posted[r]) = done
      /\ \A k \in 1 .. n : c[k] = Consumed(c[k - 1], list[k])
  BY PlaceFacts
<1>2. /\ Reduction!TypeOK /\ posted[r] = Reduction!None /\ todo[r] # <<>>
  BY DEF PackedFits, Reduction!Working
<1>3. /\ Head(todo[r]) \in Reduction!Params
      /\ Head(todo[r]) = todo[r][1]
      /\ Len(todo[r]) \in Nat \ {0}
      /\ Len(Tail(todo[r])) = Len(todo[r]) - 1
      /\ \A k \in 1 .. Len(todo[r]) - 1 : Tail(todo[r])[k] = todo[r][k + 1]
  BY <1>2, HeadFacts
<1>4. i <= n
  BY <1>1, <1>2 DEF Place, AtPlace
<1>5. /\ Len(todo[r]) = n - i
      /\ \A k \in 1 .. n - i : todo[r][k] = list[i + k]
      /\ buffer[r] = c[i].buffer /\ filled[r] = c[i].filled
  BY <1>1, <1>4 DEF Place, AtPlace
<1>6. i \in 0 .. n - 1
  BY <1>1, <1>3, <1>5
<1>7. Head(todo[r]) = list[i + 1]
  BY <1>1, <1>3, <1>5, <1>6
<1>8. c[i + 1] = Consumed(c[i], list[i + 1])
  <2>1. i + 1 \in 1 .. n /\ (i + 1) - 1 = i
    BY <1>1, <1>6
  <2> QED BY <1>1, <2>1
<1>9. c[i].gone = done
  BY <1>1, <1>2 DEF Collected
<1>10. /\ Len(Tail(todo[r])) = n - (i + 1)
       /\ \A k \in 1 .. n - (i + 1) : Tail(todo[r])[k] = list[i + 1 + k]
  <2>1. Len(Tail(todo[r])) = n - (i + 1)
    BY <1>1, <1>3, <1>5, <1>6
  <2>2. ASSUME NEW k \in 1 .. n - (i + 1) PROVE Tail(todo[r])[k] = list[i + 1 + k]
    <3>1. k \in 1 .. Len(todo[r]) - 1 /\ k + 1 \in 1 .. n - i
      BY <1>1, <1>5, <1>6
    <3>2. Tail(todo[r])[k] = list[i + (k + 1)]
      BY <1>3, <1>5, <3>1
    <3>3. \A a, b \in Int : a + (b + 1) = a + 1 + b
      OBVIOUS
    <3>4. i \in Int /\ k \in Int
      BY <1>1, <1>6
    <3> QED BY <3>2, <3>3, <3>4
  <2> QED BY <2>1, <2>2
<1>11. Reduction!Size(list[i + 1]) \in Nat \ {0}
  BY <1>2, <1>3, <1>7, SizesOfTensors
<1>12. filled[r] \in 0 .. BufferSize
  BY <1>2 DEF Reduction!TypeOK
<1> QED BY <1>5, <1>6, <1>7, <1>8, <1>9, <1>10, <1>11, <1>12

(* A rank takes the next tensor, and is where Consumed says.               *)
Takes(c, k, r) ==
    /\ Reduction!Working(r)
    /\ UNCHANGED <<numel, tensors, grad>>
    /\ \A q \in Ranks \ {r} : /\ todo'[q] = todo[q] /\ buffer'[q] = buffer[q]
                              /\ filled'[q] = filled[q] /\ posted'[q] = posted[q]
    /\ todo'[r] = Tail(todo[r])
    /\ buffer'[r] = c[k].buffer /\ filled'[r] = c[k].filled
    /\ \/ posted'[r] = Reduction!None /\ c[k].gone = c[k - 1].gone
       \/ /\ posted'[r] # Reduction!None
          /\ posted'[r] = [tensors |-> c[k].sent, buffered |-> c[k].buffered]
          /\ c[k].sent # <<>>

LEMMA TakesNext ==
    ASSUME PackedFits, NEW list, NEW c, NEW spot, NEW done, SyncedAt(list, c, spot, done),
           NEW r \in Ranks, Takes(c, spot[r] + 1, r)
    PROVE  AveragesInStep'
<1> DEFINE i == spot[r]
           n == Len(list)
<1>1. Reduction!Working(r)
  BY DEF Takes
<1>2. /\ i \in 0 .. n - 1 /\ n \in Nat
      /\ Len(Tail(todo[r])) = n - (i + 1)
      /\ \A k \in 1 .. n - (i + 1) : Tail(todo[r])[k] = list[i + 1 + k]
      /\ c[i].gone = done
  BY <1>1, WorkingFacts, PlaceFacts
<1>3. /\ i + 1 \in 0 .. n + 1 /\ i + 1 # 0 /\ (i + 1) - 1 = i /\ i + 1 # n + 1
  BY <1>2
<1>4. Place(c, list, r, i + 1)'
  BY <1>2, <1>3 DEF Place, AtPlace, Takes
<1>5. Collected(c, i + 1, posted'[r]) = done
  BY <1>2, <1>3 DEF Collected, Takes
<1>6. /\ UNCHANGED <<numel, tensors, grad>>
      /\ \A q \in Ranks \ {r} : /\ todo'[q] = todo[q] /\ buffer'[q] = buffer[q]
                                /\ filled'[q] = filled[q] /\ posted'[q] = posted[q]
  BY DEF Takes
<1> QED BY <1>3, <1>4, <1>5, <1>6, OneMoves

LEMMA DirectInStep ==
    ASSUME PackedFits, NEW list, NEW c, NEW spot, NEW done, SyncedAt(list, c, spot, done),
           NEW r \in Ranks, Reduction!Direct(r)
    PROVE  AveragesInStep'
<1> DEFINE i == spot[r]
           p == Head(todo[r])
<1>1. /\ Reduction!Working(r) /\ Reduction!Size(p) > BufferSize
      /\ posted' = [posted EXCEPT ![r] = [tensors |-> <<p>>, buffered |-> FALSE]]
      /\ todo' = [todo EXCEPT ![r] = Tail(@)]
      /\ UNCHANGED <<numel, tensors, buffer, filled, grad>>
  BY DEF Reduction!Direct
<1>2. /\ p = list[i + 1] /\ buffer[r] = c[i].buffer /\ filled[r] = c[i].filled
      /\ c[i + 1] = Consumed(c[i], p)
  BY <1>1, WorkingFacts
<1>3. todo \in [Ranks -> Seq(Reduction!Params)]
      /\ posted \in [Ranks -> [tensors : Seq(Reduction!Params), buffered : BOOLEAN]]
  BY DEF PackedFits, Reduction!TypeOK
<1> HIDE DEF p
<1>4. /\ c[i + 1].buffer = c[i].buffer /\ c[i + 1].filled = c[i].filled
      /\ c[i + 1].sent = <<p>> /\ c[i + 1].buffered = FALSE
  BY <1>1, <1>2 DEF Consumed
<1>5. /\ posted'[r] = [tensors |-> c[i + 1].sent, buffered |-> c[i + 1].buffered]
      /\ c[i + 1].sent # <<>>
  <2>1. posted'[r] = [tensors |-> <<p>>, buffered |-> FALSE]
    BY <1>1, <1>3
  <2>2. <<p>> # <<>>
    OBVIOUS
  <2> QED BY <1>4, <2>1, <2>2
<1>6. posted'[r] # Reduction!None
  BY <1>5 DEF Reduction!None
<1>7. \A q \in Ranks \ {r} : /\ todo'[q] = todo[q] /\ buffer'[q] = buffer[q]
                             /\ filled'[q] = filled[q] /\ posted'[q] = posted[q]
  BY <1>1, <1>3
<1>8. todo'[r] = Tail(todo[r])
  BY <1>1, <1>3
<1>9. Takes(c, i + 1, r)
  BY <1>1, <1>2, <1>4, <1>5, <1>6, <1>7, <1>8 DEF Takes
<1> QED BY <1>9, TakesNext

LEMMA FullInStep ==
    ASSUME PackedFits, NEW list, NEW c, NEW spot, NEW done, SyncedAt(list, c, spot, done),
           NEW r \in Ranks, Reduction!Full(r)
    PROVE  AveragesInStep'
<1> DEFINE i == spot[r]
           p == Head(todo[r])
<1>1. /\ Reduction!Working(r) /\ Reduction!Size(p) <= BufferSize
      /\ filled[r] + Reduction!Size(p) > BufferSize
      /\ posted' = [posted EXCEPT ![r] = [tensors |-> buffer[r], buffered |-> TRUE]]
      /\ buffer' = [buffer EXCEPT ![r] = <<p>>]
      /\ filled' = [filled EXCEPT ![r] = Reduction!Size(p)]
      /\ todo' = [todo EXCEPT ![r] = Tail(@)]
      /\ UNCHANGED <<numel, tensors, grad>>
  BY DEF Reduction!Full, Reduction!RestartedBuffer, Reduction!RestartedFilled
<1>2. /\ p = list[i + 1] /\ buffer[r] = c[i].buffer /\ filled[r] = c[i].filled
      /\ c[i + 1] = Consumed(c[i], p) /\ i \in 0 .. Len(list)
      /\ Reduction!Size(p) \in Nat /\ filled[r] \in Nat /\ BufferSize \in Nat
  BY <1>1, WorkingFacts, PlaceFacts, ReductionFacts
<1>3. /\ todo \in [Ranks -> Seq(Reduction!Params)]
      /\ buffer \in [Ranks -> Seq(Reduction!Params)]
      /\ filled \in [Ranks -> 0 .. BufferSize]
      /\ posted \in [Ranks -> [tensors : Seq(Reduction!Params), buffered : BOOLEAN]]
  BY DEF PackedFits, Reduction!TypeOK
<1> HIDE DEF p
<1>4. c[i + 1] = [buffer |-> <<p>>, filled |-> Reduction!Size(p), sent |-> c[i].buffer,
                  buffered |-> TRUE, gone |-> c[i].gone \cup Members(c[i].buffer)]
  BY <1>1, <1>2 DEF Consumed
<1>5. c[i].buffer # <<>>
  <2>1. Holding(c[i], list, i)
    BY <1>2, PlaceFacts
  <2>2. c[i].filled > 0
    BY <1>1, <1>2
  <2> QED BY <2>1, <2>2 DEF Holding
<1>6. /\ posted'[r] = [tensors |-> c[i + 1].sent, buffered |-> c[i + 1].buffered]
      /\ c[i + 1].sent # <<>>
  BY <1>1, <1>2, <1>3, <1>4, <1>5
<1>7. posted'[r] # Reduction!None
  BY <1>6 DEF Reduction!None
<1>8. \A q \in Ranks \ {r} : /\ todo'[q] = todo[q] /\ buffer'[q] = buffer[q]
                             /\ filled'[q] = filled[q] /\ posted'[q] = posted[q]
  BY <1>1, <1>3
<1>9. /\ todo'[r] = Tail(todo[r]) /\ buffer'[r] = c[i + 1].buffer
      /\ filled'[r] = c[i + 1].filled
  BY <1>1, <1>3, <1>4
<1>10. Takes(c, i + 1, r)
  BY <1>1, <1>6, <1>7, <1>8, <1>9 DEF Takes
<1> QED BY <1>10, TakesNext

LEMMA PackInStep ==
    ASSUME PackedFits, NEW list, NEW c, NEW spot, NEW done, SyncedAt(list, c, spot, done),
           NEW r \in Ranks, Reduction!Pack(r)
    PROVE  AveragesInStep'
<1> DEFINE i == spot[r]
           p == Head(todo[r])
<1>1. /\ Reduction!Working(r) /\ filled[r] + Reduction!Size(p) <= BufferSize
      /\ buffer' = [buffer EXCEPT ![r] = Append(@, p)]
      /\ filled' = [filled EXCEPT ![r] = @ + Reduction!Size(p)]
      /\ todo' = [todo EXCEPT ![r] = Tail(@)]
      /\ UNCHANGED <<numel, tensors, posted, grad>>
  BY DEF Reduction!Pack
<1>2. /\ p = list[i + 1] /\ buffer[r] = c[i].buffer /\ filled[r] = c[i].filled
      /\ c[i + 1] = Consumed(c[i], p) /\ i \in Nat
      /\ Reduction!Size(p) \in Nat /\ filled[r] \in Nat /\ BufferSize \in Nat
  BY <1>1, WorkingFacts, PlaceFacts, ReductionFacts
<1>3. /\ todo \in [Ranks -> Seq(Reduction!Params)]
      /\ buffer \in [Ranks -> Seq(Reduction!Params)]
      /\ filled \in [Ranks -> 0 .. BufferSize]
  BY DEF PackedFits, Reduction!TypeOK
<1> HIDE DEF p
<1>4. c[i + 1] = [buffer |-> Append(c[i].buffer, p),
                  filled |-> c[i].filled + Reduction!Size(p), sent |-> <<>>,
                  buffered |-> FALSE, gone |-> c[i].gone]
  <2>1. ~(Reduction!Size(p) > BufferSize)
        /\ ~(c[i].filled + Reduction!Size(p) > BufferSize)
    BY <1>1, <1>2
  <2> QED BY <1>2, <2>1 DEF Consumed
<1>5. posted'[r] = Reduction!None /\ c[i + 1].gone = c[i].gone
  BY <1>1, <1>4 DEF Reduction!Working
<1>6. \A q \in Ranks \ {r} : /\ todo'[q] = todo[q] /\ buffer'[q] = buffer[q]
                             /\ filled'[q] = filled[q] /\ posted'[q] = posted[q]
  BY <1>1, <1>3
<1>7. /\ todo'[r] = Tail(todo[r]) /\ buffer'[r] = c[i + 1].buffer
      /\ filled'[r] = c[i + 1].filled
  BY <1>1, <1>2, <1>3, <1>4
<1>8. (i + 1) - 1 = i
  BY <1>2
<1>9. Takes(c, i + 1, r)
  BY <1>1, <1>5, <1>6, <1>7, <1>8 DEF Takes
<1> QED BY <1>9, TakesNext

LEMMA FlushInStep ==
    ASSUME PackedFits, NEW list, NEW c, NEW spot, NEW done, SyncedAt(list, c, spot, done),
           NEW r \in Ranks, Reduction!Flush(r)
    PROVE  AveragesInStep'
<1> DEFINE i == spot[r]
           n == Len(list)
<1>1. /\ posted[r] = Reduction!None /\ todo[r] = <<>> /\ buffer[r] # <<>>
      /\ posted' = [posted EXCEPT ![r] = [tensors |-> buffer[r], buffered |-> TRUE]]
      /\ buffer' = [buffer EXCEPT ![r] = <<>>]
      /\ UNCHANGED <<numel, tensors, todo, filled, grad>>
  BY DEF Reduction!Flush
<1>2. /\ n \in Nat /\ i \in 0 .. n + 1 /\ Place(c, list, r, i)
      /\ Collected(c, i, posted[r]) = done
      /\ c[n + 1] = Flushed(c[n])
  BY PlaceFacts
<1>3. /\ buffer \in [Ranks -> Seq(Reduction!Params)]
      /\ posted \in [Ranks -> [tensors : Seq(Reduction!Params), buffered : BOOLEAN]]
  BY DEF PackedFits, Reduction!TypeOK
<1>4. i <= n
  BY <1>1, <1>2 DEF Place, AtPlace
<1>5. i = n /\ buffer[r] = c[n].buffer
  <2>1. Len(todo[r]) = n - i /\ Len(todo[r]) = 0 /\ buffer[r] = c[i].buffer
    BY <1>1, <1>2, <1>4 DEF Place, AtPlace
  <2> QED BY <1>2, <2>1
<1>6. /\ c[n + 1].sent = c[n].buffer /\ c[n + 1].buffered = TRUE
  BY <1>2 DEF Flushed
<1>7. /\ posted'[r] = [tensors |-> c[n + 1].sent, buffered |-> c[n + 1].buffered]
      /\ c[n + 1].sent # <<>> /\ todo'[r] = <<>> /\ buffer'[r] = <<>>
  BY <1>1, <1>3, <1>5, <1>6
<1>8. posted'[r] # Reduction!None
  BY <1>7 DEF Reduction!None
<1>9. Place(c, list, r, i + 1)'
  <2>1. i + 1 \in 0 .. n + 1 /\ ~(i + 1 <= n) /\ i + 1 = n + 1 /\ i + 1 # 0
    BY <1>2, <1>5
  <2>2. c[n].buffer # <<>>
    BY <1>1, <1>5
  <2> HIDE DEF i, n
  <2>3. c[i + 1] = c[n + 1]
    BY <1>5
  <2> QED BY <1>7, <2>1, <2>2, <2>3 DEF Place, AtPlace, n
<1>10. Collected(c, i + 1, posted'[r]) = done
  <2>1. (i + 1) - 1 = i
    BY <1>2
  <2> QED BY <1>1, <1>2, <1>8, <2>1 DEF Collected
<1>11. \A q \in Ranks \ {r} : /\ todo'[q] = todo[q] /\ buffer'[q] = buffer[q]
                              /\ filled'[q] = filled[q] /\ posted'[q] = posted[q]
  BY <1>1, <1>3
<1>12. i + 1 \in 0 .. n + 1
  BY <1>2, <1>4
<1> QED BY <1>1, <1>9, <1>10, <1>11, <1>12, OneMoves

(* When all wait to reduce, they are at one place: what is sent from there *)
(* on is not gone out before.                                              *)
LEMMA AllAtOnePlace ==
    ASSUME PackedFits, NEW list, NEW c, NEW spot, NEW done, SyncedAt(list, c, spot, done),
           \A r \in Ranks : posted[r] # Reduction!None,
           NEW r \in Ranks, NEW q \in Ranks
    PROVE  spot[r] = spot[q]
<1> DEFINE n == Len(list)
<1>1. ASSUME NEW x \in Ranks
      PROVE  /\ spot[x] \in 1 .. n + 1 /\ n \in Nat
             /\ c[spot[x]].sent # <<>> /\ c[spot[x] - 1].gone = done
  <2>1. /\ spot[x] \in 0 .. n + 1 /\ n \in Nat /\ Place(c, list, x, spot[x])
        /\ Collected(c, spot[x], posted[x]) = done /\ posted[x] # Reduction!None
    BY PlaceFacts
  <2>2. spot[x] # 0 /\ c[spot[x]].sent # <<>>
    BY <2>1 DEF Place, AtPlace
  <2> QED BY <2>1, <2>2 DEF Collected
<1>2. ASSUME NEW x \in Ranks, NEW y \in Ranks, spot[x] < spot[y] PROVE FALSE
  <2> DEFINE i == spot[x]
             j == spot[y]
  <2>1. i \in 1 .. n + 1 /\ j \in 1 .. n + 1 /\ n \in Nat
    BY <1>1
  <2>2. Fresh(c[i], c[i - 1])
    BY <2>1, PlaceFacts
  <2>3. c[i].gone \subseteq c[j - 1].gone
    <3>1. j - 1 \in 0 .. n + 1 /\ i \in 0 .. j - 1
      BY <1>2, <2>1
    <3> QED BY <3>1, PlaceFacts
  <2>4. c[i - 1].gone = c[j - 1].gone
    BY <1>1
  <2>5. c[i].sent[1] \in Members(c[i].sent)
    <3>1. c[i].sent \in Seq(Reduction!Params) /\ c[i].sent # <<>>
      BY <1>1, <2>2 DEF Fresh
    <3>2. 1 \in 1 .. Len(c[i].sent)
      BY <3>1
    <3> QED BY <3>2 DEF Members
  <2> QED BY <2>2, <2>3, <2>4, <2>5 DEF Fresh
<1> QED BY <1>1, <1>2

(* The collective: what the ranks send at the one place becomes synced.    *)
LEMMA AllReduceInStep ==
    ASSUME PackedFits, NEW list, NEW c, NEW spot, NEW done, SyncedAt(list, c, spot, done),
           Reduction!AllReduce
    PROVE  AveragesInStep'
<1> DEFINE P == Reduction!Params
<1>1. PICK r0 \in Ranks : TRUE
  BY ReductionFacts
<1> DEFINE j == spot[r0]
           s == c[j].sent
           n == Len(list)
<1>2. /\ \A r \in Ranks : posted[r] # Reduction!None
      /\ grad' = [r \in Ranks |-> [p \in P |->
             IF {i \in DOMAIN posted[r].tensors : posted[r].tensors[i] = p} = {}
             THEN grad[r][p]
             ELSE Reduction!Reduced(
                      Reduction!Max({i \in DOMAIN posted[r].tensors :
                                         posted[r].tensors[i] = p}), grad[r][p])]]
      /\ posted' = [r \in Ranks |-> Reduction!None]
      /\ UNCHANGED <<numel, tensors, todo, buffer, filled>>
  BY DEF Reduction!AllReduce
<1>3. /\ list \in Seq(P) /\ InOrder(list) /\ IsCourse(c, list)
      /\ spot \in [Ranks -> 0 .. n + 1]
      /\ \A r \in Ranks : /\ tensors[r] = list /\ Place(c, list, r, spot[r])
                          /\ Collected(c, spot[r], posted[r]) = done
      /\ \A r \in Ranks, p \in P :
             grad[r][p] = IF p \in done THEN Synced(p) ELSE Reduction!Own(r, p)
  BY DEF SyncedAt
<1> HIDE DEF P
<1>4. \A r \in Ranks : spot[r] = j
  BY <1>2, AllAtOnePlace
<1> HIDE DEF j
<1>5. /\ j \in 1 .. n + 1 /\ n \in Nat /\ c[j - 1].gone = done
      /\ \A r \in Ranks : posted[r].tensors = s
  <2>1. \A r \in Ranks : Place(c, list, r, j) /\ c[j - 1].gone = done
    BY <1>2, <1>3, <1>4 DEF Collected
  <2>2. \A r \in Ranks : j \in 0 .. n + 1 /\ j # 0 /\ posted[r].tensors = s
    BY <1>2, <2>1 DEF Place, AtPlace
  <2>3. n \in Nat
    BY <1>3
  <2> QED BY <1>1, <2>1, <2>2, <2>3
<1>6. Fresh(c[j], c[j - 1])
  BY <1>1, <1>5, PlaceFacts
<1>7. /\ s \in Seq(P) /\ Once(s) /\ Members(s) \cap done = {}
      /\ c[j].gone = done \cup Members(s)
  BY <1>5, <1>6 DEF Fresh, P
<1> HIDE DEF s, n
<1>8. DOMAIN s = 1 .. Len(s) /\ Len(s) \in Nat
  BY <1>7
<1>9. ASSUME NEW r \in Ranks, NEW p \in P, p \notin Members(s)
      PROVE  grad'[r][p] = grad[r][p]
  <2>1. {i \in DOMAIN posted[r].tensors : posted[r].tensors[i] = p} = {}
    BY <1>5, <1>8, <1>9 DEF Members
  <2> QED BY <1>2, <2>1
<1>10. ASSUME NEW r \in Ranks, NEW p \in P, p \in Members(s)
       PROVE  grad'[r][p] = Synced(p)
  <2>1. PICK k \in 1 .. Len(s) : s[k] = p
    BY <1>10 DEF Members
  <2>2. {i \in DOMAIN posted[r].tensors : posted[r].tensors[i] = p} = {k}
    BY <1>5, <1>7, <1>8, <2>1 DEF Once
  <2>3. Reduction!Max({k}) = k
    BY DEF Reduction!Max
  <2>4. grad'[r][p] = Reduction!Reduced(k, grad[r][p])
    <3>1. grad'[r][p] =
              IF {i \in DOMAIN posted[r].tensors : posted[r].tensors[i] = p} = {}
              THEN grad[r][p]
              ELSE Reduction!Reduced(
                       Reduction!Max({i \in DOMAIN posted[r].tensors :
                                          posted[r].tensors[i] = p}), grad[r][p])
      BY <1>2
    <3> QED BY <2>2, <2>3, <3>1, Zenon
  <2>5. \A q \in Ranks : grad[q][p] = Reduction!Own(q, p) /\ posted[q].tensors[k] = p
    BY <1>3, <1>5, <1>7, <1>10, <2>1
  <2>6. Reduction!AddedUp(k) = [e \in Ranks \X P |-> IF e[2] = p THEN 1 ELSE 0]
    <3>1. ASSUME NEW e \in Ranks \X P
          PROVE  Reduction!AddedUp(k)[e] = IF e[2] = p THEN 1 ELSE 0
      <4>1. ASSUME NEW q \in Ranks
            PROVE  grad[q][posted[q].tensors[k]].from[e]
                       = IF e[2] = p /\ q = e[1] THEN 1 ELSE 0
        <5>1. grad[q][posted[q].tensors[k]] = Reduction!Own(q, p)
          BY <2>5
        <5>2. Reduction!Own(q, p).from[e] = IF e = <<q, p>> THEN 1 ELSE 0
          BY DEF Reduction!Own, P
        <5>3. e = <<q, p>> <=> e[2] = p /\ q = e[1]
          OBVIOUS
        <5> QED BY <5>1, <5>2, <5>3
      <4>2. e[1] \in Ranks /\ (e[2] = p) \in BOOLEAN /\ e \in Ranks \X Reduction!Params
        BY DEF P
      <4> QED BY <4>1, <4>2, AddedUpIs
    <3>2. Reduction!AddedUp(k) = [e \in Ranks \X P |-> Reduction!AddedUp(k)[e]]
      BY DEF Reduction!AddedUp, P
    <3> QED BY <3>1, <3>2
  <2>7. grad[r][p].rescaled = 0
    <3>1. grad[r][p] = Reduction!Own(r, p)
      BY <2>5
    <3>2. Reduction!Own(r, p).rescaled = 0
      BY DEF Reduction!Own
    <3> QED BY <3>1, <3>2, Zenon
  <2>8. grad'[r][p] = [from |-> Reduction!AddedUp(k), rescaled |-> 0 + 1]
    BY <2>4, <2>7 DEF Reduction!Reduced
  <2>9. Synced(p) = [from |-> [e \in Ranks \X P |-> IF e[2] = p THEN 1 ELSE 0],
                     rescaled |-> 1]
    BY DEF Synced, P
  <2> QED BY <2>6, <2>8, <2>9
<1>11. \A r \in Ranks, p \in P :
           grad'[r][p] = IF p \in done \cup Members(s) THEN Synced(p)
                         ELSE Reduction!Own(r, p)
  BY <1>3, <1>7, <1>9, <1>10
<1>12. ASSUME NEW r \in Ranks
       PROVE  /\ tensors'[r] = list /\ Place(c, list, r, spot[r])'
              /\ Collected(c, spot[r], posted'[r]) = done \cup Members(s)
  <2>1. posted'[r] = Reduction!None
    BY <1>2
  <2>2. Place(c, list, r, spot[r])'
    BY <1>2, <1>3, <2>1 DEF Place, AtPlace
  <2> QED BY <1>2, <1>3, <1>4, <1>7, <2>1, <2>2 DEF Collected
<1>13. IsCourse(c, list)'
  BY <1>2, <1>3 DEF IsCourse, Consumed, Reduction!Size
<1>14. SyncedAt(list, c, spot, done \cup Members(s))'
  BY <1>3, <1>11, <1>12, <1>13 DEF SyncedAt, P, n
<1> QED BY <1>14 DEF AveragesInStep

LEMMA InStepStep ==
    ASSUME PackedFits, AveragesInStep, [Reduction!Next]_(Reduction!vars)
    PROVE  AveragesInStep'
<1>1. tensors' = tensors
  BY DEF Reduction!Next, Reduction!vars, Reduction!Direct, Reduction!Full, Reduction!Pack,
         Reduction!Flush, Reduction!AllReduce, Reduction!Step
<1>2. CASE ~Reduction!SameParameters
  BY <1>1, <1>2 DEF AveragesInStep, Reduction!SameParameters
<1>3. CASE Reduction!SameParameters
  <2>1. PICK list, c, spot, done : SyncedAt(list, c, spot, done)
    BY <1>3 DEF AveragesInStep
  <2>2. CASE UNCHANGED Reduction!vars
    <3>1. SyncedAt(list, c, spot, done)'
      BY <2>1, <2>2 DEF SyncedAt, Reduction!vars, Place, IsCourse, Consumed, Reduction!Size
    <3> QED BY <3>1 DEF AveragesInStep
  <2> QED BY <2>1, <2>2, DirectInStep, FullInStep, PackInStep, FlushInStep,
             AllReduceInStep DEF Reduction!Next, Reduction!Step
<1> QED BY <1>2, <1>3

(* A rank that is through has collected the gradients of all its tensors.  *)
LEMMA ReturnedHasAll ==
    ASSUME PackedFits, NEW list, NEW c, NEW spot, NEW done, SyncedAt(list, c, spot, done),
           NEW r \in Ranks, Reduction!Returned(r)
    PROVE  done = {list[k] : k \in 1 .. Len(list)}
<1> DEFINE i == spot[r]
           n == Len(list)
<1>1. /\ list \in Seq(Reduction!Params) /\ n \in Nat /\ i \in 0 .. n + 1
      /\ Place(c, list, r, i) /\ Collected(c, i, posted[r]) = done
      /\ Holding(c[n], list, n) /\ c[n + 1] = Flushed(c[n])
  BY PlaceFacts
<1>2. posted[r] = Reduction!None /\ todo[r] = <<>> /\ buffer[r] = <<>>
  BY DEF Reduction!Returned
<1>3. c[i].gone = done
  BY <1>1, <1>2 DEF Collected
<1>4. CASE i <= n
  <2>1. Len(todo[r]) = n - i /\ Len(todo[r]) = 0 /\ buffer[r] = c[i].buffer
    BY <1>1, <1>2, <1>4 DEF Place, AtPlace
  <2>2. i = n
    BY <1>1, <2>1
  <2>3. Members(c[n].buffer) = {}
    BY <1>2, <2>1, <2>2, EmptyOnce
  <2> QED BY <1>1, <1>3, <2>2, <2>3 DEF Holding
<1>5. CASE i = n + 1
  <2>1. done = c[n].gone \cup Members(c[n].buffer)
    BY <1>1, <1>3, <1>5 DEF Flushed
  <2> QED BY <1>1, <2>1 DEF Holding
<1> QED BY <1>1, <1>4, <1>5

LEMMA SynchronisedFollows ==
    ASSUME PackedFits, AveragesInStep
    PROVE  Reduction!GradientsAreSynchronised
<1> SUFFICES ASSUME Reduction!SameParameters, NEW r \in Ranks, Reduction!Returned(r),
                    NEW p \in Reduction!ToSet(tensors[r])
             PROVE  /\ grad[r][p].from
                          = [e \in Ranks \X Reduction!Params |->
                                 IF e[2] = p THEN 1 ELSE 0]
                    /\ grad[r][p].rescaled = 1
  BY DEF Reduction!GradientsAreSynchronised
<1>1. PICK list, c, spot, done : SyncedAt(list, c, spot, done)
  BY DEF AveragesInStep
<1>2. done = {list[k] : k \in 1 .. Len(list)} /\ list \in Seq(Reduction!Params)
      /\ tensors[r] = list
  <2>1. done = {list[k] : k \in 1 .. Len(list)}
    BY <1>1, ReturnedHasAll
  <2> QED BY <1>1, <2>1 DEF SyncedAt
<1>3. PICK k \in 1 .. Len(list) : p = list[k]
  BY <1>2 DEF Reduction!ToSet
<1>4. p \in done /\ p \in Reduction!Params
  BY <1>2, <1>3
<1>5. grad[r][p] = Synced(p)
  BY <1>1, <1>4 DEF SyncedAt
<1> QED BY <1>5 DEF Synced

(* When the ranks have gradients for the same parameters, what they wait   *)
(* to reduce together has one shape, and no rank waits for one that has    *)
(* returned: every collective of all_reduce_and_rescale_tensors is met.    *)
CollectivesAreMet ==
    part = "reduction" /\ Reduction!SameParameters =>
        /\ (\A r \in Ranks : posted[r] # Reduction!None) =>
               \A r, q \in Ranks : Reduction!Shape(r) = Reduction!Shape(q)
        /\ (\E r \in Ranks : Reduction!Returned(r)) =>
               \A q \in Ranks : posted[q] = Reduction!None

LEMMA CollectivesAreMetFollows ==
    ASSUME PackedFits, AveragesInStep, Reduction!SameParameters
    PROVE  /\ (\A r \in Ranks : posted[r] # Reduction!None) =>
                  \A r, q \in Ranks : Reduction!Shape(r) = Reduction!Shape(q)
           /\ (\E r \in Ranks : Reduction!Returned(r)) =>
                  \A q \in Ranks : posted[q] = Reduction!None
<1>1. PICK list, c, spot, done : SyncedAt(list, c, spot, done)
  BY DEF AveragesInStep
<1>2. ASSUME \A r \in Ranks : posted[r] # Reduction!None, NEW r \in Ranks, NEW q \in Ranks
      PROVE  Reduction!Shape(r) = Reduction!Shape(q)
  <2>1. spot[r] = spot[q]
    BY <1>1, <1>2, AllAtOnePlace
  <2>2. Place(c, list, r, spot[r]) /\ Place(c, list, q, spot[q])
    BY <1>1, PlaceFacts
  <2>3. posted[r].tensors = posted[q].tensors
    BY <1>2, <2>1, <2>2 DEF Place, AtPlace
  <2> QED BY <2>3 DEF Reduction!Shape
<1>3. ASSUME NEW r \in Ranks, Reduction!Returned(r),
             NEW q \in Ranks, posted[q] # Reduction!None
      PROVE  FALSE
  <2>1. done = {list[k] : k \in 1 .. Len(list)}
    BY <1>1, <1>3, ReturnedHasAll
  <2> DEFINE j == spot[q]
             n == Len(list)
  <2>2. /\ j \in 0 .. n + 1 /\ n \in Nat /\ Place(c, list, q, j)
        /\ Collected(c, j, posted[q]) = done
    BY <1>1, PlaceFacts
  <2>3. j \in 1 .. n + 1 /\ c[j].sent # <<>> /\ c[j - 1].gone = done
    BY <1>3, <2>2 DEF Place, AtPlace, Collected
  <2>4. Fresh(c[j], c[j - 1])
    BY <1>1, <2>3, PlaceFacts
  <2>5. c[j].sent[1] \in Members(c[j].sent)
    <3>1. 1 \in 1 .. Len(c[j].sent)
      BY <2>3, <2>4 DEF Fresh
    <3> QED BY <3>1 DEF Members
  <2>6. c[j].gone \subseteq done
    <3>1. CASE j <= n
      <4>1. Holding(c[j], list, j)
        BY <1>1, <2>2, <3>1, PlaceFacts
      <4>2. \A k \in 1 .. j : k \in 1 .. n
        BY <2>2, <3>1
      <4> QED BY <2>1, <4>1, <4>2 DEF Holding
    <3>2. CASE j = n + 1
      <4>1. Holding(c[n], list, n) /\ c[j] = Flushed(c[n])
        BY <1>1, <2>2, <3>2, PlaceFacts
      <4> QED BY <2>1, <4>1 DEF Holding, Flushed
    <3> QED BY <2>2, <3>1, <3>2
  <2> QED BY <2>3, <2>4, <2>5, <2>6 DEF Fresh
<1> QED BY <1>2, <1>3

ReductionInv == part = "reduction" => PackedFits /\ AveragesInStep

LEMMA ReductionInvHolds == CollectivesSpec => []ReductionInv
<1>1. CollectivesInit => ReductionInv
  BY PackedFitsInit, InStepInit DEF CollectivesInit, ReductionInv
<1>2. ASSUME ReductionInv, [CollectivesNext]_<<part, vars, gradients>>
      PROVE  ReductionInv'
  <2>1. CASE ReductionNext
    BY <1>2, <2>1, PackedFitsStep, InStepStep DEF ReductionNext, ReductionInv
  <2>2. CASE GatheringNext
    BY <2>2 DEF GatheringNext, ReductionInv
  <2>3. CASE \/ GatheringIsOver \/ ReductionHangs
             \/ UNCHANGED <<part, vars, gradients>>
    <3>1. part' = part /\ UNCHANGED Reduction!vars
      BY <2>3 DEF GatheringIsOver, ReductionHangs, gradients, Reduction!vars
    <3> QED BY <1>2, <3>1, PackedFitsStep, InStepStep DEF ReductionInv
  <2> QED BY <1>2, <2>1, <2>2, <2>3 DEF CollectivesNext
<1> QED BY <1>1, <1>2, PTL DEF CollectivesSpec

(* A gradient is the sum of those of the ranks, rescaled once, and what is *)
(* packed on the way fits in the buffer                                    *)
(* (all_reduce_and_rescale_tensors, GradientSynchronizer.synchronize).     *)
THEOREM GradientsSynchronised == CollectivesSpec => []GradientsAreSynchronised
<1>1. ReductionInv => GradientsAreSynchronised
  BY BufferFitsFollows, SynchronisedFollows
     DEF ReductionInv, GradientsAreSynchronised, PackedFits
<1> QED BY <1>1, ReductionInvHolds, PTL

(* No rank waits for ever in a collective of the reduction, if the ranks   *)
(* have gradients for the same parameters.                                 *)
THEOREM GradientCollectivesMet == CollectivesSpec => []CollectivesAreMet
<1>1. ReductionInv => CollectivesAreMet
  BY CollectivesAreMetFollows DEF ReductionInv, CollectivesAreMet
<1> QED BY <1>1, ReductionInvHolds, PTL
===============================================================================
