------------------------- MODULE Checkpointing_proofs -------------------------
(***************************************************************************)
(* Proofs about Checkpointing for any files, number of steps, frequency of  *)
(* saves, number of checkpoints kept, and any number of starts and kills.   *)
(***************************************************************************)
EXTENDS Checkpointing, TLAPS

------------------------------------------------------------------------------
(* The inductive invariant.                                                *)

(* How far a run can get: each start is at most one step beyond the last.  *)
Far == TrainSteps + run - 1
BoundInv ==
    /\ \A s \in dirs : s <= Far
    /\ \A f \in Files : link[f] <= Far
    /\ pc # "down" => run >= 1
    /\ pc = "training" => training_step <= Far
    /\ Saving => step_dir <= Far /\ training_step = step_dir + 1

(* A save in progress: what it has written and linked, what it is writing,  *)
(* and nobody else has written with its number.                            *)
Written(f) == link[f] = step_dir /\ file[step_dir][f] = save
SaveInv ==
    /\ Saving =>
         /\ save >= 1 /\ step_dir \in dirs
         /\ \A s \in Steps \ {step_dir}, f \in Files : file[s][f] < save
    /\ pc \in {"open", "write", "unlink", "link"} =>
         \A i \in 1 .. item - 1 : Items[i] # Items[item] => Written(Items[i])
    /\ pc = "write" => file[step_dir][Items[item]] = Torn
    /\ pc \in {"unlink", "link"} => file[step_dir][Items[item]] = save
    /\ pc \in {"cleanup", "remove", "enqueue"} => \A f \in Files : Written(f)

(* The queue lists whole checkpoints in the order of their steps, and the  *)
(* directory being removed came before them all.                           *)
QueueInv ==
    Running =>
        /\ \A i, k \in DOMAIN checkpoint_queue :
             i < k => checkpoint_queue[i] < checkpoint_queue[k]
        /\ \A i \in DOMAIN checkpoint_queue :
             /\ checkpoint_queue[i] \in dirs /\ IsCheckpoint(checkpoint_queue[i])
             /\ checkpoint_queue[i] < training_step
             /\ Saving => checkpoint_queue[i] < step_dir
        /\ pc = "remove" =>
             /\ doomed \in Steps /\ doomed < step_dir
             /\ \A i \in DOMAIN checkpoint_queue : doomed < checkpoint_queue[i]

IInv == /\ TypeOK /\ BoundInv /\ SaveInv /\ QueueInv
        /\ NoDanglingLink /\ RootIsLastSaved /\ LinksInOrder

------------------------------------------------------------------------------
(* The order of the items.                                                 *)
LEMMA ItemsFacts ==
  /\ Len(Items) \in Nat \ {0} /\ DOMAIN Items = 1 .. Len(Items)
  /\ \A i \in 1 .. Len(Items) : Items[i] \in Files
  /\ \A f \in Files : \E i \in 1 .. Len(Items) : Items[i] = f
  /\ {"optimizer", "weights", "vocab", "config"} \subseteq Files
  /\ \A i \in 1 .. Len(Items) :
       /\ Items[i] = "weights" => \E k \in 1 .. i - 1 : Items[k] = "optimizer"
       /\ Items[i] = "vocab" => \E k \in 1 .. i - 1 : Items[k] = "weights"
       /\ Items[i] = "config" => \E k \in 1 .. i - 1 : Items[k] = "weights"
       /\ Items[i] = "config" => \E k \in 1 .. i - 1 : Items[k] = "vocab"
<1> USE CheckpointAssumption
<1> DEFINE n == Len(Artifacts)
<1>1. n \in Nat /\ \A i \in 1 .. n : Artifacts[i] \notin {"optimizer", "weights", "vocab", "config"}
  <2>1. n \in Nat /\ DOMAIN Artifacts = 1 .. n
    OBVIOUS
  <2>2. \A i \in 1 .. n : Artifacts[i] \in Range(Artifacts)
    BY <2>1 DEF Range
  <2>3. QED  BY <2>1, <2>2
<1>2. Artifacts \in Seq(STRING)
  OBVIOUS
<1>3. /\ Len(Items) = n + 4 /\ DOMAIN Items = 1 .. n + 4
      /\ Items[1] = "optimizer" /\ Items[2] = "weights"
      /\ \A i \in 1 .. n : Items[i + 2] = Artifacts[i]
      /\ Items[n + 3] = "vocab" /\ Items[n + 4] = "config"
  BY <1>2 DEF Items
<1> HIDE DEF n
<1>4. \A i \in 1 .. n + 4 : \/ i = 1 \/ i = 2 \/ i = n + 3 \/ i = n + 4
                            \/ \E k \in 1 .. n : i = k + 2
  <2> SUFFICES ASSUME NEW i \in 1 .. n + 4, i # 1, i # 2, i # n + 3, i # n + 4
               PROVE  \E k \in 1 .. n : i = k + 2
    OBVIOUS
  <2>1. i - 2 \in 1 .. n /\ i = (i - 2) + 2
    BY <1>1
  <2>2. QED  BY <2>1
<1>5. \A i \in 1 .. n + 4 :
        /\ Items[i] = "weights" => i = 2
        /\ Items[i] = "vocab" => i = n + 3
        /\ Items[i] = "config" => i = n + 4
  <2> SUFFICES ASSUME NEW i \in 1 .. n + 4
               PROVE  /\ Items[i] = "weights" => i = 2
                      /\ Items[i] = "vocab" => i = n + 3
                      /\ Items[i] = "config" => i = n + 4
    OBVIOUS
  <2>1. CASE i = 1 \/ i = 2 \/ i = n + 3 \/ i = n + 4
    BY <1>3, <2>1
  <2>2. CASE \E k \in 1 .. n : i = k + 2
    <3>1. PICK k \in 1 .. n : i = k + 2
      BY <2>2
    <3>2. Items[i] = Artifacts[k] /\ Artifacts[k] \notin {"optimizer", "weights", "vocab", "config"}
      BY <1>1, <1>3, <3>1
    <3>3. QED  BY <3>2
  <2>3. QED  BY <1>4, <2>1, <2>2
<1>6. 1 \in 1 .. n + 4 /\ 2 \in 1 .. n + 4 /\ n + 3 \in 1 .. n + 4 /\ n + 4 \in 1 .. n + 4
  BY <1>1
<1>7. Files = {Items[i] : i \in 1 .. n + 4}
  BY <1>3 DEF Files, Range
<1>8. {"optimizer", "weights", "vocab", "config"} \subseteq Files
  BY <1>3, <1>6, <1>7
<1>9. ASSUME NEW i \in 1 .. n + 4
      PROVE  /\ Items[i] = "weights" => \E k \in 1 .. i - 1 : Items[k] = "optimizer"
             /\ Items[i] = "vocab" => \E k \in 1 .. i - 1 : Items[k] = "weights"
             /\ Items[i] = "config" => \E k \in 1 .. i - 1 : Items[k] = "weights"
             /\ Items[i] = "config" => \E k \in 1 .. i - 1 : Items[k] = "vocab"
  <2>1. Items[i] = "weights" => 1 \in 1 .. i - 1
    BY <1>5
  <2>2. Items[i] \in {"vocab", "config"} => 2 \in 1 .. i - 1
    BY <1>1, <1>5
  <2>3. Items[i] = "config" => n + 3 \in 1 .. i - 1
    BY <1>1, <1>5
  <2>4. QED  BY <1>3, <2>1, <2>2, <2>3
<1>10. Len(Items) \in Nat \ {0}
  BY <1>1, <1>3
<1>11. QED  BY <1>3, <1>7, <1>8, <1>9, <1>10

------------------------------------------------------------------------------
(* Types and bounds.                                                       *)
LEMMA InitIInv == Init => IInv
<1> SUFFICES ASSUME Init PROVE IInv
  OBVIOUS
<1> USE CheckpointAssumption
<1>1. TypeOK
  <2>1. 1 \in Steps /\ 1 \in 1 .. Len(Items) /\ run \in 0 .. MaxRuns
    BY ItemsFacts DEF Init, Steps
  <2>2. file \in [Steps -> [Files -> {Missing, Torn} \cup (1 .. save)]]
    BY DEF Init
  <2>3. link \in [Files -> Steps \cup {NoStep}]
    BY DEF Init
  <2>4. checkpoint_queue \in Seq(Steps) /\ dirs \subseteq Steps /\ save \in Nat
    BY DEF Init
  <2>5. training_step \in Steps /\ item \in 1 .. Len(Items)
    BY <2>1 DEF Init
  <2>6. /\ step_dir = NoStep /\ last_saved_step = NoStep /\ doomed = NoStep
        /\ pc = "down" /\ failed = FALSE
    BY DEF Init
  <2>7. QED  BY <2>1, <2>2, <2>3, <2>4, <2>5, <2>6 DEF TypeOK
<1>2. BoundInv /\ SaveInv /\ QueueInv
  BY DEF Init, BoundInv, SaveInv, QueueInv, Far, Saving, Running, NoStep
<1>3. NoDanglingLink /\ RootIsLastSaved
  BY DEF Init, NoDanglingLink, RootIsLastSaved, Running
<1>4. LinksInOrder
  BY ItemsFacts DEF Init, LinksInOrder, Whole, Held, Home, NoStep, Missing, Root
<1>5. QED  BY <1>1, <1>2, <1>3, <1>4 DEF IInv

(* Writing a file changes that file only.                                  *)
LEMMA PutFacts ==
  ASSUME TypeOK, NEW s \in Steps, NEW f \in Files, NEW c,
         file' = [file EXCEPT ![s][f] = c]
  PROVE  /\ file'[s][f] = c
         /\ \A t \in Steps, g \in Files : t # s \/ g # f => file'[t][g] = file[t][g]
         /\ c \in {Missing, Torn} \cup (1 .. save) =>
              file' \in [Steps -> [Files -> {Missing, Torn} \cup (1 .. save)]]
<1>1. file \in [Steps -> [Files -> {Missing, Torn} \cup (1 .. save)]] /\ file[s] \in [Files -> {Missing, Torn} \cup (1 .. save)]
  BY DEF TypeOK
<1>2. file' = [file EXCEPT ![s] = [file[s] EXCEPT ![f] = c]]
  BY <1>1
<1>3. file'[s] = [file[s] EXCEPT ![f] = c] /\ \A t \in Steps \ {s} : file'[t] = file[t]
  BY <1>1, <1>2
<1>4. file'[s][f] = c /\ \A g \in Files \ {f} : file'[s][g] = file[s][g]
  BY <1>1, <1>3
<1>5. ASSUME c \in {Missing, Torn} \cup (1 .. save)
      PROVE  file' \in [Steps -> [Files -> {Missing, Torn} \cup (1 .. save)]]
  <2>1. [file[s] EXCEPT ![f] = c] \in [Files -> {Missing, Torn} \cup (1 .. save)]
    BY <1>1, <1>5
  <2>2. QED  BY <1>1, <1>2, <2>1
<1>6. QED  BY <1>3, <1>4, <1>5

(* While a save is in progress it has a step, an item and a directory.     *)
LEMMA SavingFacts ==
  ASSUME IInv, Saving
  PROVE  /\ step_dir \in Steps /\ step_dir \in dirs
         /\ item \in 1 .. Len(Items) /\ Items[item] \in Files
         /\ save \in Nat \ {0} /\ run \in Nat /\ run >= 1
BY ItemsFacts DEF IInv, TypeOK, SaveInv, BoundInv, Saving

(* A step that takes part in saving or removing changes one file at most.  *)
LEMMA FileSteps ==
  ASSUME IInv, Open \/ Write \/ \E f \in Files : RemoveFile(f)
  PROVE  \E s \in Steps, f \in Files, c \in {Missing, Torn, save} :
           /\ file' = [file EXCEPT ![s][f] = c]
           /\ \/ s = step_dir /\ f = Items[item] /\ c = Torn /\ pc = "open" /\ pc' = "write"
              \/ s = step_dir /\ f = Items[item] /\ c = save /\ pc = "write" /\ pc' = "unlink"
              \/ s = doomed /\ c = Missing /\ pc = "remove" /\ pc' = "remove"
           /\ UNCHANGED <<dirs, link, process, run, save, failed>>
<1>1. CASE Open
  <2>1. Saving
    BY <1>1 DEF Open, Saving
  <2>2. QED  BY <1>1, <2>1, SavingFacts DEF Open, Put
<1>2. CASE Write
  <2>1. Saving
    BY <1>2 DEF Write, Saving
  <2>2. QED  BY <1>2, <2>1, SavingFacts DEF Write, Put
<1>3. ASSUME NEW f \in Files, RemoveFile(f)
      PROVE  /\ doomed \in Steps /\ file' = [file EXCEPT ![doomed][f] = Missing]
             /\ pc = "remove" /\ pc' = "remove"
             /\ UNCHANGED <<dirs, link, process, run, save, failed>>
  BY <1>3 DEF RemoveFile, IInv, QueueInv, Running
<1>4. QED  BY <1>1, <1>2, <1>3

(* Where a run starts.                                                     *)
LEMMA StartFacts ==
  ASSUME IInv, Start
  PROVE  \/ \E step \in 1 .. Far + 1 : Begin(step)
         \/ /\ run < MaxRuns /\ run' = run + 1 /\ pc' = "down"
            /\ UNCHANGED <<disk, process, save>>
<1> USE CheckpointAssumption DEF IInv, TypeOK
<1>1. TrainSteps \in Nat \ {0} /\ run \in Nat /\ Far \in Nat
  BY DEF Far
<1>2. CASE StartFresh
  BY <1>1, <1>2 DEF StartFresh
<1>3. ASSUME NEW source \in dirs \cup {Root}, NEW reset \in ResetOptim, Resume(source, reset)
      PROVE  \E step \in 1 .. Far + 1 : Begin(step)
  <2>1. ResumedStep(source, reset) \in 1 .. Far + 1
    <3>1. CASE Whole(source, "optimizer")
      <4>1. Home(source, "optimizer") \in Steps \cup {NoStep}
        BY ItemsFacts DEF Home
      <4>2. Home(source, "optimizer") <= Far
        BY ItemsFacts DEF Home, BoundInv
      <4>3. Home(source, "optimizer") + 1 \in 1 .. Far + 1
        BY <1>1, <4>1, <4>2 DEF Steps, NoStep
      <4>4. QED  BY <1>1, <4>3 DEF ResumedStep, SavedTrainingStep
    <3>2. CASE ~Whole(source, "optimizer")
      BY <1>1, <3>2 DEF ResumedStep
    <3>3. QED  BY <3>1, <3>2
  <2>2. QED  BY <1>3, <2>1 DEF Resume
<1>4. ASSUME NEW source, NEW reset, ResumeFails(source, reset)
      PROVE  /\ run < MaxRuns /\ run' = run + 1 /\ pc' = "down"
             /\ UNCHANGED <<disk, process, save>>
  BY <1>4 DEF ResumeFails
<1>5. QED  BY <1>2, <1>3, <1>4 DEF Start

LEMMA StepTypeOK ==
  ASSUME IInv, [Next]_vars
  PROVE  TypeOK' /\ BoundInv'
<1> USE CheckpointAssumption
<1>1. /\ TrainSteps \in Nat \ {0} /\ MaxRuns \in Nat /\ run \in 0 .. MaxRuns
      /\ Steps = 1 .. (TrainSteps + MaxRuns)
      /\ dirs \subseteq Steps /\ training_step \in Steps \cup {TrainSteps + MaxRuns + 1}
      /\ step_dir \in Steps \cup {NoStep} /\ NoStep = 0
      /\ item \in 1 .. Len(Items) /\ Len(Items) \in Nat /\ 1 \in 1 .. Len(Items)
      /\ checkpoint_queue \in Seq(Steps) /\ save \in Nat
      /\ link \in [Files -> Steps \cup {NoStep}]
  BY ItemsFacts DEF IInv, TypeOK, Steps, NoStep
<1>2. ASSUME NEW step \in 1 .. Far + 1, Begin(step) PROVE TypeOK' /\ BoundInv'
  <2>1. /\ run' = run + 1 /\ run' \in 0 .. MaxRuns /\ run' >= 1
        /\ pc' = "training" /\ training_step' = step
        /\ step_dir' = NoStep /\ item' = 1 /\ last_saved_step' = NoStep
        /\ checkpoint_queue' = <<>> /\ doomed' = NoStep
        /\ UNCHANGED <<dirs, file, link, save, failed>>
    BY <1>1, <1>2 DEF Begin, disk
  <2>2. step \in Steps /\ step <= TrainSteps + run' - 1
    BY <1>1, <2>1 DEF Far
  <2>3. TypeOK'
    BY <1>1, <2>1, <2>2 DEF IInv, TypeOK
  <2>4. BoundInv'
    BY <1>1, <2>1, <2>2 DEF IInv, BoundInv, Far, Saving
  <2>5. QED  BY <2>3, <2>4
<1>3. ASSUME run < MaxRuns, run' = run + 1, pc' = "down", UNCHANGED <<disk, process, save>>,
             Start
      PROVE  TypeOK' /\ BoundInv'
  <2>1. failed' \in BOOLEAN
    BY <1>3 DEF Start, StartFresh, Resume, ResumeFails, Begin, IInv, TypeOK
  <2>2. TypeOK'
    BY <1>1, <1>3, <2>1 DEF IInv, TypeOK, disk, process
  <2>3. BoundInv'
    <3>1. Far' = Far + 1 /\ Far \in Nat
      BY <1>1, <1>3 DEF Far
    <3>2. \A s \in dirs' : s <= Far'
      <4>1. \A s \in dirs : s \in Nat /\ s <= Far
        BY <1>1 DEF IInv, BoundInv
      <4>2. QED  BY <1>3, <3>1, <4>1 DEF disk
    <3>3. \A f \in Files : link'[f] <= Far'
      <4>1. \A f \in Files : link[f] \in Nat /\ link[f] <= Far
        BY <1>1 DEF IInv, BoundInv
      <4>2. QED  BY <1>3, <3>1, <4>1 DEF disk
    <3>4. QED  BY <1>3, <3>2, <3>3 DEF BoundInv, Saving
  <2>4. QED  BY <2>2, <2>3
<1>4. CASE Train
  <2>1. /\ pc = "training" /\ training_step' = training_step + 1
        /\ training_step <= Far
        /\ pc' = IF training_step >= TrainSteps THEN "done" ELSE "training"
        /\ UNCHANGED <<dirs, file, link, step_dir, item, last_saved_step, checkpoint_queue,
                       doomed, run, save, failed>>
    BY <1>4 DEF Train, disk, IInv, BoundInv
  <2>2. TypeOK'
    BY <1>1, <2>1 DEF IInv, TypeOK, Far
  <2>3. BoundInv'
    BY <1>1, <2>1 DEF IInv, BoundInv, Far, Saving
  <2>4. QED  BY <2>2, <2>3
<1>5. CASE TrainAndSave
  <2>1. /\ pc = "training" /\ training_step' = training_step + 1
        /\ training_step <= Far /\ run >= 1
        /\ step_dir' = training_step /\ dirs' = dirs \cup {training_step}
        /\ item' = 1 /\ save' = save + 1 /\ pc' = "open"
        /\ UNCHANGED <<file, link, last_saved_step, checkpoint_queue, doomed, run, failed>>
    BY <1>5 DEF TrainAndSave, BeginSave, IInv, BoundInv
  <2>2. training_step \in Steps
    BY <1>1, <2>1 DEF Far
  <2>3. file' \in [Steps -> [Files -> {Missing, Torn} \cup (1 .. save')]]
    BY <1>1, <2>1 DEF IInv, TypeOK
  <2>4. TypeOK'
    BY <1>1, <2>1, <2>2, <2>3 DEF IInv, TypeOK
  <2>5. BoundInv'
    BY <1>1, <2>1, <2>2 DEF IInv, BoundInv, Far, Saving
  <2>6. QED  BY <2>4, <2>5
<1>6. CASE Open \/ Write \/ \E f \in Files : RemoveFile(f)
  <2>1. PICK s \in Steps, f \in Files, c \in {Missing, Torn, save} :
           /\ file' = [file EXCEPT ![s][f] = c]
           /\ \/ s = step_dir /\ f = Items[item] /\ c = Torn /\ pc = "open" /\ pc' = "write"
              \/ s = step_dir /\ f = Items[item] /\ c = save /\ pc = "write" /\ pc' = "unlink"
              \/ s = doomed /\ c = Missing /\ pc = "remove" /\ pc' = "remove"
           /\ UNCHANGED <<dirs, link, process, run, save, failed>>
    BY <1>6, FileSteps
  <2>2. save >= 1
    BY <2>1 DEF IInv, SaveInv, Saving
  <2>3. file' \in [Steps -> [Files -> {Missing, Torn} \cup (1 .. save)]]
    <3>1. c \in {Missing, Torn} \cup (1 .. save) /\ save' = save
      BY <1>1, <2>1, <2>2
    <3>2. TypeOK /\ file' = [file EXCEPT ![s][f] = c]
      BY <2>1 DEF IInv
    <3>3. QED  BY <3>1, <3>2, PutFacts
  <2>4. TypeOK'
    BY <1>1, <2>1, <2>3 DEF IInv, TypeOK, process
  <2>5. BoundInv'
    BY <1>1, <2>1 DEF IInv, BoundInv, Far, Saving, process
  <2>6. QED  BY <2>4, <2>5
<1>7. CASE Unlink \/ Link
  <2>1. pc \in {"unlink", "link"} /\ Saving
    BY <1>7 DEF Unlink, Link, Saving
  <2>2. Items[item] \in Files /\ step_dir \in Steps /\ step_dir <= Far /\ run >= 1
    BY <2>1, SavingFacts DEF IInv, BoundInv
  <2>3. \E s \in {NoStep, step_dir} : link' = [link EXCEPT ![Items[item]] = s]
    BY <1>7 DEF Unlink, Link
  <2>4. /\ pc' \in {"link", "open", "cleanup"}
        /\ item' \in 1 .. Len(Items)
        /\ UNCHANGED <<dirs, file, training_step, step_dir, last_saved_step,
                       checkpoint_queue, doomed, run, save, failed>>
    BY <1>1, <1>7 DEF Unlink, Link, process
  <2>5. TypeOK'
    BY <1>1, <2>2, <2>3, <2>4 DEF IInv, TypeOK
  <2>6. BoundInv'
    <3>1. \A f \in Files : link'[f] <= Far
      BY <1>1, <2>2, <2>3 DEF IInv, BoundInv, Far
    <3>2. QED  BY <1>1, <2>1, <2>4, <3>1 DEF IInv, BoundInv, Far, Saving
  <2>7. QED  BY <2>5, <2>6
<1>8. CASE Pop
  <2>1. /\ pc = "cleanup" /\ pc' = "remove" /\ checkpoint_queue # <<>>
        /\ doomed' = Head(checkpoint_queue) /\ checkpoint_queue' = Tail(checkpoint_queue)
        /\ UNCHANGED <<dirs, file, link, training_step, step_dir, item, last_saved_step, run,
                       save, failed>>
    BY <1>1, <1>8 DEF Pop, PopStep, Full, disk
  <2>2. Head(checkpoint_queue) \in Steps /\ Tail(checkpoint_queue) \in Seq(Steps)
    BY <1>1, <2>1
  <2>3. TypeOK'
    BY <1>1, <2>1, <2>2 DEF IInv, TypeOK
  <2>4. BoundInv'
    BY <1>1, <2>1 DEF IInv, BoundInv, Far, Saving
  <2>5. QED  BY <2>3, <2>4
<1>9. CASE NoPop \/ RemoveDir
  <2>1. /\ pc \in {"cleanup", "remove"} /\ pc' = "enqueue" /\ dirs' \subseteq dirs
        /\ UNCHANGED <<file, link, process, run, save, failed>>
    BY <1>9 DEF NoPop, RemoveDir, disk
  <2>2. TypeOK'
    BY <1>1, <2>1 DEF IInv, TypeOK, process
  <2>3. BoundInv'
    BY <1>1, <2>1 DEF IInv, BoundInv, Far, Saving, process
  <2>4. QED  BY <2>2, <2>3
<1>10. CASE Enqueue
  <2>1. /\ pc = "enqueue" /\ Saving /\ last_saved_step' = step_dir
        /\ pc' = IF step_dir >= TrainSteps THEN "done" ELSE "training"
        /\ UNCHANGED <<dirs, file, link, training_step, step_dir, item, doomed, run, save, failed>>
    BY <1>10 DEF Enqueue, disk, Saving
  <2>2. step_dir \in Steps /\ run >= 1 /\ training_step = step_dir + 1
    BY <2>1, SavingFacts DEF IInv, BoundInv
  <2>3. checkpoint_queue' \in Seq(Steps)
    <3>1. Append(checkpoint_queue, step_dir) \in Seq(Steps)
      BY <1>1, <2>2
    <3>2. \/ checkpoint_queue' = Append(checkpoint_queue, step_dir)
          \/ checkpoint_queue' = checkpoint_queue
      BY <1>10 DEF Enqueue
    <3>3. QED  BY <1>1, <3>1, <3>2
  <2>4. TypeOK'
    BY <1>1, <2>1, <2>2, <2>3 DEF IInv, TypeOK
  <2>5. BoundInv'
    BY <1>1, <2>1, <2>2 DEF IInv, BoundInv, Far, Saving
  <2>6. QED  BY <2>4, <2>5
<1>11. CASE Crash
  <2>1. pc' = "down" /\ UNCHANGED <<dirs, file, link, process, run, save, failed>>
    BY <1>11 DEF Crash, disk
  <2>2. TypeOK'
    BY <1>1, <2>1 DEF IInv, TypeOK, process
  <2>3. BoundInv'
    BY <1>1, <2>1 DEF IInv, BoundInv, Far, Saving, process
  <2>4. QED  BY <2>2, <2>3
<1>12. CASE UNCHANGED vars
  <2>1. TypeOK'
    BY <1>12 DEF IInv, TypeOK, vars, disk, process
  <2>2. BoundInv'
    BY <1>12 DEF IInv, BoundInv, Far, Saving, vars, disk, process
  <2>3. QED  BY <2>1, <2>2
<1>13. CASE Start
  BY <1>2, <1>3, <1>13, StartFacts
<1>14. QED
  BY <1>4, <1>5, <1>6, <1>7, <1>8, <1>9, <1>10, <1>11, <1>12, <1>13 DEF Next, Step, Ended

------------------------------------------------------------------------------
(* The save in progress.                                                   *)

(* A checkpoint stays one while nobody touches its files.                  *)
LEMMA CheckpointKept ==
  ASSUME IInv, [Next]_vars, NEW s \in Steps, \A f \in Files : file'[s][f] = file[s][f],
         IsCheckpoint(s)
  PROVE  IsCheckpoint(s)'
<1>1. save \in Nat /\ (save' = save \/ save' = save + 1)
  BY DEF IInv, TypeOK, Next, vars, disk, process, Ended, Crash, Start, StartFresh, Resume,
     ResumeFails, Begin, Step, Train, TrainAndSave, BeginSave, Open, Write, Unlink, Link,
     Pop, PopStep, NoPop, RemoveFile, RemoveDir, Enqueue
<1>2. PICK n \in 1 .. save : Complete(s, n)
  BY DEF IsCheckpoint
<1>3. n \in 1 .. save'
  BY <1>1
<1>4. Complete(s, n)'
  BY <1>2 DEF Complete
<1>5. QED  BY <1>3, <1>4 DEF IsCheckpoint

(* Opening and writing touch the step that is saved; removing touches the  *)
(* doomed step, which is another one.                                      *)
LEMMA TouchFacts ==
  ASSUME IInv, Open \/ Write \/ \E f \in Files : RemoveFile(f)
  PROVE  /\ UNCHANGED <<dirs, link, process, run, save, failed>>
         /\ \/ /\ pc = "open" /\ pc' = "write" /\ file'[step_dir][Items[item]] = Torn
               /\ \A t \in Steps, g \in Files :
                    t # step_dir \/ g # Items[item] => file'[t][g] = file[t][g]
            \/ /\ pc = "write" /\ pc' = "unlink" /\ file'[step_dir][Items[item]] = save
               /\ \A t \in Steps, g \in Files :
                    t # step_dir \/ g # Items[item] => file'[t][g] = file[t][g]
            \/ /\ pc = "remove" /\ pc' = "remove"
               /\ doomed \in Steps /\ step_dir \in Steps /\ doomed < step_dir
               /\ \A t \in Steps, g \in Files :
                    file'[t][g] = file[t][g] \/ (t = doomed /\ file'[t][g] = Missing)
<1>1. PICK s \in Steps, f \in Files, c \in {Missing, Torn, save} :
         /\ file' = [file EXCEPT ![s][f] = c]
         /\ \/ s = step_dir /\ f = Items[item] /\ c = Torn /\ pc = "open" /\ pc' = "write"
            \/ s = step_dir /\ f = Items[item] /\ c = save /\ pc = "write" /\ pc' = "unlink"
            \/ s = doomed /\ c = Missing /\ pc = "remove" /\ pc' = "remove"
         /\ UNCHANGED <<dirs, link, process, run, save, failed>>
  BY FileSteps
<1>2. TypeOK /\ file' = [file EXCEPT ![s][f] = c]
  BY <1>1 DEF IInv
<1>3. /\ file'[s][f] = c
      /\ \A t \in Steps, g \in Files : t # s \/ g # f => file'[t][g] = file[t][g]
  <2>1. s \in Steps /\ f \in Files
    OBVIOUS
  <2>2. file'[s][f] = c
    <3>1. f \in DOMAIN file[s] /\ s \in DOMAIN file
      BY <1>2 DEF TypeOK
    <3>2. QED  BY <1>2, <3>1
  <2>3. \A t \in Steps, g \in Files : t # s \/ g # f => file'[t][g] = file[t][g]
    BY <1>2, <2>1, PutFacts, SMT
  <2>4. QED  BY <2>2, <2>3
<1>4. CASE s = doomed /\ c = Missing /\ pc = "remove" /\ pc' = "remove"
  <2>1. Saving /\ Running
    BY <1>4 DEF Saving, Running
  <2>2. doomed < step_dir /\ step_dir \in Steps
    BY <1>4, <2>1, SavingFacts DEF IInv, QueueInv
  <2>3. \A t \in Steps, g \in Files :
          file'[t][g] = file[t][g] \/ (t = doomed /\ file'[t][g] = Missing)
    BY <1>3, <1>4
  <2>4. QED  BY <1>1, <1>4, <2>2, <2>3
<1>5. CASE s = step_dir /\ f = Items[item] /\ c = Torn /\ pc = "open" /\ pc' = "write"
  BY <1>1, <1>3, <1>5
<1>6. CASE s = step_dir /\ f = Items[item] /\ c = save /\ pc = "write" /\ pc' = "unlink"
  BY <1>1, <1>3, <1>6
<1>7. QED  BY <1>1, <1>4, <1>5, <1>6

(* Moving a link changes that link only.                                   *)
LEMMA LinkFacts ==
  ASSUME IInv, Unlink \/ Link
  PROVE  /\ UNCHANGED <<dirs, file, training_step, step_dir, last_saved_step,
                        checkpoint_queue, doomed, run, save, failed>>
         /\ Saving /\ step_dir \in Steps /\ item \in 1 .. Len(Items) /\ Items[item] \in Files
         /\ \A f \in Files \ {Items[item]} : link'[f] = link[f]
         /\ file[step_dir][Items[item]] = save
         /\ \/ /\ pc = "unlink" /\ pc' = "link" /\ item' = item
               /\ link'[Items[item]] = NoStep
            \/ /\ pc = "link" /\ link'[Items[item]] = step_dir
               /\ \/ item < Len(Items) /\ item' = item + 1 /\ pc' = "open"
                  \/ item = Len(Items) /\ item' = item /\ pc' = "cleanup"
<1>1. Saving /\ pc \in {"unlink", "link"}
  BY DEF Unlink, Link, Saving
<1>2. /\ step_dir \in Steps /\ item \in 1 .. Len(Items) /\ Items[item] \in Files
      /\ file[step_dir][Items[item]] = save /\ link \in [Files -> Steps \cup {NoStep}]
  BY <1>1, SavingFacts DEF IInv, SaveInv, TypeOK
<1>3. Len(Items) \in Nat
  BY ItemsFacts
<1>4. CASE Unlink
  BY <1>1, <1>2, <1>4 DEF Unlink, process
<1>5. CASE Link
  BY <1>1, <1>2, <1>3, <1>5 DEF Link
<1>6. QED  BY <1>4, <1>5

LEMMA StepSaveInv ==
  ASSUME IInv, [Next]_vars, TypeOK'
  PROVE  SaveInv'
<1>0. /\ \A s \in Steps, f \in Files : file[s][f] \in {Missing, Torn} \cup (1 .. save)
      /\ save \in Nat /\ dirs \subseteq Steps /\ Missing = 0 /\ Torn = -1
      /\ Len(Items) \in Nat /\ \A i \in 1 .. Len(Items) : Items[i] \in Files
  BY ItemsFacts DEF IInv, TypeOK, Missing, Torn
<1>1. CASE pc' \in {"training", "down", "done"}
  BY <1>1 DEF SaveInv, Saving
<1>2. CASE TrainAndSave
  <2>1. /\ step_dir' = training_step /\ dirs' = dirs \cup {training_step}
        /\ item' = 1 /\ save' = save + 1 /\ pc' = "open" /\ file' = file
    BY <1>2 DEF TrainAndSave, BeginSave
  <2>2. \A s \in Steps \ {step_dir'}, f \in Files : file'[s][f] < save'
    BY <1>0, <2>1
  <2>3. save' >= 1 /\ step_dir' \in dirs' /\ 1 .. item' - 1 = {}
    BY <1>0, <2>1
  <2>4. QED  BY <2>1, <2>2, <2>3 DEF SaveInv, Saving
<1>3. CASE Open \/ Write
  <2>1. /\ UNCHANGED <<dirs, link, process, run, save, failed>>
        /\ pc \in {"open", "write"}
        /\ \A t \in Steps, g \in Files :
             t # step_dir \/ g # Items[item] => file'[t][g] = file[t][g]
        /\ \/ pc' = "write" /\ file'[step_dir][Items[item]] = Torn
           \/ pc' = "unlink" /\ file'[step_dir][Items[item]] = save
    <3>1. pc \in {"open", "write"}
      BY <1>3 DEF Open, Write
    <3>2. QED  BY <1>3, <3>1, TouchFacts
  <2>2. Saving /\ step_dir \in Steps /\ item \in 1 .. Len(Items)
    BY <2>1, SavingFacts DEF Saving
  <2>3. /\ save >= 1 /\ step_dir \in dirs
        /\ \A s \in Steps \ {step_dir}, f \in Files : file[s][f] < save
        /\ \A i \in 1 .. item - 1 : Items[i] # Items[item] => Written(Items[i])
    BY <2>1, <2>2 DEF IInv, SaveInv
  <2>4. \A i \in 1 .. item' - 1 : Items[i] # Items[item'] => Written(Items[i])'
    <3>1. \A i \in 1 .. item - 1 : Items[i] \in Files
      BY <1>0, <2>2
    <3>2. QED  BY <2>1, <2>2, <2>3, <3>1 DEF Written, process
  <2>5. \A s \in Steps \ {step_dir'}, f \in Files : file'[s][f] < save'
    BY <2>1, <2>3 DEF process
  <2>6. QED  BY <2>1, <2>3, <2>4, <2>5 DEF SaveInv, Saving, process
<1>4. CASE Unlink \/ Link
  <2>1. /\ save >= 1 /\ step_dir \in dirs
        /\ \A s \in Steps \ {step_dir}, f \in Files : file[s][f] < save
        /\ \A i \in 1 .. item - 1 : Items[i] # Items[item] => Written(Items[i])
    BY <1>4, LinkFacts DEF IInv, SaveInv, Saving, Unlink, Link
  <2>2. \A i \in 1 .. item - 1 : Items[i] \in Files
    BY <1>0, <1>4, LinkFacts
  <2>3. \A i \in 1 .. item - 1 : Items[i] # Items[item] => Written(Items[i])'
    BY <1>4, <2>1, <2>2, LinkFacts DEF Written
  <2>4. CASE pc' = "link"
    BY <1>4, <2>1, <2>3, <2>4, LinkFacts DEF SaveInv, Saving
  <2>5. CASE pc' # "link"
    <3>1. /\ pc = "link" /\ link'[Items[item]] = step_dir'
          /\ file'[step_dir'][Items[item]] = save'
      BY <1>4, <2>5, LinkFacts
    <3>2. \A i \in 1 .. item : Written(Items[i])'
      <4>1. item \in Nat
        BY <1>4, LinkFacts
      <4>2. \A i \in 1 .. item : i = item \/ i \in 1 .. item - 1
        BY <4>1
      <4>3. SUFFICES ASSUME NEW i \in 1 .. item, Items[i] # Items[item] PROVE Written(Items[i])'
        BY <3>1 DEF Written
      <4>4. QED  BY <2>3, <4>2, <4>3
    <3>3. CASE item < Len(Items) /\ item' = item + 1 /\ pc' = "open"
      <4>1. item' - 1 = item
        BY <1>4, <3>3, LinkFacts
      <4>2. QED  BY <1>4, <2>1, <3>2, <3>3, <4>1, LinkFacts DEF SaveInv, Saving
    <3>4. CASE item = Len(Items) /\ item' = item /\ pc' = "cleanup"
      <4>1. \A f \in Files : Written(f)'
        BY <3>2, <3>4, ItemsFacts
      <4>2. QED  BY <1>4, <2>1, <3>4, <4>1, LinkFacts DEF SaveInv, Saving
    <3>5. QED  BY <1>4, <2>5, <3>3, <3>4, LinkFacts
  <2>6. QED  BY <2>4, <2>5
<1>5. CASE Pop \/ NoPop \/ RemoveDir
  <2>1. /\ pc \in {"cleanup", "remove"} /\ pc' \in {"remove", "enqueue"}
        /\ UNCHANGED <<file, link, step_dir, save>>
        /\ dirs' = dirs \/ (pc = "remove" /\ dirs' = dirs \ {doomed})
    BY <1>5 DEF Pop, PopStep, NoPop, RemoveDir, disk, process
  <2>2. /\ save >= 1 /\ step_dir \in dirs /\ step_dir \in Steps
        /\ \A s \in Steps \ {step_dir}, f \in Files : file[s][f] < save
        /\ \A f \in Files : Written(f)
    BY <1>0, <2>1 DEF IInv, SaveInv, Saving
  <2>3. pc = "remove" => doomed # step_dir
    BY <2>2 DEF IInv, QueueInv, Running, Steps
  <2>4. QED  BY <2>1, <2>2, <2>3 DEF SaveInv, Saving, Written
<1>6. ASSUME NEW f \in Files, RemoveFile(f) PROVE SaveInv'
  <2>1. pc = "remove"
    BY <1>6 DEF RemoveFile
  <2>2. /\ UNCHANGED <<dirs, link, process, run, save, failed>>
        /\ pc' = "remove" /\ doomed \in Steps /\ step_dir \in Steps /\ doomed < step_dir
        /\ \A t \in Steps, g \in Files :
             file'[t][g] = file[t][g] \/ (t = doomed /\ file'[t][g] = Missing)
    BY <1>6, <2>1, TouchFacts
  <2>3. /\ save >= 1 /\ step_dir \in dirs
        /\ \A s \in Steps \ {step_dir}, g \in Files : file[s][g] < save
        /\ \A g \in Files : Written(g)
    BY <2>1 DEF IInv, SaveInv, Saving
  <2>4. doomed # step_dir
    BY <2>2 DEF Steps
  <2>5. \A s \in Steps \ {step_dir}, g \in Files : file'[s][g] < save
    BY <1>0, <2>2, <2>3
  <2>6. \A g \in Files : file'[step_dir][g] = file[step_dir][g]
    BY <2>2, <2>4
  <2>7. QED  BY <2>2, <2>3, <2>5, <2>6 DEF SaveInv, Saving, Written, process
<1>7. CASE UNCHANGED vars
  BY <1>7 DEF IInv, SaveInv, Saving, Written, vars, disk, process
<1>8. CASE Start \/ Train \/ Enqueue \/ Crash
  <2>1. pc' \in {"training", "down", "done"}
    BY <1>8 DEF Start, StartFresh, Resume, ResumeFails, Begin, Train, Enqueue, Crash
  <2>2. QED  BY <1>1, <2>1
<1>9. QED
  BY <1>2, <1>3, <1>4, <1>5, <1>6, <1>7, <1>8 DEF Next, Step, Ended

------------------------------------------------------------------------------
(* The queue.                                                              *)
LEMMA StepQueueInv ==
  ASSUME IInv, [Next]_vars, TypeOK'
  PROVE  QueueInv'
<1>0. /\ checkpoint_queue \in Seq(Steps) /\ dirs \subseteq Steps /\ save \in Nat
      /\ Steps \subseteq Nat /\ \A i \in DOMAIN checkpoint_queue : checkpoint_queue[i] \in Steps
  <2>1. checkpoint_queue \in Seq(Steps) /\ dirs \subseteq Steps /\ save \in Nat
    BY DEF IInv, TypeOK
  <2>2. Steps \subseteq Nat
    BY CheckpointAssumption DEF Steps
  <2>3. \A i \in DOMAIN checkpoint_queue : checkpoint_queue[i] \in Steps
    BY <2>1
  <2>4. QED  BY <2>1, <2>2, <2>3
<1>1. CASE pc' \in {"down", "done"}
  BY <1>1 DEF QueueInv, Running
<1>2. ASSUME NEW step, Begin(step) PROVE QueueInv'
  <2>1. checkpoint_queue' = <<>> /\ pc' = "training"
    BY <1>2 DEF Begin
  <2>2. DOMAIN checkpoint_queue' = {}
    BY <2>1
  <2>3. QED  BY <2>1, <2>2 DEF QueueInv
<1>3. ASSUME Running, checkpoint_queue' = checkpoint_queue,
             \A i \in DOMAIN checkpoint_queue :
               /\ \A f \in Files : file'[checkpoint_queue[i]][f] = file[checkpoint_queue[i]][f]
               /\ checkpoint_queue[i] \in dirs'
               /\ checkpoint_queue[i] < training_step'
               /\ Saving' => checkpoint_queue[i] < step_dir',
             pc' = "remove" => pc = "remove" /\ doomed' = doomed /\ step_dir' = step_dir
      PROVE  QueueInv'
  <2>1. \A i \in DOMAIN checkpoint_queue : IsCheckpoint(checkpoint_queue[i])'
    <3> SUFFICES ASSUME NEW i \in DOMAIN checkpoint_queue
                 PROVE  (\E n \in 1 .. save : Complete(checkpoint_queue[i], n))'
      BY DEF IsCheckpoint
    <3> DEFINE s == checkpoint_queue[i]
    <3>1. s \in Steps /\ IsCheckpoint(s) /\ \A f \in Files : file'[s][f] = file[s][f]
      BY <1>0, <1>3 DEF IInv, QueueInv
    <3>2. s' = s
      BY <1>3
    <3> HIDE DEF s
    <3>3. \A t \in Steps : (\A f \in Files : file'[t][f] = file[t][f]) /\ IsCheckpoint(t)
                              => \E n \in 1 .. save' : Complete(t, n)'
      BY CheckpointKept DEF IsCheckpoint
    <3>4. QED  BY <3>1, <3>2, <3>3 DEF s, Complete
  <2>2. QED  BY <1>3, <2>1 DEF IInv, QueueInv
<1>4. CASE Train
  <2>1. /\ pc = "training" /\ Running /\ training_step' = training_step + 1
        /\ pc' \in {"training", "done"}
        /\ UNCHANGED <<dirs, file, checkpoint_queue>>
    BY <1>4 DEF Train, Running, disk
  <2>2. \A i \in DOMAIN checkpoint_queue :
          checkpoint_queue[i] \in dirs /\ checkpoint_queue[i] < training_step
    BY <2>1 DEF IInv, QueueInv
  <2>3. training_step \in Nat
    BY CheckpointAssumption DEF IInv, TypeOK, Steps
  <2>4. \A i \in DOMAIN checkpoint_queue : checkpoint_queue[i] < training_step'
    <3>1. \A i \in DOMAIN checkpoint_queue : checkpoint_queue[i] \in Nat
      BY <1>0
    <3>2. \A q \in Nat : q < training_step => q < training_step'
      BY <2>1, <2>3
    <3>3. QED  BY <2>2, <3>1, <3>2
  <2>5. QED  BY <1>3, <2>1, <2>2, <2>4 DEF Saving
<1>5. CASE TrainAndSave
  <2>1. /\ pc = "training" /\ Running /\ training_step' = training_step + 1
        /\ step_dir' = training_step /\ pc' = "open"
        /\ dirs' = dirs \cup {training_step}
        /\ UNCHANGED <<file, checkpoint_queue>>
    BY <1>5 DEF TrainAndSave, BeginSave, Running
  <2>2. \A i \in DOMAIN checkpoint_queue :
          checkpoint_queue[i] \in dirs /\ checkpoint_queue[i] < training_step
    BY <2>1 DEF IInv, QueueInv
  <2>3. training_step \in Nat
    BY CheckpointAssumption DEF IInv, TypeOK, Steps
  <2>4. \A i \in DOMAIN checkpoint_queue : checkpoint_queue[i] < training_step'
    <3>1. \A i \in DOMAIN checkpoint_queue : checkpoint_queue[i] \in Nat
      BY <1>0
    <3>2. \A q \in Nat : q < training_step => q < training_step'
      BY <2>1, <2>3
    <3>3. QED  BY <2>2, <3>1, <3>2
  <2>5. QED  BY <1>3, <2>1, <2>2, <2>4
<1>6. CASE Open \/ Write \/ \E f \in Files : RemoveFile(f)
  <2>1. /\ Running /\ Saving
        /\ UNCHANGED <<dirs, training_step, step_dir, checkpoint_queue, doomed>>
        /\ pc' = "remove" => pc = "remove"
        /\ \A t \in Steps : (pc = "remove" => t # doomed) /\ t # step_dir
             => \A f \in Files : file'[t][f] = file[t][f]
    BY <1>6, TouchFacts DEF Running, Saving, process
  <2>2. ASSUME NEW i \in DOMAIN checkpoint_queue
        PROVE  /\ checkpoint_queue[i] \in Steps
               /\ checkpoint_queue[i] # step_dir
               /\ pc = "remove" => checkpoint_queue[i] # doomed
               /\ checkpoint_queue[i] \in dirs
               /\ checkpoint_queue[i] < training_step /\ checkpoint_queue[i] < step_dir
    <3>1. /\ checkpoint_queue[i] \in Steps /\ checkpoint_queue[i] \in Nat
          /\ step_dir \in Nat /\ step_dir \in Steps
      BY <1>0, <2>1, SavingFacts
    <3>2. /\ checkpoint_queue[i] \in dirs
          /\ checkpoint_queue[i] < training_step /\ checkpoint_queue[i] < step_dir
          /\ pc = "remove" => doomed \in Steps /\ doomed < checkpoint_queue[i]
      BY <2>1 DEF IInv, QueueInv
    <3>3. pc = "remove" => doomed \in Nat
      BY <1>0, <3>2
    <3>4. checkpoint_queue[i] # step_dir /\ (pc = "remove" => checkpoint_queue[i] # doomed)
      BY <3>1, <3>2, <3>3
    <3>5. QED  BY <3>1, <3>2, <3>4
  <2>3. QED  BY <1>3, <2>1, <2>2
<1>7. CASE Unlink \/ Link
  <2>1. Running /\ Saving /\ pc' # "remove"
    BY <1>7 DEF Unlink, Link, Running, Saving
  <2>2. \A i \in DOMAIN checkpoint_queue :
          /\ checkpoint_queue[i] \in dirs
          /\ checkpoint_queue[i] < training_step /\ checkpoint_queue[i] < step_dir
    BY <2>1 DEF IInv, QueueInv
  <2>3. UNCHANGED <<dirs, file, training_step, step_dir, checkpoint_queue>>
    BY <1>7, LinkFacts
  <2>4. QED  BY <1>3, <2>1, <2>2, <2>3
<1>8. CASE Pop
  <2>1. /\ Running /\ Saving /\ pc' = "remove" /\ checkpoint_queue # <<>>
        /\ doomed' = Head(checkpoint_queue) /\ checkpoint_queue' = Tail(checkpoint_queue)
        /\ UNCHANGED <<dirs, file, training_step, step_dir, save>>
    BY <1>0, <1>8, CheckpointAssumption DEF Pop, PopStep, Full, Running, Saving, disk
  <2>2. /\ doomed' = checkpoint_queue[1] /\ 1 \in DOMAIN checkpoint_queue
        /\ \A i \in DOMAIN checkpoint_queue' :
             /\ i + 1 \in DOMAIN checkpoint_queue /\ checkpoint_queue'[i] = checkpoint_queue[i + 1]
             /\ i \in Nat /\ 1 < i + 1
    BY <1>0, <2>1
  <2>3. \A i, k \in DOMAIN checkpoint_queue :
          i < k => checkpoint_queue[i] < checkpoint_queue[k]
    BY <2>1 DEF IInv, QueueInv
  <2>4. \A i \in DOMAIN checkpoint_queue :
          /\ checkpoint_queue[i] \in dirs /\ IsCheckpoint(checkpoint_queue[i])
          /\ checkpoint_queue[i] < training_step /\ checkpoint_queue[i] < step_dir
    BY <2>1 DEF IInv, QueueInv
  <2>5. ASSUME NEW i \in DOMAIN checkpoint_queue', NEW k \in DOMAIN checkpoint_queue', i < k
        PROVE  checkpoint_queue'[i] < checkpoint_queue'[k]
    <3>1. i + 1 < k + 1
      BY <2>2, <2>5
    <3>2. QED  BY <2>2, <2>3, <3>1
  <2>6. ASSUME NEW i \in DOMAIN checkpoint_queue'
        PROVE  /\ checkpoint_queue'[i] \in dirs' /\ (IsCheckpoint(checkpoint_queue[i]))'
               /\ checkpoint_queue'[i] < training_step' /\ checkpoint_queue'[i] < step_dir'
               /\ doomed' < checkpoint_queue'[i]
    <3>1. /\ i + 1 \in DOMAIN checkpoint_queue /\ checkpoint_queue'[i] = checkpoint_queue[i + 1]
          /\ 1 < i + 1
      BY <2>2
    <3>2. \E n \in 1 .. save : Complete(checkpoint_queue[i + 1], n)
      BY <2>4, <3>1 DEF IsCheckpoint
    <3>3. (IsCheckpoint(checkpoint_queue[i]))'
      BY <2>1, <3>1, <3>2 DEF IsCheckpoint, Complete
    <3>4. QED  BY <2>1, <2>2, <2>3, <2>4, <3>1, <3>3
  <2>7. doomed' \in Steps /\ doomed' < step_dir'
    BY <1>0, <2>1, <2>2, <2>4
  <2>8. QED  BY <2>5, <2>6, <2>7 DEF QueueInv
<1>9. CASE NoPop \/ RemoveDir
  <2>1. /\ Running /\ Saving /\ pc' # "remove"
        /\ UNCHANGED <<file, training_step, step_dir, checkpoint_queue>>
        /\ dirs' = dirs \/ (pc = "remove" /\ dirs' = dirs \ {doomed})
    BY <1>9 DEF NoPop, RemoveDir, Running, Saving, disk, process
  <2>2. ASSUME NEW i \in DOMAIN checkpoint_queue
        PROVE  /\ checkpoint_queue[i] \in dirs'
               /\ checkpoint_queue[i] < training_step /\ checkpoint_queue[i] < step_dir
    <3>1. /\ checkpoint_queue[i] \in dirs /\ checkpoint_queue[i] \in Nat
          /\ pc = "remove" => doomed \in Nat /\ doomed < checkpoint_queue[i]
      BY <1>0, <2>1 DEF IInv, QueueInv
    <3>2. QED  BY <2>1, <3>1 DEF IInv, QueueInv
  <2>3. QED  BY <1>3, <2>1, <2>2
<1>10. CASE Enqueue
  <2>1. /\ Running /\ Saving /\ pc = "enqueue" /\ pc' \in {"training", "done"} /\ ~Saving'
        /\ UNCHANGED <<dirs, file, training_step, step_dir, save>>
        /\ \/ checkpoint_queue' = Append(checkpoint_queue, step_dir)
           \/ checkpoint_queue' = checkpoint_queue
    BY <1>10 DEF Enqueue, Running, Saving, disk
  <2>2. /\ step_dir \in dirs /\ step_dir \in Steps /\ training_step = step_dir + 1
        /\ \E n \in 1 .. save : Complete(step_dir, n)
    <3>1. save \in 1 .. save /\ \A f \in Files : Written(f)
      BY <1>0, <2>1 DEF IInv, SaveInv
    <3>2. Complete(step_dir, save)
      BY <3>1 DEF Complete, Written, Missing, Torn
    <3>3. QED  BY <2>1, <3>1, <3>2, SavingFacts DEF IInv, BoundInv
  <2>3. /\ \A i, k \in DOMAIN checkpoint_queue :
             i < k => checkpoint_queue[i] < checkpoint_queue[k]
        /\ \A i \in DOMAIN checkpoint_queue :
             /\ checkpoint_queue[i] \in dirs
             /\ \E n \in 1 .. save : Complete(checkpoint_queue[i], n)
             /\ checkpoint_queue[i] < training_step /\ checkpoint_queue[i] < step_dir
    BY <2>1 DEF IInv, QueueInv, IsCheckpoint
  <2>4. CASE checkpoint_queue' = checkpoint_queue
    BY <1>3, <2>1, <2>3, <2>4
  <2>5. CASE checkpoint_queue' = Append(checkpoint_queue, step_dir)
    <3> DEFINE n == Len(checkpoint_queue)
    <3>1. /\ n \in Nat /\ DOMAIN checkpoint_queue = 1 .. n
          /\ DOMAIN checkpoint_queue' = 1 .. n + 1
          /\ checkpoint_queue'[n + 1] = step_dir
          /\ \A i \in 1 .. n : checkpoint_queue'[i] = checkpoint_queue[i]
      BY <1>0, <2>2, <2>5
    <3> HIDE DEF n
    <3>2. \A i \in 1 .. n + 1 : i = n + 1 \/ i \in 1 .. n
      BY <3>1
    <3>3. ASSUME NEW i \in 1 .. n + 1
          PROVE  /\ checkpoint_queue'[i] \in dirs' /\ (IsCheckpoint(checkpoint_queue[i]))'
                 /\ checkpoint_queue'[i] < training_step'
      <4>1. /\ checkpoint_queue'[i] \in dirs /\ checkpoint_queue'[i] < training_step
            /\ \E m \in 1 .. save : Complete(checkpoint_queue'[i], m)
        BY <1>0, <2>2, <2>3, <3>1, <3>2
      <4>2. QED  BY <2>1, <4>1 DEF IsCheckpoint, Complete
    <3>4. ASSUME NEW i \in 1 .. n + 1, NEW k \in 1 .. n + 1, i < k
          PROVE  checkpoint_queue'[i] < checkpoint_queue'[k]
      <4>1. i \in 1 .. n
        BY <3>1, <3>4
      <4>2. QED  BY <2>3, <3>1, <3>2, <3>4, <4>1
    <3>5. QED  BY <2>1, <3>1, <3>3, <3>4 DEF QueueInv
  <2>6. QED  BY <2>1, <2>4, <2>5
<1>11. CASE Start
  <2>1. QED  BY <1>1, <1>2, <1>11, StartFacts
<1>12. CASE Crash
  BY <1>1, <1>12 DEF Crash
<1>13. CASE UNCHANGED vars
  <2>1. CASE Running
    <3>1. UNCHANGED <<dirs, file, training_step, step_dir, checkpoint_queue, doomed, pc>>
      BY <1>13 DEF vars, disk, process
    <3>2. \A i \in DOMAIN checkpoint_queue :
            /\ checkpoint_queue[i] \in dirs /\ checkpoint_queue[i] < training_step
            /\ Saving => checkpoint_queue[i] < step_dir
      BY <2>1 DEF IInv, QueueInv
    <3>3. QED  BY <1>3, <2>1, <3>1, <3>2 DEF Saving
  <2>2. CASE ~Running
    BY <1>13, <2>2 DEF QueueInv, Running, vars
  <2>3. QED  BY <2>1, <2>2
<1>14. QED
  BY <1>4, <1>5, <1>6, <1>7, <1>8, <1>9, <1>10, <1>11, <1>12, <1>13 DEF Next, Step, Ended

------------------------------------------------------------------------------
(* What the links promise.                                                 *)
LEMMA StepNoDanglingLink ==
  ASSUME IInv, [Next]_vars
  PROVE  NoDanglingLink'
<1>0. /\ link \in [Files -> Steps \cup {NoStep}] /\ Missing = 0 /\ Torn = -1
      /\ \A f \in Files : link[f] # NoStep => file[link[f]][f] # Missing
  BY DEF IInv, TypeOK, NoDanglingLink, Missing, Torn
<1>1. CASE Open \/ Write \/ \E f \in Files : RemoveFile(f)
  <2>1. Saving /\ link' = link
    BY <1>1, TouchFacts DEF Saving
  <2>2. save # Missing /\ step_dir \in Steps
    BY <1>0, <2>1, SavingFacts
  <2>3. CASE pc # "remove"
    <3>1. \A t \in Steps, g \in Files :
            file'[t][g] = file[t][g] \/ file'[t][g] \in {Torn, save}
      BY <1>1, <2>3, TouchFacts
    <3>2. QED  BY <1>0, <2>1, <2>2, <3>1 DEF NoDanglingLink
  <2>4. CASE pc = "remove"
    <3>1. \A f \in Files : link[f] = step_dir /\ file[step_dir][f] = save
      BY <2>4 DEF IInv, SaveInv, Written
    <3>2. /\ doomed < step_dir
          /\ \A f \in Files : file'[step_dir][f] = file[step_dir][f] \/ step_dir = doomed
      BY <1>1, <2>2, <2>4, TouchFacts
    <3>3. step_dir # doomed
      BY <2>2, <3>2, CheckpointAssumption DEF Steps
    <3>4. QED  BY <2>1, <2>2, <3>1, <3>2, <3>3 DEF NoDanglingLink
  <2>5. QED  BY <2>3, <2>4
<1>2. CASE Unlink \/ Link
  <2>1. /\ file' = file /\ \A f \in Files \ {Items[item]} : link'[f] = link[f]
        /\ link'[Items[item]] \in {NoStep, step_dir}
        /\ file[step_dir][Items[item]] = save /\ Saving
    BY <1>2, LinkFacts
  <2>2. save # Missing
    BY <1>0, <2>1, SavingFacts
  <2>3. QED  BY <1>0, <2>1, <2>2 DEF NoDanglingLink
<1>3. CASE UNCHANGED <<file, link>>
  BY <1>0, <1>3 DEF NoDanglingLink
<1>4. CASE Start \/ Train \/ TrainAndSave \/ Pop \/ NoPop \/ RemoveDir \/ Enqueue \/ Crash
             \/ UNCHANGED vars
  <2>1. UNCHANGED <<file, link>>
    BY <1>4 DEF Start, StartFresh, Resume, ResumeFails, Begin, Train, TrainAndSave, BeginSave,
       Pop, PopStep, NoPop, RemoveDir, Enqueue, Crash, vars, disk
  <2>2. QED  BY <1>3, <2>1
<1>5. QED  BY <1>1, <1>2, <1>4 DEF Next, Step, Ended

LEMMA StepRootIsLastSaved ==
  ASSUME IInv, [Next]_vars
  PROVE  RootIsLastSaved'
<1>1. CASE Start
  <2>1. pc' = "down" \/ last_saved_step' = NoStep
    BY <1>1, StartFacts DEF Begin
  <2>2. QED  BY <2>1 DEF RootIsLastSaved, Running, NoStep
<1>2. CASE Crash
  BY <1>2 DEF Crash, RootIsLastSaved, Running
<1>3. CASE Train
  <2>1. pc = "training" /\ UNCHANGED <<file, link, save, last_saved_step>>
    BY <1>3 DEF Train, disk
  <2>2. QED
    BY <2>1 DEF IInv, RootIsLastSaved, Running, Saving, IsCheckpoint, Complete
<1>4. CASE Enqueue
  <2>1. pc = "enqueue" /\ UNCHANGED <<file, link, save, step_dir>> /\ last_saved_step' = step_dir
    BY <1>4 DEF Enqueue, disk
  <2>2. /\ save \in 1 .. save /\ save # Missing /\ save # Torn
        /\ \A f \in Files : link[f] = step_dir /\ file[step_dir][f] = save
    BY <2>1 DEF IInv, TypeOK, SaveInv, Saving, Written, Missing, Torn
  <2>3. QED  BY <2>1, <2>2 DEF RootIsLastSaved, IsCheckpoint, Complete
<1>5. CASE UNCHANGED vars
  <2>1. UNCHANGED <<pc, file, link, save, last_saved_step>>
    BY <1>5 DEF vars, disk, process
  <2>2. QED
    BY <2>1 DEF IInv, RootIsLastSaved, Running, Saving, IsCheckpoint, Complete
<1>6. CASE TrainAndSave \/ Open \/ Write \/ Unlink \/ Link \/ Pop \/ NoPop \/ RemoveDir
             \/ \E f \in Files : RemoveFile(f)
  <2>1. Saving'
    BY <1>6 DEF TrainAndSave, BeginSave, Open, Write, Unlink, Link, Pop, PopStep, NoPop,
       RemoveDir, RemoveFile, Saving
  <2>2. QED  BY <2>1 DEF RootIsLastSaved
<1>7. QED
  BY <1>1, <1>2, <1>3, <1>4, <1>5, <1>6 DEF Next, Step, Ended

(* The items that LinksInOrder compares, and their order in _save.         *)
Pairs == {<<"optimizer", "weights">>, <<"weights", "vocab">>,
          <<"weights", "config">>, <<"vocab", "config">>}

LEMMA PairFacts ==
  ASSUME NEW pair \in Pairs
  PROVE  /\ pair[1] \in Files /\ pair[2] \in Files /\ pair[1] # pair[2]
         /\ \A i \in 1 .. Len(Items) :
              Items[i] = pair[2] => \E k \in 1 .. i - 1 : Items[k] = pair[1]
<1>1. CASE pair = <<"optimizer", "weights">>
  <2>1. pair[1] = "optimizer" /\ pair[2] = "weights"
    BY <1>1
  <2>2. QED  BY <2>1, ItemsFacts
<1>2. CASE pair = <<"weights", "vocab">>
  <2>1. pair[1] = "weights" /\ pair[2] = "vocab"
    BY <1>2
  <2>2. QED  BY <2>1, ItemsFacts
<1>3. CASE pair = <<"weights", "config">>
  <2>1. pair[1] = "weights" /\ pair[2] = "config"
    BY <1>3
  <2>2. QED  BY <2>1, ItemsFacts
<1>4. CASE pair = <<"vocab", "config">>
  <2>1. pair[1] = "vocab" /\ pair[2] = "config"
    BY <1>4
  <2>2. QED  BY <2>1, ItemsFacts
<1>5. QED  BY <1>1, <1>2, <1>3, <1>4 DEF Pairs

(* While a save is in progress only what the current item's link leads to  *)
(* changes: to a file that is missing or torn, or to one of the new save,  *)
(* which then is behind every earlier link already.                        *)
LEMMA HeldStep ==
  ASSUME IInv, TypeOK', save' = save, pc \in {"open", "write", "unlink", "link"},
         \A f \in Files \ {Items[item]} : Held(Root, f)' = Held(Root, f),
         \A f \in {Items[item]} :
             \/ Held(Root, f)' \in {Missing, Torn, save}
             \/ Held(Root, f)' = Held(Root, f)
  PROVE  LinksInOrder'
<1>1. Saving
  BY DEF Saving
<1>2. /\ item \in 1 .. Len(Items) /\ Items[item] \in Files /\ step_dir \in Steps
      /\ save \in Nat \ {0} /\ Missing = 0 /\ Torn = -1
  BY <1>1, SavingFacts DEF Missing, Torn
<1>3. \A f \in Files : Held(Root, f) \in {Missing, Torn} \cup (1 .. save)
  BY DEF IInv, TypeOK, Held, Home, NoStep, Missing
<1>4. \A i \in 1 .. item - 1 : Items[i] # Items[item] => Held(Root, Items[i]) = save
  <2>1. step_dir # NoStep
    BY <1>2 DEF Steps, NoStep
  <2>2. QED  BY <2>1 DEF IInv, SaveInv, Written, Held, Home, Root
<1>5. ASSUME NEW pair \in Pairs, Whole(Root, pair[1])', Whole(Root, pair[2])'
      PROVE  Held(Root, pair[1])' >= Held(Root, pair[2])'
  <2>1. /\ pair[1] \in Files /\ pair[2] \in Files /\ pair[1] # pair[2]
        /\ Items[item] = pair[2] => \E k \in 1 .. item - 1 : Items[k] = pair[1]
    BY <1>2, PairFacts
  <2>2. Held(Root, pair[1])' \notin {Missing, Torn} /\ Held(Root, pair[2])' \notin {Missing, Torn}
    BY <1>5 DEF Whole, Missing, Torn
  <2>3. CASE Items[item] = pair[1]
    <3>1. Held(Root, pair[2])' = Held(Root, pair[2])
      BY <2>1, <2>3
    <3>2. CASE Held(Root, pair[1])' = save
      BY <1>2, <1>3, <2>1, <2>2, <3>1, <3>2
    <3>3. CASE Held(Root, pair[1])' = Held(Root, pair[1])
      BY <2>2, <3>1, <3>3 DEF IInv, LinksInOrder, Whole, Pairs
    <3>4. QED  BY <2>2, <2>3, <3>2, <3>3
  <2>4. CASE Items[item] = pair[2]
    <3>1. Held(Root, pair[1])' = Held(Root, pair[1]) /\ Held(Root, pair[1]) = save
      BY <1>4, <2>1, <2>4
    <3>2. Held(Root, pair[2])' = save \/ Held(Root, pair[2])' \in 1 .. save
      BY <1>3, <2>1, <2>2, <2>4
    <3>3. QED  BY <1>2, <3>1, <3>2
  <2>5. CASE Items[item] # pair[1] /\ Items[item] # pair[2]
    BY <2>1, <2>2, <2>5 DEF IInv, LinksInOrder, Whole, Pairs
  <2>6. QED  BY <2>3, <2>4, <2>5
<1>6. QED  BY <1>5 DEF LinksInOrder, Pairs

LEMMA StepLinksInOrder ==
  ASSUME IInv, [Next]_vars, TypeOK'
  PROVE  LinksInOrder'
<1>0. link \in [Files -> Steps \cup {NoStep}]
  BY DEF IInv, TypeOK
<1>1. CASE \A f \in Files : Held(Root, f)' = Held(Root, f)
  BY <1>1, ItemsFacts DEF IInv, LinksInOrder, Whole
<1>2. CASE Open \/ Write
  <2>1. /\ pc \in {"open", "write"} /\ link' = link /\ save' = save
        /\ \A t \in Steps, g \in Files :
             t # step_dir \/ g # Items[item] => file'[t][g] = file[t][g]
        /\ file'[step_dir][Items[item]] \in {Torn, save}
    <3>1. pc \in {"open", "write"}
      BY <1>2 DEF Open, Write
    <3>2. QED  BY <1>2, <3>1, TouchFacts
  <2>2. Saving
    BY <2>1 DEF Saving
  <2>3. \A f \in Files \ {Items[item]} : Held(Root, f)' = Held(Root, f)
    BY <1>0, <2>1 DEF Held, Home
  <2>4. \A f \in {Items[item]} :
             \/ Held(Root, f)' \in {Missing, Torn, save}
             \/ Held(Root, f)' = Held(Root, f)
    BY <1>0, <2>1, <2>2, SavingFacts DEF Held, Home
  <2>5. QED  BY <2>1, <2>3, <2>4, HeldStep
<1>3. CASE Unlink \/ Link
  <2>1. /\ pc \in {"unlink", "link"} /\ file' = file /\ save' = save
        /\ \A f \in Files \ {Items[item]} : link'[f] = link[f]
        /\ link'[Items[item]] \in {NoStep, step_dir}
        /\ file[step_dir][Items[item]] = save
    BY <1>3, LinkFacts
  <2>2. \A f \in Files \ {Items[item]} : Held(Root, f)' = Held(Root, f)
    BY <2>1 DEF Held, Home
  <2>3. \A f \in {Items[item]} :
             \/ Held(Root, f)' \in {Missing, Torn, save}
             \/ Held(Root, f)' = Held(Root, f)
    BY <2>1 DEF Held, Home, Root
  <2>4. QED  BY <2>1, <2>2, <2>3, HeldStep
<1>4. ASSUME NEW f \in Files, RemoveFile(f) PROVE LinksInOrder'
  <2>1. pc = "remove" /\ Saving
    BY <1>4 DEF RemoveFile, Saving
  <2>2. /\ link' = link /\ doomed \in Steps /\ step_dir \in Steps /\ doomed < step_dir
        /\ \A t \in Steps, g \in Files : file'[t][g] = file[t][g] \/ t = doomed
    BY <1>4, <2>1, TouchFacts
  <2>3. \A g \in Files : link[g] = step_dir
    BY <2>1 DEF IInv, SaveInv, Written
  <2>4. step_dir # doomed
    BY <2>2, CheckpointAssumption DEF Steps
  <2>5. \A g \in Files : Held(Root, g)' = Held(Root, g)
    BY <2>2, <2>3, <2>4 DEF Held, Home, Root
  <2>6. QED  BY <1>1, <2>5
<1>5. CASE Start \/ Train \/ TrainAndSave \/ Pop \/ NoPop \/ RemoveDir \/ Enqueue \/ Crash
             \/ UNCHANGED vars
  <2>1. UNCHANGED <<file, link>>
    BY <1>5 DEF Start, StartFresh, Resume, ResumeFails, Begin, Train, TrainAndSave, BeginSave,
       Pop, PopStep, NoPop, RemoveDir, Enqueue, Crash, vars, disk
  <2>2. QED  BY <1>1, <2>1 DEF Held, Home
<1>6. QED  BY <1>2, <1>3, <1>4, <1>5 DEF Next, Step, Ended

LEMMA NextIInv == IInv /\ [Next]_vars => IInv'
<1> SUFFICES ASSUME IInv, [Next]_vars PROVE IInv'
  OBVIOUS
<1>1. TypeOK' /\ BoundInv'
  BY StepTypeOK
<1>2. SaveInv' /\ QueueInv'
  BY <1>1, StepSaveInv, StepQueueInv
<1>3. NoDanglingLink' /\ RootIsLastSaved' /\ LinksInOrder'
  BY <1>1, StepNoDanglingLink, StepRootIsLastSaved, StepLinksInOrder
<1>4. QED  BY <1>1, <1>2, <1>3 DEF IInv

(* A step loses a checkpoint only by saving the same step again, or by      *)
(* removing a file of the doomed one after the new one is whole.            *)
Safe == \A s \in dirs : IsCheckpoint(s) /\ ~IsCheckpoint(s)' =>
            \/ s = step_dir /\ pc = "open"
            \/ \E t \in dirs' : /\ IsCheckpoint(t) /\ IsCheckpoint(t)'
                                /\ file[t]["config"] > file[s]["config"]

LEMMA StepSafe ==
  ASSUME IInv, [Next]_vars
  PROVE  Safe
<1> SUFFICES ASSUME NEW s \in dirs, IsCheckpoint(s), ~IsCheckpoint(s)', ~(s = step_dir /\ pc = "open")
             PROVE  \E t \in dirs' : /\ IsCheckpoint(t) /\ IsCheckpoint(t)'
                                     /\ file[t]["config"] > file[s]["config"]
  BY DEF Safe
<1>1. s \in Steps
  BY DEF IInv, TypeOK
<1>2. PICK g \in Files : file'[s][g] # file[s][g]
  BY <1>1, CheckpointKept
<1>3. Open \/ Write \/ \E f \in Files : RemoveFile(f)
  <2>1. file' # file
    BY <1>2
  <2>2. QED
    BY <2>1 DEF Start, StartFresh, Resume, ResumeFails, Begin, Train, TrainAndSave, BeginSave,
       Pop, PopStep, NoPop, RemoveDir, Enqueue, Crash, Unlink, Link, vars, disk, Next, Step, Ended
<1>4. PICK n \in 1 .. save : \A f \in Files : file[s][f] = n
  BY DEF IsCheckpoint, Complete
<1>5. save \in Nat
  BY DEF IInv, TypeOK
<1>6. CASE pc = "remove"
  <2>1. /\ UNCHANGED <<dirs, save>> /\ doomed \in Steps /\ step_dir \in Steps
        /\ doomed < step_dir
        /\ \A t \in Steps, h \in Files : file'[t][h] = file[t][h] \/ t = doomed
    BY <1>3, <1>6, TouchFacts
  <2>2. /\ step_dir \in dirs /\ save >= 1
        /\ \A t \in Steps \ {step_dir}, f \in Files : file[t][f] < save
        /\ \A f \in Files : file[step_dir][f] = save
    BY <1>6 DEF IInv, SaveInv, Saving, Written
  <2>3. step_dir # doomed /\ s = doomed
    BY <1>1, <1>2, <2>1, CheckpointAssumption DEF Steps
  <2>4. \A f \in Files : file'[step_dir][f] = save
    BY <2>1, <2>2, <2>3
  <2>5. save \in 1 .. save /\ save # Missing /\ save # Torn
    BY <1>5, <2>2 DEF Missing, Torn
  <2>6. IsCheckpoint(step_dir)
    BY <2>2, <2>5 DEF IsCheckpoint, Complete
  <2>7. \A t : t = step_dir => IsCheckpoint(t)'
    BY <2>1, <2>4, <2>5 DEF IsCheckpoint, Complete
  <2>8. file[step_dir]["config"] > file[s]["config"]
    BY <1>1, <1>4, <2>1, <2>2, <2>3, ItemsFacts
  <2>9. QED  BY <2>1, <2>2, <2>6, <2>7, <2>8
<1>7. CASE pc # "remove"
  <2>1. /\ pc = "write" /\ s = step_dir /\ Items[item] \in Files
        /\ file[step_dir][Items[item]] = Torn
    <3>1. s = step_dir
      BY <1>1, <1>2, <1>3, <1>7, TouchFacts
    <3>2. pc = "write" /\ Saving
      BY <1>3, <1>7, <3>1, TouchFacts DEF Saving
    <3>3. QED  BY <3>1, <3>2, SavingFacts DEF IInv, SaveInv
  <2>2. QED  BY <1>4, <1>5, <2>1 DEF Torn
<1>8. QED  BY <1>6, <1>7

------------------------------------------------------------------------------
(* The theorems.                                                           *)

(* The inductive invariant: whatever is killed or started again, and       *)
(* however often (Spec has no bound but MaxRuns, which is any number).     *)
THEOREM Invariant == Spec => []IInv
<1>1. QED  BY InitIInv, NextIInv, PTL DEF Spec

(* Every variable keeps its type: no step number beyond the last training  *)
(* step of as many starts, no file with the number of a save to come.      *)
THEOREM TypeCorrect == Spec => []TypeOK
<1>1. IInv => TypeOK
  BY DEF IInv
<1>2. QED  BY <1>1, Invariant, PTL

(* No link in model_path dangles, between two saves they are the last      *)
(* checkpoint, and the checkpoints in the queue are whole                  *)
(* (TrainingModelSaver._save, _make_symlink, cleanup).                     *)
THEOREM ModelPathCorrect == Spec => []ModelPathIsWhole
<1>1. IInv => ModelPathIsWhole
  <2> SUFFICES ASSUME IInv PROVE QueueIsOnDisk
    BY DEF IInv, ModelPathIsWhole
  <2>1. checkpoint_queue \in Seq(Steps)
    BY DEF IInv, TypeOK
  <2>2. 1 .. Len(checkpoint_queue) = DOMAIN checkpoint_queue
    BY <2>1
  <2>3. QED  BY <2>2 DEF IInv, QueueInv, QueueIsOnDisk
<1>2. QED  BY <1>1, Invariant, PTL

(* Wherever a save is interrupted, the optimizer behind the links is not   *)
(* older than the weights, nor these than vocabulary and configuration     *)
(* (order of _save).                                                       *)
THEOREM LinksCorrect == Spec => []LinksInOrder
<1>1. IInv => LinksInOrder
  BY DEF IInv
<1>2. QED  BY <1>1, Invariant, PTL

(* A checkpoint is lost only to a save of the same step or to a rotation   *)
(* that leaves a newer one (TrainingModelSaver.save, cleanup).             *)
THEOREM RotationCorrect == Spec => RotationIsSafe
<1>1. IInv /\ [Next]_vars => [Safe]_vars
  BY StepSafe
<1>2. Spec => [][Safe]_vars
  BY <1>1, Invariant, PTL DEF Spec
<1>3. QED  BY <1>2 DEF RotationIsSafe, Safe
=============================================================================
