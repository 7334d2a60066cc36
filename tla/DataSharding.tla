----------------------------- MODULE DataSharding -----------------------------
(***************************************************************************)
(* How the lines of the training corpora are shared out and mixed.  Every  *)
(* process of every node has NumWorkers data loaders (or reads itself);    *)
(* each opens all the files and keeps the lines of its own blocks, and     *)
(* WeightedMixer draws from the corpora in turn, for ever.  The module     *)
(* follows one loader; the others only count as readers of other lines.    *)
(***************************************************************************)
EXTENDS Integers, FiniteSets, SequencesExt, Filtering

CONSTANTS
    GpuRanks,     \* GpuRanks[n]: how many gpu_ranks are configured on node n
    NumWorkers,   \* training.num_workers
    Corpora,      \* the sequence of corpora of data
    Lengths,      \* the numbers of lines the corpora may have
    Weight,       \* Weight[c]: its weight
    MaxPasses     \* bound: times a corpus is opened

ASSUME ShardingAssumption ==
    /\ GpuRanks \in Seq(Nat \ {0})
    /\ NumWorkers \in Nat
    /\ Lengths \subseteq [ToSet(Corpora) -> Nat]
    /\ Weight \in [ToSet(Corpora) -> Nat \ {0}]
    /\ MaxPasses \in Nat \ {0}
    /\ Corpora \in Seq(ToSet(Corpora)) /\ Corpora # <<>> /\ IsInjective(Corpora)
    /\ "none" \notin ToSet(Corpora)

Loaders ==
    UNION {[node : {n}, device : 0 .. (GpuRanks[n] - 1),
            worker : 0 .. (IF NumWorkers = 0 THEN 0 ELSE NumWorkers - 1)] :
           n \in DOMAIN GpuRanks}

------------------------------------------------------------------------------
(* Sharding.                                                               *)

(* _calculate_parallel_params and _init_datasets.                          *)
Stride(l) == IF NumWorkers > 0 THEN GpuRanks[l.node] * NumWorkers
                               ELSE GpuRanks[l.node]

OffsetByWorker(l) == l.device + l.worker

Offset(l) == IF NumWorkers > 0 THEN l.device * NumWorkers + l.worker
                               ELSE l.device

(* Lines are numbered from 0; Stride consecutive lines make a block.       *)
Mine(l, i) == (i \div Stride(l)) % Stride(l) = Offset(l)

------------------------------------------------------------------------------
(* WeightedMixer.                                                          *)

VARIABLES
    length,   \* length[c]: lines of corpus c
    loader,   \* the loader that is followed
    turn,     \* the place in the cycle of corpora
    opened,   \* opened[c]: times corpus c has been opened
    position, \* position[c]: lines taken since
    item,     \* the last item yielded
    drawn,    \* drawn[c][i]: times line i of corpus c has been yielded
    status    \* running, or what the generator has raised

vars == <<length, loader, turn, opened, position, item, drawn, status>>

Names == ToSet(Corpora)

Lines(c) == 0 .. (length[c] - 1)

Shard(c) ==
    Kept([k \in 1 .. length[c] |-> k - 1], {i \in Lines(c) : Mine(loader, i)})

(* _iter_datasets: every corpus as many times as its weight.               *)
Cycle == FlattenSeq([k \in DOMAIN Corpora |->
                        [j \in 1 .. Weight[Corpora[k]] |-> Corpora[k]]])

NoItem == [corpus |-> "none", line |-> 0]

TypeOK ==
    /\ length \in Lengths
    /\ loader \in Loaders
    /\ turn \in DOMAIN Cycle
    /\ opened \in [Names -> 1 .. MaxPasses]
    /\ \A c \in Names : position[c] \in 0 .. Len(Shard(c))
    /\ item # NoItem => item.corpus \in Names /\ item.line \in Lines(item.corpus)
    /\ \A c \in Names : drawn[c] \in [Lines(c) -> 0 .. (MaxPasses + 1)]
    /\ status \in {"running", "raising", "raised"}

Init ==
    /\ length \in Lengths
    /\ loader \in Loaders
    /\ turn = 1
    /\ opened = [c \in Names |-> 1]
    /\ position = [c \in Names |-> 0]
    /\ item = NoItem
    /\ drawn = [c \in Names |-> [i \in Lines(c) |-> 0]]
    /\ status = "running"

TurnAfter(t) == IF t = Len(Cycle) THEN 1 ELSE t + 1

Yield(c, k) ==
    LET line == Shard(c)[k]
    IN  /\ item' = [corpus |-> c, line |-> line]
        /\ drawn' = [drawn EXCEPT ![c][line] = @ + 1]

Draw(c) ==
    /\ status = "running"
    /\ c = Cycle[turn]
    /\ position[c] < Len(Shard(c))
    /\ position' = [position EXCEPT ![c] = @ + 1]
    /\ Yield(c, position[c] + 1)
    /\ turn' = TurnAfter(turn)
    /\ UNCHANGED <<length, loader, opened, status>>

(* The corpus has ended: _reset_iter, and its first line.                  *)
Reopening(c) ==
    /\ status = "running"
    /\ c = Cycle[turn]
    /\ position[c] = Len(Shard(c))
    /\ opened[c] < MaxPasses
    /\ opened' = [opened EXCEPT ![c] = @ + 1]

ReopenAndRestart(c) ==
    /\ Reopening(c)
    /\ Shard(c) # <<>>
    /\ position' = [position EXCEPT ![c] = 1]
    /\ Yield(c, 1)
    /\ turn' = 1
    /\ UNCHANGED <<length, loader, status>>

Reopen(c) ==
    /\ Reopening(c)
    /\ Shard(c) # <<>>
    /\ position' = [position EXCEPT ![c] = 1]
    /\ Yield(c, 1)
    /\ turn' = TurnAfter(turn)
    /\ UNCHANGED <<length, loader, status>>

(* There is no first line: the finally clause yields the previous item     *)
(* again, if there is one, and the second StopIteration goes out, as the   *)
(* RuntimeError that a generator makes of it.                              *)
ReopenEmpty(c) ==
    /\ Reopening(c)
    /\ Shard(c) = <<>>
    /\ status' = IF item = NoItem THEN "raised" ELSE "raising"
    /\ IF item = NoItem THEN UNCHANGED drawn
       ELSE drawn' = [drawn EXCEPT ![item.corpus][item.line] = @ + 1]
    /\ UNCHANGED <<length, loader, turn, position, item>>

Raised ==
    /\ status = "raising"
    /\ status' = "raised"
    /\ UNCHANGED <<length, loader, turn, opened, position, item, drawn>>

Next ==
    \/ \E c \in Names : Draw(c) \/ Reopen(c) \/ ReopenEmpty(c)
    \/ Raised

Spec == Init /\ [][Next]_vars

------------------------------------------------------------------------------
(* Properties.                                                             *)

(* A line is read by one loader of the whole training and by no other, and *)
(* there is no line that nobody reads; if there is one node, since devices *)
(* are counted from 0 on each.                                             *)
LinesHaveOneReader ==
    Len(GpuRanks) = 1 =>
    /\ item # NoItem => \A l \in Loaders : Mine(l, item.line) <=> l = loader
    /\ \A c \in Names : \A i \in Lines(c) : \E l \in Loaders : Mine(l, i)

(* A pass over a corpus is whole: no line of the shard is drawn once more  *)
(* than another is drawn, unless the pass is under way.                    *)
PassesAreWhole ==
    status = "running" =>
        \A c \in Names : \A k \in DOMAIN Shard(c) :
            drawn[c][Shard(c)[k]]
                = opened[c] - (IF k <= position[c] THEN 0 ELSE 1)

Draws(c) == {p \in Lines(c) \X (1 .. (MaxPasses + 1)) : p[2] <= drawn[c][p[1]]}
DrawnFrom(c) == Cardinality(Draws(c))

(* The corpora are mixed by their weights however short they are: after n  *)
(* cycles and a part of one, a corpus has been drawn n times its weight    *)
(* and a part of it.                                                       *)
MixFollowsWeights ==
    status = "running" =>
        \E n \in 0 .. DrawnFrom(Corpora[1]) : \A c \in Names :
            DrawnFrom(c) \in (n * Weight[c]) .. ((n + 1) * Weight[c])

(* The mixer stops only if a corpus has no line in the shard, and the only *)
(* line it may have drawn once too often is the last one.                  *)
StopsOnlyIfEmpty ==
    status # "running" =>
        /\ \E c \in Names : Shard(c) = <<>>
        /\ \A c \in Names : \A k \in DOMAIN Shard(c) :
                drawn[c][Shard(c)[k]]
                    = opened[c] - (IF k <= position[c] THEN 0 ELSE 1)
                        + (IF item.corpus = c /\ item.line = Shard(c)[k]
                           THEN 1 ELSE 0)

(* Corpora are mixed by their weights however short they are, each pass    *)
(* over one is whole, and the mixer stops only for one that is empty       *)
(* (WeightedMixer).                                                        *)
CorporaAreMixed ==
    TypeOK /\ MixFollowsWeights /\ PassesAreWhole /\ StopsOnlyIfEmpty

=============================================================================
