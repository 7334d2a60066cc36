------------------------- MODULE DataPipeline_proofs --------------------------
(***************************************************************************)
(* The data pipeline, for any number of processes, of data loaders, of     *)
(* corpora and of lines, and for any iterators over any streams.  On one   *)
(* node every line has one reader and only one, every pass of the mixer    *)
(* over a corpus is whole, and the corpora are mixed by their weights.     *)
(* Every example is in one batch and only one, no batch gets larger than   *)
(* it may, and output n is the result of input n.                          *)
(***************************************************************************)
EXTENDS MCDataPipeline, Filtering_proofs, FiniteSetTheorems, FunctionTheorems

(* Two numbers in base b are equal only if their digits are.               *)
LEMMA Digits ==
    ASSUME NEW b \in Nat \ {0}, NEW x \in Nat, NEW y \in Nat,
           NEW u \in 0 .. (b - 1), NEW v \in 0 .. (b - 1),
           x * b + u = y * b + v
    PROVE  x = y /\ u = v
<1>1. ASSUME NEW p \in Nat, NEW q \in Nat, p < q
      PROVE  q * b >= p * b + b
  <2>1. PICK d \in Nat : q = p + 1 + d
    BY <1>1
  <2>2. q * b = p * b + b + d * b
    BY <2>1
  <2>3. d * b \in Nat
    OBVIOUS
  <2> QED BY <2>2, <2>3
<1>2. x * b \in Nat /\ y * b \in Nat
  OBVIOUS
<1>3. ~(x < y)
  BY <1>1, <1>2
<1>4. ~(y < x)
  BY <1>1, <1>2
<1> QED BY <1>2, <1>3, <1>4

(* The quotient and the remainder of a division.                           *)
LEMMA Division ==
    ASSUME NEW b \in Nat \ {0}, NEW r \in Nat
    PROVE  /\ r \div b \in Nat
           /\ r % b \in 0 .. (b - 1)
           /\ r = (r \div b) * b + (r % b)
OBVIOUS

(* A number of g * b has a first digit below g.                            *)
LEMMA FirstDigit ==
    ASSUME NEW b \in Nat \ {0}, NEW g \in Nat \ {0}, NEW r \in 0 .. (g * b - 1)
    PROVE  r \div b \in 0 .. (g - 1)
<1>1. r \in Nat
  OBVIOUS
<1> DEFINE q == r \div b
<1>2. q \in Nat /\ r = q * b + (r % b) /\ r % b \in 0 .. (b - 1)
  BY <1>1, Division
<1>3. ~(q >= g)
  <2> SUFFICES ASSUME q >= g PROVE FALSE
    OBVIOUS
  <2> HIDE DEF q
  <2>1. PICK d \in Nat : q = g + d
    BY <1>2
  <2>2. q * b = g * b + d * b
    BY <2>1
  <2>3. d * b \in Nat /\ g * b \in Nat
    OBVIOUS
  <2> QED BY <1>2, <2>2, <2>3
<1> QED BY <1>2, <1>3

(* The loaders of a single node are the pairs of a device and a worker.    *)
LEMMA LoaderOf ==
    ASSUME Len(GpuRanks) = 1, NEW l
    PROVE  l \in Loaders <=>
              l \in [node : {1}, device : 0 .. (GpuRanks[1] - 1),
                     worker : 0 .. (IF NumWorkers = 0 THEN 0 ELSE NumWorkers - 1)]
<1>1. DOMAIN GpuRanks = {1}
  BY ShardingAssumption
<1> QED BY <1>1 DEF Loaders

(* The stride and the offsets of a single node.                            *)
LEMMA OffsetInStride ==
    ASSUME Len(GpuRanks) = 1, NEW l \in Loaders
    PROVE  /\ Stride(l) = GpuRanks[1] * (IF NumWorkers = 0 THEN 1 ELSE NumWorkers)
           /\ Offset(l) = l.device * (IF NumWorkers = 0 THEN 1 ELSE NumWorkers)
                            + l.worker
<1>1. GpuRanks[1] \in Nat \ {0} /\ NumWorkers \in Nat
  <2>1. GpuRanks \in Seq(Nat \ {0}) /\ NumWorkers \in Nat
    BY ShardingAssumption
  <2>2. QED  BY <2>1
<1>2. /\ l.node = 1
      /\ l.device \in 0 .. (GpuRanks[1] - 1)
      /\ l.worker \in 0 .. (IF NumWorkers = 0 THEN 0 ELSE NumWorkers - 1)
  BY LoaderOf
<1> QED BY <1>1, <1>2 DEF Stride, Offset

(* On one node every line of a corpus has a reader, and no other loader    *)
(* reads it, whatever the numbers of devices, of workers and of lines.     *)
THEOREM ShardsPartition ==
    ASSUME Len(GpuRanks) = 1, NEW i \in Nat
    PROVE  \E l \in Loaders : /\ Mine(l, i)
                             /\ \A m \in Loaders : Mine(m, i) => m = l
<1> DEFINE b == IF NumWorkers = 0 THEN 1 ELSE NumWorkers
           g == GpuRanks[1]
           s == g * b
           r == (i \div s) % s
<1>1. g \in Nat \ {0} /\ b \in Nat \ {0} /\ NumWorkers \in Nat
  <2>1. GpuRanks \in Seq(Nat \ {0}) /\ NumWorkers \in Nat
    BY ShardingAssumption
  <2>2. GpuRanks[1] \in Nat \ {0}
    BY <2>1
  <2> QED BY <2>1, <2>2
<1>2. s \in Nat \ {0}
  <2> HIDE DEF b, g
  <2>1. PICK x \in Nat, y \in Nat : g = x + 1 /\ b = y + 1
    BY <1>1
  <2>2. s = x * y + x + y + 1 /\ x * y \in Nat
    BY <2>1
  <2> QED BY <2>2
<1>3. r \in 0 .. (s - 1)
  <2> HIDE DEF s
  <2>1. i \div s \in Nat
    BY <1>2, Division
  <2> QED BY <1>2, <2>1, Division
<1>4. r \div b \in 0 .. (g - 1)
  <2> HIDE DEF b, g, r
  <2> QED BY <1>1, <1>3, FirstDigit DEF s
<1>5. /\ r % b \in 0 .. (b - 1)
      /\ r = (r \div b) * b + (r % b)
  <2>1. r \in Nat
    <3> HIDE DEF s
    <3> QED BY <1>2, <1>3
  <2> HIDE DEF b, r
  <2> QED BY <1>1, <2>1, Division
<1> DEFINE l == [node |-> 1, device |-> r \div b, worker |-> r % b]
<1>6. l \in Loaders
  BY <1>1, <1>4, <1>5, LoaderOf
<1>7. \A m \in Loaders : Mine(m, i) <=> r = m.device * b + m.worker
  BY OffsetInStride DEF Mine
<1>8. Mine(l, i)
  BY <1>5, <1>6, <1>7
<1>9. ASSUME NEW m \in Loaders, Mine(m, i)
      PROVE  m = l
  <2>1. /\ m = [node |-> 1, device |-> m.device, worker |-> m.worker]
        /\ m.device \in Nat
        /\ m.worker \in 0 .. (b - 1)
    BY <1>1, LoaderOf
  <2>2. m.device * b + m.worker = (r \div b) * b + (r % b)
    BY <1>5, <1>7, <1>9
  <2>3. m.device = r \div b /\ m.worker = r % b
    <3> HIDE DEF b, r
    <3> QED BY <1>1, <1>4, <1>5, <2>1, <2>2, Digits
  <2> QED BY <2>1, <2>3
<1> QED BY <1>6, <1>8, <1>9

------------------------------------------------------------------------------
(* The mixer.                                                              *)

(* A shard has lines of the corpus that are the loader's, in their order   *)
(* and each once.                                                          *)
LEMMA ShardFacts ==
  ASSUME length \in Lengths, NEW c \in Names
  PROVE  /\ length[c] \in Nat /\ Shard(c) \in Seq(Nat)
         /\ \A k \in 1 .. Len(Shard(c)) : Shard(c)[k] \in Lines(c) /\ Mine(loader, Shard(c)[k])
         /\ \A k, m \in 1 .. Len(Shard(c)) : Shard(c)[k] = Shard(c)[m] => k = m
<1> DEFINE all == [k \in 1 .. length[c] |-> k - 1]
           mine == {i \in Lines(c) : Mine(loader, i)}
           shard == Shard(c)
<1>1. length[c] \in Nat
  BY ShardingAssumption DEF Names
<1>2. /\ all \in Seq(Nat) /\ Len(all) = length[c]
      /\ \A k \in 1 .. length[c] : all[k] = k - 1
  BY <1>1
<1>3. shard = Kept(all, mine)
  BY DEF Shard
<1> HIDE DEF all, shard, mine
<1>4. shard \in Seq(Nat)
  BY <1>2, <1>3, KeptPlaces
<1>5. PICK place : IsPlacement(place, all, shard, mine, Len(shard), Len(all))
  BY <1>2, <1>3, KeptPlaces
<1>6. /\ place \in [1 .. Len(shard) -> 1 .. Len(all)]
      /\ \A i \in 1 .. Len(shard) : shard[i] = all[place[i]] /\ all[place[i]] \in mine
      /\ \A i, j \in 1 .. Len(shard) : i < j => place[i] < place[j]
  BY <1>5 DEF IsPlacement
<1>7. \A k \in 1 .. Len(shard) : shard[k] \in Lines(c) /\ Mine(loader, shard[k])
  BY <1>6 DEF mine
<1>8. ASSUME NEW k \in 1 .. Len(shard), NEW m \in 1 .. Len(shard), shard[k] = shard[m]
      PROVE  k = m
  <2>1. place[k] \in 1 .. length[c] /\ place[m] \in 1 .. length[c]
    BY <1>2, <1>6
  <2>2. place[k] - 1 = place[m] - 1
    BY <1>2, <1>6, <1>8, <2>1
  <2>3. place[k] = place[m]
    BY <1>1, <2>1, <2>2
  <2>4. ~(k < m) /\ ~(m < k)
    BY <1>1, <1>6, <2>1, <2>3
  <2>5. Len(shard) \in Nat
    BY <1>4
  <2>6. QED  BY <2>4, <2>5
<1>9. QED  BY <1>1, <1>4, <1>7, <1>8 DEF shard

(* How often line k of a shard has been drawn.                             *)
Passes(c, k) == opened[c] - (IF k <= position[c] THEN 0 ELSE 1)
Again(c, k) == IF item.corpus = c /\ item.line = Shard(c)[k] THEN 1 ELSE 0

(* The inductive invariant: types without the bounds, the item is a line   *)
(* of the loader's, and all lines of a shard have been drawn in turn.      *)
ItemInv == item # NoItem => /\ item.corpus \in Names /\ item.line \in Lines(item.corpus)
                            /\ Mine(loader, item.line)
DrawnInv ==
    \A c \in Names : \A k \in 1 .. Len(Shard(c)) :
        drawn[c][Shard(c)[k]] = Passes(c, k) + (IF status = "running" THEN 0 ELSE Again(c, k))
IInv ==
    /\ length \in Lengths /\ loader \in Loaders
    /\ opened \in [Names -> Nat \ {0}]
    /\ position \in [Names -> Nat] /\ \A c \in Names : position[c] <= Len(Shard(c))
    /\ DOMAIN drawn = Names /\ \A c \in Names : drawn[c] \in [Lines(c) -> Nat]
    /\ status \in {"running", "raising", "raised"}
    /\ status # "running" => \E c \in Names : Shard(c) = <<>>
    /\ ItemInv /\ DrawnInv

LEMMA InitIInv == Init => IInv
<1> SUFFICES ASSUME Init PROVE IInv
  OBVIOUS
<1>1. /\ length \in Lengths /\ loader \in Loaders /\ status = "running" /\ item = NoItem
      /\ opened = [c \in Names |-> 1] /\ position = [c \in Names |-> 0]
      /\ drawn = [c \in Names |-> [i \in Lines(c) |-> 0]]
  BY DEF Init
<1>2. \A c \in Names : /\ Shard(c) \in Seq(Nat) /\ 0 <= Len(Shard(c))
                       /\ \A k \in 1 .. Len(Shard(c)) : Shard(c)[k] \in Lines(c) /\ ~(k <= 0)
  BY <1>1, ShardFacts
<1>3. \A c \in Names : opened[c] = 1 /\ position[c] = 0 /\ \A i \in Lines(c) : drawn[c][i] = 0
  BY <1>1
<1>4. DrawnInv
  BY <1>1, <1>2, <1>3 DEF DrawnInv, Passes
<1>5. DOMAIN drawn = Names /\ \A c \in Names : drawn[c] \in [Lines(c) -> Nat]
  BY <1>1
<1>6. QED  BY <1>1, <1>2, <1>3, <1>4, <1>5 DEF IInv, ItemInv

(* What leaves the corpora and the loader alone leaves the shards alone.   *)
LEMMA SameShards ==
  ASSUME UNCHANGED <<length, loader>>, NEW c
  PROVE  Shard(c)' = Shard(c) /\ Lines(c)' = Lines(c)
BY DEF Shard, Lines, Mine

(* Drawing line k of corpus c, which was the next of this pass, or the     *)
(* first of a new one.                                                     *)
LEMMA YieldKeeps ==
  ASSUME IInv, NEW c \in Names, NEW k \in 1 .. Len(Shard(c)), Yield(c, k),
         UNCHANGED <<length, loader, status>>, status = "running",
         opened' \in [Names -> Nat \ {0}], position' \in [Names -> Nat],
         position'[c] <= Len(Shard(c)),
         \A d \in Names \ {c} : opened'[d] = opened[d] /\ position'[d] = position[d],
         \A m \in 1 .. Len(Shard(c)) :
             opened'[c] - (IF m <= position'[c] THEN 0 ELSE 1)
                = Passes(c, m) + (IF m = k THEN 1 ELSE 0)
  PROVE  IInv'
<1> DEFINE line == Shard(c)[k]
<1>1. /\ line \in Lines(c) /\ Mine(loader, line)
      /\ \A m \in 1 .. Len(Shard(c)) : Shard(c)[m] = line => m = k
      /\ \A d \in Names : \A m \in 1 .. Len(Shard(d)) : Shard(d)[m] \in Lines(d)
  BY ShardFacts DEF IInv
<1>2. item' = [corpus |-> c, line |-> line] /\ drawn' = [drawn EXCEPT ![c][line] = @ + 1]
  BY DEF Yield
<1> HIDE DEF line
<1>3. drawn[c] \in [Lines(c) -> Nat] /\ DOMAIN drawn = Names
  BY DEF IInv
<1>4. drawn' = [drawn EXCEPT ![c] = [drawn[c] EXCEPT ![line] = drawn[c][line] + 1]]
  BY <1>1, <1>2, <1>3
<1>5. /\ DOMAIN drawn' = Names
      /\ drawn'[c] = [drawn[c] EXCEPT ![line] = drawn[c][line] + 1]
      /\ \A d \in Names \ {c} : drawn'[d] = drawn[d]
  BY <1>3, <1>4
<1>6. /\ drawn'[c] \in [Lines(c) -> Nat]
      /\ \A i \in Lines(c) : drawn'[c][i] = drawn[c][i] + (IF i = line THEN 1 ELSE 0)
  BY <1>1, <1>3, <1>5
<1>7. \A d \in Names : Shard(d)' = Shard(d) /\ Lines(d)' = Lines(d)
  BY SameShards
<1>8. DrawnInv'
  <2> SUFFICES ASSUME NEW d \in Names, NEW m \in 1 .. Len(Shard(d))
               PROVE  drawn'[d][Shard(d)[m]] = opened'[d] - (IF m <= position'[d] THEN 0 ELSE 1)
    BY <1>7 DEF DrawnInv, Passes
  <2>1. drawn[d][Shard(d)[m]] = Passes(d, m)
    <3>1. drawn[d][Shard(d)[m]] = Passes(d, m) + 0
      BY DEF IInv, DrawnInv
    <3>2. Passes(d, m) \in Int
      BY DEF IInv, Passes
    <3>3. QED  BY <3>1, <3>2
  <2>2. CASE d # c
    BY <1>5, <2>1, <2>2 DEF Passes
  <2>3. CASE d = c
    <3>1. Shard(c)[m] \in Lines(c) /\ (Shard(c)[m] = line <=> m = k)
      BY <1>1, <2>3 DEF line
    <3>2. drawn'[c][Shard(c)[m]] = drawn[c][Shard(c)[m]] + (IF m = k THEN 1 ELSE 0)
      BY <1>6, <3>1
    <3>3. QED  BY <2>1, <2>3, <3>2
  <2>4. QED  BY <2>2, <2>3
<1>9. ItemInv'
  BY <1>1, <1>2, <1>7 DEF ItemInv, Mine
<1>10. \A d \in Names : drawn'[d] \in [Lines(d) -> Nat]
  BY <1>5, <1>6 DEF IInv
<1>11. \A d \in Names : position'[d] <= Len(Shard(d))
  BY DEF IInv
<1>12. QED  BY <1>5, <1>7, <1>8, <1>9, <1>10, <1>11 DEF IInv

LEMMA StepDraw ==
  ASSUME IInv, NEW c \in Names, Draw(c)
  PROVE  IInv'
<1>1. /\ length \in Lengths /\ opened \in [Names -> Nat \ {0}] /\ position \in [Names -> Nat]
      /\ \A d \in Names : Len(Shard(d)) \in Nat
  BY ShardFacts DEF IInv
<1>2. /\ status = "running" /\ position[c] < Len(Shard(c))
      /\ position' = [position EXCEPT ![c] = position[c] + 1]
      /\ Yield(c, position[c] + 1)
      /\ UNCHANGED <<length, loader, opened, status>>
  BY DEF Draw
<1>3. /\ position' \in [Names -> Nat] /\ position'[c] = position[c] + 1
      /\ \A d \in Names \ {c} : position'[d] = position[d]
      /\ position[c] \in Nat /\ opened[c] \in Nat
  BY <1>1, <1>2
<1>4. position[c] + 1 \in 1 .. Len(Shard(c)) /\ position'[c] <= Len(Shard(c))
  BY <1>1, <1>2, <1>3
<1>5. \A m \in 1 .. Len(Shard(c)) :
         opened'[c] - (IF m <= position'[c] THEN 0 ELSE 1)
            = Passes(c, m) + (IF m = position[c] + 1 THEN 1 ELSE 0)
  BY <1>1, <1>2, <1>3 DEF Passes
<1>6. opened' \in [Names -> Nat \ {0}] /\ \A d \in Names \ {c} : opened'[d] = opened[d]
  BY <1>1, <1>2
<1>7. QED  BY <1>2, <1>3, <1>4, <1>5, <1>6, YieldKeeps

LEMMA StepReopen ==
  ASSUME IInv, NEW c \in Names, Reopen(c)
  PROVE  IInv'
<1>1. /\ length \in Lengths /\ opened \in [Names -> Nat \ {0}] /\ position \in [Names -> Nat]
      /\ Shard(c) \in Seq(Nat)
  BY ShardFacts DEF IInv
<1>2. /\ status = "running" /\ position[c] = Len(Shard(c)) /\ Shard(c) # <<>>
      /\ opened' = [opened EXCEPT ![c] = opened[c] + 1]
      /\ position' = [position EXCEPT ![c] = 1]
      /\ Yield(c, 1)
      /\ UNCHANGED <<length, loader, status>>
  BY DEF Reopen, Reopening
<1>3. /\ position' \in [Names -> Nat] /\ position'[c] = 1
      /\ opened' \in [Names -> Nat \ {0}] /\ opened'[c] = opened[c] + 1
      /\ \A d \in Names \ {c} : position'[d] = position[d] /\ opened'[d] = opened[d]
      /\ opened[c] \in Nat
  BY <1>1, <1>2
<1>4. Len(Shard(c)) \in Nat /\ 1 \in 1 .. Len(Shard(c)) /\ position'[c] <= Len(Shard(c))
  BY <1>1, <1>2, <1>3
<1>5. \A m \in 1 .. Len(Shard(c)) :
         opened'[c] - (IF m <= position'[c] THEN 0 ELSE 1)
            = Passes(c, m) + (IF m = 1 THEN 1 ELSE 0)
  BY <1>2, <1>3, <1>4 DEF Passes
<1>6. QED  BY <1>2, <1>3, <1>4, <1>5, YieldKeeps

LEMMA StepReopenEmpty ==
  ASSUME IInv, NEW c \in Names, ReopenEmpty(c)
  PROVE  IInv'
<1>1. /\ length \in Lengths /\ opened \in [Names -> Nat \ {0}] /\ DOMAIN drawn = Names
      /\ \A d \in Names : drawn[d] \in [Lines(d) -> Nat]
      /\ \A d \in Names : \A m \in 1 .. Len(Shard(d)) : Shard(d)[m] \in Lines(d)
  BY ShardFacts DEF IInv
<1>2. /\ status = "running" /\ Shard(c) = <<>> /\ status' \in {"raising", "raised"}
      /\ opened' = [opened EXCEPT ![c] = opened[c] + 1]
      /\ UNCHANGED <<length, loader, position, item>>
  BY DEF ReopenEmpty, Reopening
<1>3. /\ opened' \in [Names -> Nat \ {0}]
      /\ \A d \in Names \ {c} : opened'[d] = opened[d]
  BY <1>1, <1>2
<1>4. \A d \in Names : Shard(d)' = Shard(d) /\ Lines(d)' = Lines(d)
  BY <1>2, SameShards
<1>5. /\ DOMAIN drawn' = Names /\ \A d \in Names : drawn'[d] \in [Lines(d) -> Nat]
      /\ \A d \in Names : \A i \in Lines(d) :
           drawn'[d][i] = drawn[d][i] + (IF item.corpus = d /\ item.line = i THEN 1 ELSE 0)
  <2>1. CASE item = NoItem
    <3>1. drawn' = drawn
      BY <2>1 DEF ReopenEmpty
    <3>2. \A d \in Names : item.corpus # d
      BY <2>1, ShardingAssumption DEF NoItem, Names
    <3>3. QED  BY <1>1, <3>1, <3>2
  <2>2. CASE item # NoItem
    <3> DEFINE b == item.corpus
               line == item.line
    <3>1. b \in Names /\ line \in Lines(b)
      BY <2>2 DEF IInv, ItemInv
    <3>2. drawn' = [drawn EXCEPT ![b][line] = @ + 1]
      BY <2>2 DEF ReopenEmpty
    <3> HIDE DEF b, line
    <3>3. drawn' = [drawn EXCEPT ![b] = [drawn[b] EXCEPT ![line] = drawn[b][line] + 1]]
      BY <1>1, <3>1, <3>2
    <3>4. /\ DOMAIN drawn' = Names
          /\ drawn'[b] = [drawn[b] EXCEPT ![line] = drawn[b][line] + 1]
          /\ \A d \in Names \ {b} : drawn'[d] = drawn[d]
      <4>1. DOMAIN drawn = Names
        BY <1>1
      <4>2. QED  BY <3>1, <3>3, <4>1
    <3>5. /\ drawn'[b] \in [Lines(b) -> Nat]
          /\ \A i \in Lines(b) : drawn'[b][i] = drawn[b][i] + (IF i = line THEN 1 ELSE 0)
      BY <1>1, <3>1, <3>4
    <3>6. \A d \in Names : drawn'[d] \in [Lines(d) -> Nat]
      BY <1>1, <3>4, <3>5
    <3>7. \A d \in Names : \A i \in Lines(d) :
            drawn'[d][i] = drawn[d][i] + (IF b = d /\ line = i THEN 1 ELSE 0)
      <4> SUFFICES ASSUME NEW d \in Names, NEW i \in Lines(d)
                   PROVE  drawn'[d][i] = drawn[d][i] + (IF b = d /\ line = i THEN 1 ELSE 0)
        OBVIOUS
      <4>1. drawn[d][i] \in Nat
        BY <1>1
      <4>2. CASE d = b
        BY <3>5, <4>1, <4>2
      <4>3. CASE d # b
        BY <3>4, <4>1, <4>3
      <4>4. QED  BY <4>2, <4>3
    <3>8. QED  BY <3>4, <3>6, <3>7 DEF b, line
  <2>3. QED  BY <2>1, <2>2
<1>6. DrawnInv'
  <2> SUFFICES ASSUME NEW d \in Names, NEW m \in 1 .. Len(Shard(d))
               PROVE  drawn'[d][Shard(d)[m]]
                        = opened'[d] - (IF m <= position[d] THEN 0 ELSE 1) + Again(d, m)
    BY <1>2, <1>4 DEF DrawnInv, Passes, Again
  <2>1. d # c
    BY <1>2
  <2>2. drawn[d][Shard(d)[m]] = opened[d] - (IF m <= position[d] THEN 0 ELSE 1)
    BY <1>2 DEF IInv, DrawnInv, Passes
  <2>3. Shard(d)[m] \in Lines(d)
    BY <1>1
  <2>4. QED  BY <1>3, <1>5, <2>1, <2>2, <2>3 DEF Again
<1>7. ItemInv'
  BY <1>2, <1>4 DEF IInv, ItemInv, Mine
<1>8. QED  BY <1>2, <1>3, <1>4, <1>5, <1>6, <1>7 DEF IInv

LEMMA StepRest ==
  ASSUME IInv, Raised \/ UNCHANGED vars
  PROVE  IInv'
<1>1. /\ UNCHANGED <<length, loader, opened, position, item, drawn>>
      /\ status' = status \/ (status # "running" /\ status' = "raised")
  BY DEF Raised, vars
<1>2. \A d \in Names : Shard(d)' = Shard(d) /\ Lines(d)' = Lines(d)
  BY <1>1, SameShards
<1>3. DrawnInv'
  BY <1>1, <1>2 DEF IInv, DrawnInv, Passes, Again
<1>4. ItemInv'
  BY <1>1, <1>2 DEF IInv, ItemInv, Mine
<1>5. QED  BY <1>1, <1>2, <1>3, <1>4 DEF IInv

THEOREM Invariant == Spec => []IInv
<1>1. IInv /\ [Next]_vars => IInv'
  BY StepDraw, StepReopen, StepReopenEmpty, StepRest DEF Next
<1>2. QED  BY <1>1, InitIInv, PTL DEF Spec

(* On one node the item that a loader yields is a line that is its own and *)
(* nobody else's, and every line of a corpus has a reader                  *)
(* (ParallelCorpus.load, DynamicDatasetIter._init_datasets).               *)
THEOREM OneReader == Spec => []LinesHaveOneReader
<1>1. IInv => LinesHaveOneReader
  <2> SUFFICES ASSUME IInv, Len(GpuRanks) = 1 PROVE
                 /\ item # NoItem => \A l \in Loaders : Mine(l, item.line) <=> l = loader
                 /\ \A c \in Names : \A i \in Lines(c) : \E l \in Loaders : Mine(l, i)
    BY DEF LinesHaveOneReader
  <2>1. \A c \in Names : \A i \in Lines(c) : i \in Nat
    BY ShardFacts DEF IInv, Lines
  <2>2. \A c \in Names : \A i \in Lines(c) : \E l \in Loaders : Mine(l, i)
    BY <2>1, ShardsPartition
  <2>3. ASSUME item # NoItem, NEW l \in Loaders PROVE Mine(l, item.line) <=> l = loader
    <3>1. item.line \in Nat /\ Mine(loader, item.line) /\ loader \in Loaders
      BY <2>1, <2>3 DEF IInv, ItemInv
    <3>2. QED  BY <3>1, ShardsPartition
  <2>4. QED  BY <2>2, <2>3
<1>2. QED  BY <1>1, Invariant, PTL

(* While the mixer runs every line of a shard has been drawn once in each  *)
(* pass but the one under way, and once there if it came already           *)
(* (WeightedMixer.__iter__, _reset_iter).                                  *)
THEOREM PassesCorrect == Spec => []PassesAreWhole
<1>1. IInv => PassesAreWhole
  <2> SUFFICES ASSUME IInv, status = "running", NEW c \in Names, NEW k \in DOMAIN Shard(c)
               PROVE  drawn[c][Shard(c)[k]] = opened[c] - (IF k <= position[c] THEN 0 ELSE 1)
    BY DEF PassesAreWhole
  <2>1. k \in 1 .. Len(Shard(c))
    BY ShardFacts DEF IInv
  <2>2. QED  BY <2>1 DEF IInv, DrawnInv, Passes
<1>2. QED  BY <1>1, Invariant, PTL

(* The mixer stops only if a corpus has no line for this loader, and then  *)
(* only the last item may have been drawn once too often                   *)
(* (the finally clause of WeightedMixer.__iter__).                         *)
THEOREM StopCorrect == Spec => []StopsOnlyIfEmpty
<1>1. IInv => StopsOnlyIfEmpty
  <2> SUFFICES ASSUME IInv, status # "running", NEW c \in Names, NEW k \in DOMAIN Shard(c)
               PROVE  drawn[c][Shard(c)[k]]
                        = opened[c] - (IF k <= position[c] THEN 0 ELSE 1)
                            + (IF item.corpus = c /\ item.line = Shard(c)[k] THEN 1 ELSE 0)
    BY DEF StopsOnlyIfEmpty, IInv
  <2>1. k \in 1 .. Len(Shard(c))
    BY ShardFacts DEF IInv
  <2>2. QED  BY <2>1 DEF IInv, DrawnInv, Passes, Again
<1>2. QED  BY <1>1, Invariant, PTL

------------------------------------------------------------------------------
(* The mix.                                                                *)

(* The corpora by their order: repeated[k] is the k-th, times its weight.  *)
Repeated == [k \in DOMAIN Corpora |-> [j \in 1 .. Weight[Corpora[k]] |-> Corpora[k]]]

(* How often corpus c comes in the cycle before place t.                   *)
Places(c, t) == {j \in 1 .. (t - 1) : Cycle[j] = c}
Before(c, t) == Cardinality(Places(c, t))

(* The cycle joins corpora, and has each as many times as its weight.      *)
LEMMA CycleFacts ==
  /\ Cycle \in Seq(Names) /\ Len(Cycle) \in Nat \ {0}
  /\ \A c \in Names : Before(c, Len(Cycle) + 1) = Weight[c]
<1>1. /\ Corpora \in Seq(Names) /\ Len(Corpora) \in Nat \ {0} /\ DOMAIN Corpora = 1 .. Len(Corpora)
      /\ \A k, m \in 1 .. Len(Corpora) : Corpora[k] = Corpora[m] => k = m
      /\ \A c \in Names : Weight[c] \in Nat \ {0}
      /\ \A c \in Names : \E k \in 1 .. Len(Corpora) : Corpora[k] = c
  <2>1. Corpora \in Seq(Names) /\ Corpora # <<>>
    BY ShardingAssumption DEF Names
  <2>2. DOMAIN Corpora = 1 .. Len(Corpora) /\ Len(Corpora) \in Nat \ {0}
    BY <2>1
  <2>3. \A k, m \in 1 .. Len(Corpora) : Corpora[k] = Corpora[m] => k = m
    BY <2>2, ShardingAssumption DEF IsInjective
  <2>4. \A c \in Names : Weight[c] \in Nat \ {0}
    BY ShardingAssumption DEF Names
  <2>5. \A c \in Names : \E k \in 1 .. Len(Corpora) : Corpora[k] = c
    BY <2>2 DEF Names, ToSet
  <2>6. QED  BY <2>1, <2>2, <2>3, <2>4, <2>5
<1>2. /\ Repeated \in Seq(Seq(Names)) /\ Len(Repeated) = Len(Corpora)
      /\ \A k \in 1 .. Len(Corpora) :
           Len(Repeated[k]) = Weight[Corpora[k]]
             /\ \A j \in 1 .. Weight[Corpora[k]] : Repeated[k][j] = Corpora[k]
  <2>1. \A k \in 1 .. Len(Corpora) : Corpora[k] \in Names /\ Weight[Corpora[k]] \in Nat
    BY <1>1
  <2>2. \A k \in 1 .. Len(Corpora) :
          Repeated[k] = [j \in 1 .. Weight[Corpora[k]] |-> Corpora[k]]
    BY <1>1 DEF Repeated
  <2>3. \A k \in 1 .. Len(Corpora) :
          /\ Repeated[k] \in Seq(Names) /\ Len(Repeated[k]) = Weight[Corpora[k]]
          /\ \A j \in 1 .. Weight[Corpora[k]] : Repeated[k][j] = Corpora[k]
    <3> SUFFICES ASSUME NEW k \in 1 .. Len(Corpora)
                 PROVE  /\ Repeated[k] \in Seq(Names) /\ Len(Repeated[k]) = Weight[Corpora[k]]
                        /\ \A j \in 1 .. Weight[Corpora[k]] : Repeated[k][j] = Corpora[k]
      OBVIOUS
    <3> DEFINE rep == Repeated[k]
               w == Weight[Corpora[k]]
               c == Corpora[k]
    <3>1. w \in Nat /\ c \in Names /\ rep = [j \in 1 .. w |-> c]
      BY <2>1, <2>2
    <3> HIDE DEF rep, w, c
    <3>2. rep \in Seq(Names) /\ Len(rep) = w /\ \A j \in 1 .. w : rep[j] = c
      BY <3>1
    <3>3. QED  BY <3>2 DEF rep, w, c
  <2>4. Repeated = [k \in 1 .. Len(Corpora) |-> Repeated[k]]
    BY <1>1 DEF Repeated
  <2>5. Repeated \in Seq(Seq(Names)) /\ Len(Repeated) = Len(Corpora)
    <3> DEFINE rep == Repeated
    <3>1. rep = [k \in 1 .. Len(Corpora) |-> rep[k]] /\ \A k \in 1 .. Len(Corpora) : rep[k] \in Seq(Names)
      BY <2>3, <2>4
    <3> HIDE DEF rep
    <3>2. rep \in [1 .. Len(Corpora) -> Seq(Names)]
      BY <3>1
    <3>3. rep \in Seq(Seq(Names)) /\ Len(rep) = Len(Corpora)
      BY <1>1, <3>2
    <3>4. QED  BY <3>3 DEF rep
  <2>6. QED  BY <2>3, <2>5
<1>3. Cycle \in Seq(Names) /\ \E block, off : IsLayout(block, off, Cycle, Repeated, Len(Repeated))
  BY <1>1, <1>2, JoinPlaces DEF Cycle, Repeated
<1>4. PICK block, off : IsLayout(block, off, Cycle, Repeated, Len(Repeated))
  BY <1>3
<1> DEFINE n == Len(Cycle)
<1>5. /\ block \in [1 .. n -> 1 .. Len(Corpora)] /\ off \in [1 .. n -> Nat]
      /\ \A p \in 1 .. n : off[p] \in 1 .. Len(Repeated[block[p]])
      /\ \A p \in 1 .. n : Cycle[p] = Repeated[block[p]][off[p]]
      /\ \A p, q \in 1 .. n :
           p < q => block[p] < block[q] \/ (block[p] = block[q] /\ off[p] < off[q])
      /\ \A i \in 1 .. Len(Corpora) : \A k \in 1 .. Len(Repeated[i]) :
           \E p \in 1 .. n : block[p] = i /\ off[p] = k
  BY <1>2, <1>4 DEF IsLayout
<1>6. n \in Nat
  BY <1>3
<1> HIDE DEF n
<1>7. \A p \in 1 .. n : Cycle[p] = Corpora[block[p]] /\ off[p] \in 1 .. Weight[Corpora[block[p]]]
  BY <1>2, <1>5
<1>8. ASSUME NEW c \in Names PROVE Before(c, n + 1) = Weight[c]
  <2>1. PICK i \in 1 .. Len(Corpora) : Corpora[i] = c
    BY <1>1
  <2> DEFINE places == Places(c, n + 1)
  <2>2. places = {p \in 1 .. n : block[p] = i}
    <3>1. (n + 1) - 1 = n
      BY <1>6
    <3>2. places = {p \in 1 .. n : Cycle[p] = c}
      BY <3>1 DEF Places
    <3>3. \A p \in 1 .. n : Cycle[p] = c <=> block[p] = i
      BY <1>1, <1>5, <1>7, <2>1
    <3>4. QED  BY <3>2, <3>3
  <2> HIDE DEF places
  <2>3. \A k \in 1 .. Weight[c] : \E p \in places : off[p] = k
    BY <1>2, <1>5, <2>1, <2>2
  <2> DEFINE at == [k \in 1 .. Weight[c] |-> CHOOSE p \in places : off[p] = k]
  <2>4. \A k \in 1 .. Weight[c] : at[k] \in places /\ off[at[k]] = k
    BY <2>3
  <2>5. \A p, q \in places : off[p] = off[q] => p = q
    <3> SUFFICES ASSUME NEW p \in places, NEW q \in places, off[p] = off[q], p # q PROVE FALSE
      OBVIOUS
    <3>1. p \in 1 .. n /\ q \in 1 .. n /\ block[p] = i /\ block[q] = i
      BY <2>2
    <3>2. off[p] \in Nat /\ (p < q \/ q < p)
      BY <1>5, <1>6, <3>1
    <3>3. QED  BY <1>5, <3>1, <3>2
  <2>6. \A p \in places : off[p] \in 1 .. Weight[c]
    BY <1>7, <2>1, <2>2
  <2>7. at \in Bijection(1 .. Weight[c], places)
    <3>1. at \in [1 .. Weight[c] -> places]
      BY <2>4
    <3>2. ASSUME NEW a \in 1 .. Weight[c], NEW b \in 1 .. Weight[c], at[a] = at[b] PROVE a = b
      BY <2>4, <3>2
    <3>3. ASSUME NEW p \in places PROVE \E k \in 1 .. Weight[c] : at[k] = p
      BY <2>4, <2>5, <2>6
    <3> HIDE DEF at
    <3>4. DOMAIN at = 1 .. Weight[c]
      BY <3>1
    <3>5. QED  BY <3>1, <3>2, <3>3, <3>4 DEF Bijection, Injection, Surjection, IsInjective
  <2>8. Weight[c] \in Nat
    BY <1>1
  <2>9. Cardinality(places) = Weight[c]
    <3> HIDE DEF at
    <3>1. ExistsBijection(1 .. Weight[c], places)
      BY <2>7 DEF ExistsBijection
    <3>2. QED  BY <2>8, <3>1, FS_CountingElements
  <2>10. QED  BY <2>9 DEF Before, places
<1>9. n # 0
  <2>1. 1 \in 1 .. Len(Corpora) /\ Corpora[1] \in Names
    BY <1>1
  <2>2. 1 \in 1 .. Len(Repeated[1])
    <3>1. Len(Repeated[1]) = Weight[Corpora[1]]
      BY <1>2, <2>1
    <3>2. Weight[Corpora[1]] \in Nat \ {0}
      BY <1>1, <2>1
    <3>3. QED  BY <3>1, <3>2
  <2>3. PICK p \in 1 .. n : TRUE
    BY <1>5, <2>1, <2>2
  <2>4. QED  BY <1>6
<1>10. QED  BY <1>3, <1>6, <1>8, <1>9 DEF n

(* Counting along the cycle.                                               *)
LEMMA BeforeFacts ==
  ASSUME NEW c \in Names, NEW t \in 1 .. Len(Cycle)
  PROVE  /\ Before(c, 1) = 0
         /\ Before(c, t) \in Nat /\ Before(c, t) <= Weight[c]
         /\ Before(c, t + 1) = Before(c, t) + (IF Cycle[t] = c THEN 1 ELSE 0)
<1>1. Len(Cycle) \in Nat /\ t \in Nat
  BY CycleFacts
<1>2. Before(c, 1) = 0
  <2>1. Places(c, 1) = {}
    BY DEF Places
  <2>2. QED  BY <2>1, FS_EmptySet DEF Before
<1>3. IsFiniteSet(Places(c, t)) /\ Cardinality(Places(c, t)) \in Nat
  <2>1. Places(c, t) \in SUBSET (1 .. (t - 1)) /\ t - 1 \in Int
    BY <1>1 DEF Places
  <2>2. IsFiniteSet(Places(c, t))
    <3>1. IsFiniteSet(1 .. (t - 1))
      BY <2>1, FS_Interval
    <3>2. QED  BY <2>1, <3>1, FS_Subset
  <2>3. QED  BY <2>2, FS_CardinalityType
<1>4. Cardinality(Places(c, t)) <= Weight[c]
  <2>1. IsFiniteSet(Places(c, Len(Cycle) + 1))
    <3>1. Places(c, Len(Cycle) + 1) \in SUBSET (1 .. Len(Cycle))
      BY <1>1 DEF Places
    <3>2. IsFiniteSet(1 .. Len(Cycle))
      BY <1>1, FS_Interval
    <3>3. QED  BY <3>1, <3>2, FS_Subset
  <2>2. Places(c, t) \in SUBSET Places(c, Len(Cycle) + 1)
    BY <1>1 DEF Places
  <2>3. Cardinality(Places(c, t)) <= Cardinality(Places(c, Len(Cycle) + 1))
    BY <2>1, <2>2, FS_Subset
  <2>4. QED  BY <2>3, CycleFacts DEF Before
<1>5. Before(c, t + 1) = Before(c, t) + (IF Cycle[t] = c THEN 1 ELSE 0)
  <2>1. CASE Cycle[t] = c
    <3>1. Places(c, t + 1) = Places(c, t) \cup {t}
      BY <1>1, <2>1 DEF Places
    <3>2. t \notin Places(c, t)
      BY <1>1 DEF Places
    <3>3. Cardinality(Places(c, t + 1)) = Cardinality(Places(c, t)) + 1
      BY <1>3, <3>1, <3>2, FS_AddElement
    <3>4. QED  BY <2>1, <3>3 DEF Before
  <2>2. CASE Cycle[t] # c
    <3>1. Places(c, t + 1) = Places(c, t)
      BY <1>1, <2>2 DEF Places
    <3>2. QED  BY <1>3, <2>2, <3>1 DEF Before
  <2>3. QED  BY <2>1, <2>2
<1>6. QED  BY <1>2, <1>3, <1>4, <1>5 DEF Before

(* After some cycles and the part of one before turn, every corpus has     *)
(* been drawn its weight times in each, and as often as it came in that    *)
(* part.                                                                   *)
MixInv ==
    /\ turn \in 1 .. Len(Cycle)
    /\ \A c \in Names : opened[c] <= MaxPasses
    /\ \A c \in Names : \A i \in Lines(c) :
         drawn[c][i] <= opened[c] + (IF status = "running" THEN 0 ELSE 1)
    /\ status = "running" =>
         \E n \in Nat : \A c \in Names : DrawnFrom(c) = n * Weight[c] + Before(c, turn)

LEMMA DrawsFacts ==
  ASSUME IInv, NEW c \in Names
  PROVE  IsFiniteSet(Draws(c)) /\ DrawnFrom(c) \in Nat
<1>1. length[c] \in Nat /\ MaxPasses + 1 \in Int
  BY ShardFacts, ShardingAssumption DEF IInv
<1>2. IsFiniteSet(Lines(c)) /\ IsFiniteSet(1 .. (MaxPasses + 1))
  BY <1>1, FS_Interval DEF Lines
<1>3. IsFiniteSet(Lines(c) \X (1 .. (MaxPasses + 1)))
  BY <1>2, FS_Product
<1>4. Draws(c) \in SUBSET (Lines(c) \X (1 .. (MaxPasses + 1)))
  BY DEF Draws
<1>5. IsFiniteSet(Draws(c))
  BY <1>3, <1>4, FS_Subset
<1>6. QED  BY <1>5, FS_CardinalityType DEF DrawnFrom

LEMMA InitMixInv == Init => MixInv
<1> SUFFICES ASSUME Init PROVE MixInv
  OBVIOUS
<1>1. /\ turn = 1 /\ \A c \in Names : opened[c] = 1 /\ \A i \in Lines(c) : drawn[c][i] = 0
  BY DEF Init
<1>2. 1 \in 1 .. Len(Cycle) /\ MaxPasses \in Nat \ {0}
  BY CycleFacts, ShardingAssumption
<1>3. \A c \in Names : DrawnFrom(c) = 0 * Weight[c] + Before(c, 1)
  <2> SUFFICES ASSUME NEW c \in Names PROVE DrawnFrom(c) = 0 * Weight[c] + Before(c, 1)
    OBVIOUS
  <2>1. Draws(c) = {}
    BY <1>1 DEF Draws
  <2>2. DrawnFrom(c) = 0
    BY <2>1, FS_EmptySet DEF DrawnFrom
  <2>3. Weight[c] \in Nat
    BY ShardingAssumption DEF Names
  <2>4. QED  BY <1>2, <2>2, <2>3, BeforeFacts
<1>4. QED  BY <1>1, <1>2, <1>3 DEF MixInv, Init

(* A line that is drawn counts once more for its corpus, and for no other. *)
LEMMA YieldCounts ==
  ASSUME IInv, MixInv, IInv', status = "running",
         NEW c \in Names, NEW k \in 1 .. Len(Shard(c)), Yield(c, k),
         UNCHANGED <<length, loader, status>>,
         \A d \in Names : opened'[d] >= opened[d] /\ opened'[d] <= MaxPasses
  PROVE  /\ \A d \in Names : \A i \in Lines(d) : drawn'[d][i] <= opened'[d]
         /\ \A d \in Names : DrawnFrom(d)' = DrawnFrom(d) + (IF d = c THEN 1 ELSE 0)
<1> DEFINE line == Shard(c)[k]
<1>1. line \in Lines(c) /\ MaxPasses \in Nat
  BY ShardFacts, ShardingAssumption DEF IInv
<1>2. drawn' = [drawn EXCEPT ![c][line] = @ + 1]
  BY DEF Yield
<1>3. \A d \in Names : Shard(d)' = Shard(d) /\ Lines(d)' = Lines(d)
  BY SameShards
<1>4. /\ opened \in [Names -> Nat \ {0}] /\ opened' \in [Names -> Nat \ {0}]
      /\ DOMAIN drawn = Names /\ \A d \in Names : drawn[d] \in [Lines(d) -> Nat]
      /\ \A d \in Names : drawn'[d] \in [Lines(d) -> Nat]
  BY <1>3 DEF IInv
<1>5. drawn'[c][line] <= opened'[c]
  <2>1. drawn'[c][line] = Passes(c, k)' + 0
    BY <1>3 DEF IInv, DrawnInv, line
  <2>2. opened'[c] \in Nat
    BY <1>4
  <2>3. QED  BY <2>1, <2>2 DEF Passes
<1> HIDE DEF line
<1>6. /\ \A d \in Names \ {c} : drawn'[d] = drawn[d]
      /\ drawn'[c] = [drawn[c] EXCEPT ![line] = drawn[c][line] + 1]
  BY <1>2, <1>4
<1>7. drawn'[c][line] = drawn[c][line] + 1 /\ \A i \in Lines(c) \ {line} : drawn'[c][i] = drawn[c][i]
  BY <1>1, <1>4, <1>6
<1>8. ASSUME NEW d \in Names, NEW i \in Lines(d) PROVE drawn'[d][i] <= opened'[d]
  <2>1. CASE d = c /\ i = line
    BY <1>5, <2>1
  <2>2. CASE ~(d = c /\ i = line)
    <3>1. drawn'[d][i] = drawn[d][i]
      BY <1>6, <1>7, <2>2
    <3>2. drawn[d][i] <= opened[d] + 0 /\ drawn[d][i] \in Nat /\ opened[d] \in Nat /\ opened'[d] \in Nat
      BY <1>4 DEF MixInv
    <3>3. QED  BY <3>1, <3>2
  <2>3. QED  BY <2>1, <2>2
<1>9. ASSUME NEW d \in Names, d # c PROVE DrawnFrom(d)' = DrawnFrom(d)
  <2>1. Draws(d)' = Draws(d)
    BY <1>3, <1>6, <1>9 DEF Draws
  <2>2. QED  BY <2>1 DEF DrawnFrom
<1>10. DrawnFrom(c)' = DrawnFrom(c) + 1
  <2> DEFINE new == <<line, drawn[c][line] + 1>>
  <2>1. drawn[c][line] \in Nat /\ drawn[c][line] + 1 \in 1 .. (MaxPasses + 1)
    <3>1. drawn[c][line] \in Nat /\ drawn[c][line] <= opened[c] + 0 /\ opened[c] \in Nat /\ opened[c] <= MaxPasses
      BY <1>1, <1>4 DEF MixInv
    <3>2. QED  BY <1>1, <3>1
  <2>2. ASSUME NEW p \in Lines(c) \X (1 .. (MaxPasses + 1))
        PROVE  p[2] <= drawn'[c][p[1]] <=> p[2] <= drawn[c][p[1]] \/ p = new
    <3>1. p = <<p[1], p[2]>> /\ p[1] \in Lines(c) /\ p[2] \in Nat
      BY <1>1
    <3>2. CASE p[1] = line
      BY <1>7, <2>1, <3>1, <3>2
    <3>3. CASE p[1] # line
      BY <1>7, <3>1, <3>3
    <3>4. QED  BY <3>2, <3>3
  <2>3. new \in Lines(c) \X (1 .. (MaxPasses + 1))
    BY <1>1, <2>1
  <2>4. Draws(c)' = {p \in Lines(c) \X (1 .. (MaxPasses + 1)) : p[2] <= drawn'[c][p[1]]}
    BY <1>3 DEF Draws
  <2>5. Draws(c)' = Draws(c) \cup {new}
    <3> HIDE DEF new
    <3>1. QED  BY <2>2, <2>3, <2>4 DEF Draws
  <2>6. new \notin Draws(c)
    BY <2>1 DEF Draws
  <2>7. IsFiniteSet(Draws(c))
    BY DrawsFacts
  <2>8. QED
    <3> HIDE DEF new
    <3>1. Cardinality(Draws(c) \cup {new}) = Cardinality(Draws(c)) + 1
      BY <2>6, <2>7, FS_AddElement
    <3>2. QED  BY <2>5, <3>1 DEF DrawnFrom
<1>11. QED
  <2>1. \A d \in Names : DrawnFrom(d) \in Nat
    BY DrawsFacts
  <2>2. QED  BY <1>8, <1>9, <1>10, <2>1

(* A turn: the corpus whose turn it is has been drawn once more.           *)
LEMMA TurnKeepsMix ==
  ASSUME IInv, MixInv, status = "running", NEW c \in Names, c = Cycle[turn],
         turn' = TurnAfter(turn),
         \A d \in Names : DrawnFrom(d)' = DrawnFrom(d) + (IF d = c THEN 1 ELSE 0)
  PROVE  /\ turn' \in 1 .. Len(Cycle)
         /\ \E n \in Nat : \A d \in Names : DrawnFrom(d)' = n * Weight[d] + Before(d, turn')
<1>1. turn \in 1 .. Len(Cycle) /\ Len(Cycle) \in Nat \ {0}
  BY CycleFacts DEF MixInv
<1>2. PICK n \in Nat : \A d \in Names : DrawnFrom(d) = n * Weight[d] + Before(d, turn)
  BY DEF MixInv
<1>3. \A d \in Names : /\ Weight[d] \in Nat /\ Before(d, turn) \in Nat
                       /\ Before(d, turn + 1) = Before(d, turn) + (IF d = c THEN 1 ELSE 0)
  <2>1. \A d \in Names : Weight[d] \in Nat
    BY ShardingAssumption DEF Names
  <2>2. QED  BY <1>1, <2>1, BeforeFacts
<1>4. \A d \in Names : n * Weight[d] \in Nat
  BY <1>3
<1>5. \A d \in Names : DrawnFrom(d)' = n * Weight[d] + Before(d, turn + 1)
  <2> SUFFICES ASSUME NEW d \in Names
               PROVE  DrawnFrom(d)' = n * Weight[d] + Before(d, turn + 1)
    OBVIOUS
  <2>1. DrawnFrom(d)' = DrawnFrom(d) + (IF d = c THEN 1 ELSE 0)
    OBVIOUS
  <2>2. QED  BY <1>2, <1>3, <1>4, <2>1
<1>6. CASE turn # Len(Cycle)
  <2>1. turn' = turn + 1 /\ turn' \in 1 .. Len(Cycle)
    BY <1>1, <1>6 DEF TurnAfter
  <2>2. QED  BY <1>5, <2>1
<1>7. CASE turn = Len(Cycle)
  <2>1. turn' = 1 /\ turn' \in 1 .. Len(Cycle)
    BY <1>1, <1>7 DEF TurnAfter
  <2>2. \A d \in Names : Before(d, turn + 1) = Weight[d] /\ Before(d, 1) = 0
    BY <1>1, <1>7, CycleFacts, BeforeFacts
  <2>3. \A d \in Names : DrawnFrom(d)' = (n + 1) * Weight[d] + Before(d, turn')
    <3> SUFFICES ASSUME NEW d \in Names
                 PROVE  DrawnFrom(d)' = (n + 1) * Weight[d] + Before(d, turn')
      OBVIOUS
    <3>1. DrawnFrom(d)' = n * Weight[d] + Weight[d] /\ Before(d, turn') = 0
      BY <1>5, <2>1, <2>2
    <3>2. (n + 1) * Weight[d] = n * Weight[d] + Weight[d] /\ n * Weight[d] \in Nat /\ Weight[d] \in Nat
      BY <1>3
    <3>3. QED  BY <3>1, <3>2
  <2>4. QED  BY <2>1, <2>3
<1>8. QED  BY <1>6, <1>7

LEMMA NextMixInv ==
  ASSUME IInv, MixInv, IInv', [Next]_vars
  PROVE  MixInv'
<1>1. /\ opened \in [Names -> Nat \ {0}] /\ opened' \in [Names -> Nat \ {0}]
      /\ position \in [Names -> Nat]
      /\ \A d \in Names : Len(Shard(d)) \in Nat /\ position[d] <= Len(Shard(d))
      /\ MaxPasses \in Nat
  BY ShardFacts, ShardingAssumption DEF IInv
<1>2. /\ turn \in 1 .. Len(Cycle) /\ \A d \in Names : opened[d] <= MaxPasses
  BY DEF MixInv
<1>3. Cycle' = Cycle
  BY DEF Cycle
<1>4. ASSUME NEW c \in Names, Draw(c) \/ Reopen(c) PROVE MixInv'
  <2>1. /\ status = "running" /\ c = Cycle[turn] /\ turn' = TurnAfter(turn)
        /\ UNCHANGED <<length, loader, status>>
    BY <1>4 DEF Draw, Reopen, Reopening
  <2>2. \A d \in Names : opened'[d] >= opened[d] /\ opened'[d] <= MaxPasses
    <3>1. CASE Draw(c)
      BY <1>1, <1>2, <3>1 DEF Draw
    <3>2. CASE Reopen(c)
      <4>1. opened' = [opened EXCEPT ![c] = opened[c] + 1] /\ opened[c] < MaxPasses
        BY <3>2 DEF Reopen, Reopening
      <4>2. QED  BY <1>1, <1>2, <4>1
    <3>3. QED  BY <1>4, <3>1, <3>2
  <2>3. PICK k \in 1 .. Len(Shard(c)) : Yield(c, k)
    <3>1. CASE Draw(c)
      <4>1. position[c] + 1 \in 1 .. Len(Shard(c)) /\ Yield(c, position[c] + 1)
        BY <1>1, <3>1 DEF Draw
      <4>2. QED  BY <4>1
    <3>2. CASE Reopen(c)
      <4>1. 1 \in 1 .. Len(Shard(c)) /\ Yield(c, 1)
        <5>1. Shard(c) # <<>> /\ Yield(c, 1) /\ Shard(c) \in Seq(Nat)
          BY <3>2, ShardFacts DEF Reopen, IInv
        <5>2. QED  BY <5>1
      <4>2. QED  BY <4>1
    <3>3. QED  BY <1>4, <3>1, <3>2
  <2>4. /\ \A d \in Names : \A i \in Lines(d) : drawn'[d][i] <= opened'[d]
        /\ \A d \in Names : DrawnFrom(d)' = DrawnFrom(d) + (IF d = c THEN 1 ELSE 0)
    BY <2>1, <2>2, <2>3, YieldCounts
  <2>5. /\ turn' \in 1 .. Len(Cycle)
        /\ \E n \in Nat : \A d \in Names : DrawnFrom(d)' = n * Weight[d] + Before(d, turn')
    BY <2>1, <2>4, TurnKeepsMix
  <2>6. \A d \in Names : Before(d, turn)' = Before(d, turn')
    BY <1>3 DEF Before, Places
  <2>7. \A d \in Names : Lines(d)' = Lines(d) /\ opened'[d] \in Nat
    BY <1>1, <2>1, SameShards
  <2>8. QED  BY <1>3, <2>1, <2>2, <2>4, <2>5, <2>6, <2>7 DEF MixInv
<1>5. ASSUME NEW c \in Names, ReopenEmpty(c) PROVE MixInv'
  <2>1. /\ status = "running" /\ status' # "running" /\ turn' = turn
        /\ opened' = [opened EXCEPT ![c] = opened[c] + 1] /\ opened[c] < MaxPasses
        /\ UNCHANGED <<length, loader>>
    BY <1>5 DEF ReopenEmpty, Reopening
  <2>2. \A d \in Names : opened'[d] >= opened[d] /\ opened'[d] <= MaxPasses
    BY <1>1, <1>2, <2>1
  <2>3. \A d \in Names : Lines(d)' = Lines(d)
    BY <2>1, SameShards
  <2>4. ASSUME NEW d \in Names, NEW i \in Lines(d) PROVE drawn'[d][i] <= opened'[d] + 1
    <3>1. drawn[d][i] \in Nat /\ drawn[d][i] <= opened[d] + 0 /\ opened[d] \in Nat /\ opened'[d] \in Nat
      BY <1>1, <2>1 DEF IInv, MixInv
    <3>2. drawn'[d][i] = drawn[d][i] \/ drawn'[d][i] = drawn[d][i] + 1
      <4>1. drawn' = drawn \/ (item # NoItem /\ drawn' = [drawn EXCEPT ![item.corpus][item.line] = @ + 1])
        BY <1>5 DEF ReopenEmpty
      <4> DEFINE b == item.corpus
                 line == item.line
      <4>2. CASE drawn' = drawn
        BY <4>2
      <4>3. CASE item # NoItem /\ drawn' = [drawn EXCEPT ![b][line] = @ + 1]
        <5>1. b \in Names /\ line \in Lines(b) /\ DOMAIN drawn = Names /\ drawn[b] \in [Lines(b) -> Nat]
          BY <4>3 DEF IInv, ItemInv
        <5> HIDE DEF b, line
        <5>2. drawn'[d] = IF d = b THEN [drawn[b] EXCEPT ![line] = drawn[b][line] + 1] ELSE drawn[d]
          BY <4>3, <5>1
        <5>3. QED  BY <5>1, <5>2
      <4>4. QED  BY <4>1, <4>2, <4>3
    <3>3. QED  BY <2>2, <3>1, <3>2
  <2>5. QED  BY <1>2, <1>3, <2>1, <2>2, <2>3, <2>4 DEF MixInv
<1>6. ASSUME Raised \/ UNCHANGED vars PROVE MixInv'
  <2>1. /\ UNCHANGED <<length, loader, turn, opened, drawn>>
        /\ status' = status \/ (status # "running" /\ status' # "running")
    BY <1>6 DEF Raised, vars
  <2>2. \A d \in Names : Lines(d)' = Lines(d)
    BY <2>1, SameShards
  <2>3. \A d \in Names : DrawnFrom(d)' = DrawnFrom(d) /\ Before(d, turn)' = Before(d, turn)
    BY <1>3, <2>1, <2>2 DEF DrawnFrom, Draws, Before, Places
  <2>4. QED  BY <1>3, <2>1, <2>2, <2>3 DEF MixInv
<1>7. QED  BY <1>4, <1>5, <1>6 DEF Next

(* However short the corpora are, after any number of draws each has been  *)
(* drawn its weight times in every whole cycle; its passes are whole, and   *)
(* the mixer stops only for an empty one (WeightedMixer).                  *)
THEOREM MixCorrect == Spec => []CorporaAreMixed
<1>1. IInv /\ MixInv => TypeOK /\ MixFollowsWeights
  <2> SUFFICES ASSUME IInv, MixInv PROVE TypeOK /\ MixFollowsWeights
    OBVIOUS
  <2>1. /\ \A c \in Names : Len(Shard(c)) \in Nat /\ position[c] \in 0 .. Len(Shard(c))
        /\ opened \in [Names -> 1 .. MaxPasses]
    <3>1. /\ \A c \in Names : Len(Shard(c)) \in Nat
          /\ position \in [Names -> Nat] /\ \A c \in Names : position[c] <= Len(Shard(c))
      BY ShardFacts DEF IInv
    <3>2. /\ opened \in [Names -> Nat \ {0}] /\ MaxPasses \in Nat
          /\ \A c \in Names : opened[c] <= MaxPasses
      BY ShardingAssumption DEF IInv, MixInv
    <3>3. \A c \in Names : opened[c] \in 1 .. MaxPasses
      BY <3>2
    <3>4. QED  BY <3>1, <3>2, <3>3
  <2>2. \A c \in Names : drawn[c] \in [Lines(c) -> 0 .. (MaxPasses + 1)]
    <3> SUFFICES ASSUME NEW c \in Names PROVE drawn[c] \in [Lines(c) -> 0 .. (MaxPasses + 1)]
      OBVIOUS
    <3>1. drawn[c] \in [Lines(c) -> Nat]
      BY DEF IInv
    <3>2. \A i \in Lines(c) : drawn[c][i] <= opened[c] + (IF status = "running" THEN 0 ELSE 1)
      BY DEF MixInv
    <3>3. opened[c] \in Nat /\ opened[c] <= MaxPasses /\ MaxPasses \in Nat
      BY <2>1, ShardingAssumption
    <3>4. \A i \in Lines(c) : drawn[c][i] \in 0 .. (MaxPasses + 1)
      BY <3>1, <3>2, <3>3
    <3>5. QED  BY <3>1, <3>4
  <2>3. turn \in DOMAIN Cycle
    BY CycleFacts DEF MixInv
  <2>4. TypeOK
    BY <2>1, <2>2, <2>3 DEF TypeOK, IInv, ItemInv
  <2>5. ASSUME status = "running"
        PROVE  \E n \in 0 .. DrawnFrom(Corpora[1]) : \A c \in Names :
                 DrawnFrom(c) \in (n * Weight[c]) .. ((n + 1) * Weight[c])
    <3>1. PICK n \in Nat : \A c \in Names : DrawnFrom(c) = n * Weight[c] + Before(c, turn)
      BY <2>5 DEF MixInv
    <3>2. \A c \in Names : /\ Weight[c] \in Nat \ {0}
                           /\ Before(c, turn) \in Nat /\ Before(c, turn) <= Weight[c]
      <4>1. \A c \in Names : Weight[c] \in Nat \ {0}
        BY ShardingAssumption DEF Names
      <4>2. QED  BY <4>1, BeforeFacts DEF MixInv
    <3>3. \A c \in Names : /\ n * Weight[c] \in Nat /\ n <= n * Weight[c]
                           /\ (n + 1) * Weight[c] = n * Weight[c] + Weight[c]
      <4> SUFFICES ASSUME NEW c \in Names
                   PROVE  /\ n * Weight[c] \in Nat /\ n <= n * Weight[c]
                          /\ (n + 1) * Weight[c] = n * Weight[c] + Weight[c]
        OBVIOUS
      <4>1. PICK w \in Nat : Weight[c] = w + 1
        BY <3>2
      <4>2. n * (w + 1) = n * w + n /\ n * w \in Nat
        OBVIOUS
      <4>3. QED  BY <4>1, <4>2
    <3>4. \A c \in Names : DrawnFrom(c) \in (n * Weight[c]) .. ((n + 1) * Weight[c]) /\ n <= DrawnFrom(c)
      <4> SUFFICES ASSUME NEW c \in Names
                   PROVE  DrawnFrom(c) \in (n * Weight[c]) .. ((n + 1) * Weight[c]) /\ n <= DrawnFrom(c)
        OBVIOUS
      <4>1. DrawnFrom(c) = n * Weight[c] + Before(c, turn)
        BY <3>1
      <4>2. QED  BY <3>2, <3>3, <4>1
    <3>5. Corpora[1] \in Names
      BY ShardingAssumption DEF Names
    <3>6. DrawnFrom(Corpora[1]) \in Nat /\ n \in 0 .. DrawnFrom(Corpora[1])
      BY <3>4, <3>5, DrawsFacts
    <3>7. QED  BY <3>4, <3>6
  <2>6. QED  BY <2>4, <2>5 DEF MixFollowsWeights
<1>2. IInv /\ MixInv /\ IInv' /\ [Next]_vars => MixInv'
  BY NextMixInv
<1>3. Spec => []MixInv
  BY <1>2, Invariant, InitMixInv, PTL DEF Spec
<1>4. QED  BY <1>1, <1>3, Invariant, PassesCorrect, StopCorrect, PTL DEF CorporaAreMixed

------------------------------------------------------------------------------
(* SortedBy.                                                               *)
Preceding(s, key, i) ==
    {j \in DOMAIN s : key[j] < key[i] \/ (key[j] = key[i] /\ j < i)}

(* Every element is in the sorted list, in one place: place says where     *)
(* each one was.                                                           *)
IsShuffle(place, s, r) ==
    /\ Len(r) = Len(s)
    /\ place \in [1 .. Len(s) -> 1 .. Len(s)]
    /\ \A k \in 1 .. Len(s) : r[k] = s[place[k]]
    /\ \A k, l \in 1 .. Len(s) : place[k] = place[l] => k = l
    /\ \A i \in 1 .. Len(s) : \E k \in 1 .. Len(s) : place[k] = i

LEMMA Intervals ==
  ASSUME NEW n \in Nat
  PROVE  /\ IsFiniteSet(1 .. n) /\ Cardinality(1 .. n) = n
         /\ IsFiniteSet(0 .. n - 1) /\ Cardinality(0 .. n - 1) = n
<1>1. IsFiniteSet(1 .. n) /\ Cardinality(1 .. n) = n
  <2>1. /\ IsFiniteSet(1 .. n)
        /\ Cardinality(1 .. n) = IF 1 > n THEN 0 ELSE n - 1 + 1
    BY FS_Interval
  <2>2. QED  BY <2>1
<1>2. IsFiniteSet(0 .. n - 1) /\ Cardinality(0 .. n - 1) = n
  <2>1. n - 1 \in Int /\ 0 \in Int
    OBVIOUS
  <2>2. /\ IsFiniteSet(0 .. n - 1)
        /\ Cardinality(0 .. n - 1) = IF 0 > n - 1 THEN 0 ELSE (n - 1) - 0 + 1
    BY <2>1, FS_Interval
  <2>3. QED  BY <2>2
<1>3. QED  BY <1>1, <1>2

LEMMA RankFacts ==
  ASSUME NEW T, NEW s \in Seq(T), NEW key \in [1 .. Len(s) -> Int],
         NEW i \in 1 .. Len(s)
  PROVE  /\ IsFiniteSet(Preceding(s, key, i))
         /\ Cardinality(Preceding(s, key, i)) \in 0 .. Len(s) - 1
         /\ \A j \in 1 .. Len(s) :
              i \in Preceding(s, key, j) =>
                Cardinality(Preceding(s, key, i)) < Cardinality(Preceding(s, key, j))
<1> DEFINE n == Len(s)
           P(j) == Preceding(s, key, j)
<1>1. n \in Nat /\ DOMAIN s = 1 .. n
  OBVIOUS
<1>2. IsFiniteSet(1 .. n) /\ Cardinality(1 .. n) = n
  BY <1>1, FS_Interval
<1>3. ASSUME NEW j \in 1 .. n
      PROVE  P(j) \subseteq 1 .. n /\ j \notin P(j)
  BY <1>1 DEF Preceding
<1>4. ASSUME NEW j \in 1 .. n
      PROVE  IsFiniteSet(P(j)) /\ Cardinality(P(j)) \in Nat
  BY <1>2, <1>3, FS_Subset, FS_CardinalityType
<1>5. ASSUME NEW S, S \subseteq 1 .. n, P(i) \cup {i} \subseteq S
      PROVE  Cardinality(P(i)) < Cardinality(S)
  <2>1. IsFiniteSet(S) /\ Cardinality(S) \in Nat
    BY <1>2, <1>5, FS_Subset, FS_CardinalityType
  <2>2. Cardinality(P(i) \cup {i}) = Cardinality(P(i)) + 1
    BY <1>3, <1>4, FS_AddElement
  <2>3. Cardinality(P(i) \cup {i}) <= Cardinality(S)
    BY <1>5, <2>1, FS_Subset
  <2>4. QED  BY <1>4, <2>1, <2>2, <2>3
<1>6. Cardinality(P(i)) \in 0 .. n - 1
  <2>1. Cardinality(P(i)) < n
    BY <1>2, <1>3, <1>5
  <2>2. QED  BY <1>1, <1>4, <2>1
<1>7. ASSUME NEW j \in 1 .. n, i \in P(j)
      PROVE  Cardinality(P(i)) < Cardinality(P(j))
  <2>1. key[i] \in Int /\ key[j] \in Int
    OBVIOUS
  <2>2. key[i] < key[j] \/ (key[i] = key[j] /\ i < j)
    BY <1>7 DEF Preceding
  <2>3. ASSUME NEW x \in P(i) PROVE x \in P(j)
    <3>1. x \in 1 .. n /\ key[x] \in Int
      BY <1>3, <2>3
    <3>2. key[x] < key[i] \/ (key[x] = key[i] /\ x < i)
      BY <2>3 DEF Preceding
    <3>3. key[x] < key[j] \/ (key[x] = key[j] /\ x < j)
      BY <1>1, <2>1, <2>2, <3>1, <3>2
    <3>4. QED  BY <1>1, <3>1, <3>3 DEF Preceding
  <2>4. P(i) \cup {i} \subseteq P(j)
    BY <1>7, <2>3
  <2>5. QED  BY <1>3, <1>5, <2>4
<1>8. QED  BY <1>4, <1>6, <1>7

LEMMA SortedByPlaces ==
  ASSUME NEW T, NEW s \in Seq(T), NEW key \in [1 .. Len(s) -> Int]
  PROVE  /\ SortedBy(s, key) \in Seq(T)
         /\ \E place :
              /\ IsShuffle(place, s, SortedBy(s, key))
              /\ \A k \in 1 .. Len(s) :
                   Cardinality(Preceding(s, key, place[k])) = k - 1
<1> DEFINE n == Len(s)
           rank == [i \in 1 .. n |-> Cardinality(Preceding(s, key, i))]
           place == [k \in 1 .. n |-> CHOOSE i \in 1 .. n : rank[i] = k - 1]
           r == SortedBy(s, key)
<1>1. n \in Nat /\ DOMAIN s = 1 .. n
  OBVIOUS
<1>2. rank \in [1 .. n -> 0 .. n - 1]
  BY RankFacts
<1>3. ASSUME NEW i \in 1 .. n, NEW j \in 1 .. n, rank[i] = rank[j]
      PROVE  i = j
  <2> SUFFICES ASSUME i # j PROVE FALSE
    OBVIOUS
  <2>1. key[i] \in Int /\ key[j] \in Int
    OBVIOUS
  <2>2. i \in Preceding(s, key, j) \/ j \in Preceding(s, key, i)
    BY <1>1, <2>1 DEF Preceding
  <2>3. rank[i] < rank[j] \/ rank[j] < rank[i]
    BY <2>2, RankFacts
  <2>4. rank[i] \in Int /\ rank[j] \in Int
    BY <1>2
  <2> HIDE DEF rank
  <2>5. QED  BY <1>3, <2>3, <2>4
<1>4. \A m \in 0 .. n - 1 : \E i \in 1 .. n : rank[i] = m
  <2>1. rank \in Injection(1 .. n, 0 .. n - 1)
    BY <1>2, <1>3, Fun_IsInj
  <2>2. /\ IsFiniteSet(0 .. n - 1)
        /\ Cardinality(1 .. n) = n /\ Cardinality(0 .. n - 1) = n
    BY <1>1, Intervals
  <2>3. rank \in Surjection(1 .. n, 0 .. n - 1)
    BY <2>1, <2>2, FS_Injection
  <2> HIDE DEF rank
  <2>4. QED  BY <2>3 DEF Surjection
<1>5. ASSUME NEW k \in 1 .. n
      PROVE  place[k] \in 1 .. n /\ rank[place[k]] = k - 1 /\ r[k] = s[place[k]]
  <2>1. \E i \in 1 .. n : rank[i] = k - 1
    BY <1>1, <1>4
  <2>2. place[k] \in 1 .. n /\ rank[place[k]] = k - 1
    BY <2>1
  <2>3. r[k] = s[CHOOSE i \in 1 .. n : Cardinality(Preceding(s, key, i)) = k - 1]
    BY <1>1 DEF SortedBy, Preceding
  <2>4. (CHOOSE i \in 1 .. n : Cardinality(Preceding(s, key, i)) = k - 1) = place[k]
    OBVIOUS
  <2>5. QED  BY <2>2, <2>3, <2>4
<1>6. r = [k \in 1 .. n |-> s[place[k]]]
  BY <1>1, <1>5 DEF SortedBy
<1>7. place \in [1 .. n -> 1 .. n]
  BY <1>5
<1>8. r \in Seq(T) /\ Len(r) = n
  <2> HIDE DEF r, place
  <2>1. r \in [1 .. n -> T]
    BY <1>6, <1>7
  <2>2. QED  BY <1>1, <2>1
<1>9. ASSUME NEW k \in 1 .. n, NEW l \in 1 .. n, place[k] = place[l]
      PROVE  k = l
  <2> HIDE DEF place, rank
  <2>1. rank[place[k]] = k - 1 /\ rank[place[l]] = l - 1
    BY <1>5
  <2>2. QED  BY <1>1, <1>9, <2>1
<1>10. ASSUME NEW i \in 1 .. n PROVE \E k \in 1 .. n : place[k] = i
  <2>1. rank[i] \in 0 .. n - 1
    BY <1>2
  <2> DEFINE k == rank[i] + 1
  <2>2. k \in 1 .. n /\ k - 1 = rank[i]
    BY <1>1, <2>1
  <2>3. place[k] \in 1 .. n /\ rank[place[k]] = rank[i]
    BY <1>5, <2>2
  <2>4. place[k] = i
    BY <1>3, <2>3
  <2>5. QED  BY <2>2, <2>4
<1>11. \A k \in 1 .. n : Cardinality(Preceding(s, key, place[k])) = k - 1
  BY <1>5
<1> HIDE DEF place, r, n
<1>12. IsShuffle(place, s, r)
  BY <1>5, <1>7, <1>8, <1>9, <1>10 DEF IsShuffle, n
<1>13. QED  BY <1>8, <1>11, <1>12 DEF r, n

(* If the keys are 0 to n - 1, the element with key k - 1 comes in place k. *)
Numbers(key, n) ==
    key \in [1 .. n -> 0 .. n - 1] /\ \A i, j \in 1 .. n : key[i] = key[j] => i = j

LEMMA SortedByRank ==
  ASSUME NEW T, NEW s \in Seq(T), NEW key, Numbers(key, Len(s))
  PROVE  \A k \in 1 .. Len(s) :
           \E i \in 1 .. Len(s) : key[i] = k - 1 /\ SortedBy(s, key)[k] = s[i]
<1> USE DEF Numbers
<1> DEFINE n == Len(s)
<1>1. n \in Nat /\ DOMAIN s = 1 .. n /\ key \in [1 .. n -> Int]
  OBVIOUS
<1>2. PICK place : /\ IsShuffle(place, s, SortedBy(s, key))
                   /\ \A k \in 1 .. n : Cardinality(Preceding(s, key, place[k])) = k - 1
  BY <1>1, SortedByPlaces
<1>3. key \in Surjection(1 .. n, 0 .. n - 1)
  <2>1. key \in Injection(1 .. n, 0 .. n - 1)
    BY Fun_IsInj
  <2>2. /\ IsFiniteSet(0 .. n - 1)
        /\ Cardinality(1 .. n) = n /\ Cardinality(0 .. n - 1) = n
    BY <1>1, Intervals
  <2>3. QED  BY <2>1, <2>2, FS_Injection
<1>4. \A m \in 0 .. n - 1 : \E i \in 1 .. n : key[i] = m
  BY <1>3 DEF Surjection
<1>5. ASSUME NEW i \in 1 .. n PROVE Cardinality(Preceding(s, key, i)) = key[i]
  <2> DEFINE B == Preceding(s, key, i)
             f == [j \in B |-> key[j]]
  <2>1. \A j \in 1 .. n : j \in B <=> key[j] < key[i]
    BY <1>1 DEF Preceding
  <2>2. B \subseteq 1 .. n
    BY <1>1 DEF Preceding
  <2> HIDE DEF B
  <2>3. f \in [B -> 0 .. key[i] - 1]
    BY <1>1, <2>1, <2>2
  <2>4. f \in Injection(B, 0 .. key[i] - 1)
    BY <2>2, <2>3, Fun_IsInj
  <2>5. \A m \in 0 .. key[i] - 1 : \E j \in B : f[j] = m
    <3> SUFFICES ASSUME NEW m \in 0 .. key[i] - 1 PROVE \E j \in B : f[j] = m
      OBVIOUS
    <3>1. m \in 0 .. n - 1 /\ m < key[i]
      BY <1>1
    <3>2. PICK j \in 1 .. n : key[j] = m
      BY <1>4, <3>1
    <3>3. QED  BY <2>1, <3>1, <3>2
  <2>6. f \in Surjection(B, 0 .. key[i] - 1)
    BY <2>3, <2>5, Fun_IsSurj
  <2>7. key[i] \in Nat
    BY <1>1
  <2>8. IsFiniteSet(0 .. key[i] - 1) /\ Cardinality(0 .. key[i] - 1) = key[i]
    BY <2>7, Intervals
  <2>9. Cardinality(B) = key[i]
    BY <2>4, <2>6, <2>8, FS_Injection
  <2>10. QED  BY <2>9 DEF B
<1>6. ASSUME NEW k \in 1 .. n
      PROVE  /\ place[k] \in 1 .. n /\ key[place[k]] = k - 1
             /\ SortedBy(s, key)[k] = s[place[k]]
  <2>1. place[k] \in 1 .. n /\ SortedBy(s, key)[k] = s[place[k]]
    BY <1>2 DEF IsShuffle
  <2>2. QED  BY <1>2, <1>5, <2>1
<1>7. QED  BY <1>6

------------------------------------------------------------------------------
(* The examples of a list of items and of a list of batches, and lists in  *)
(* which no example comes twice.                                           *)
Ex(s) == {s[k].example : k \in DOMAIN s}
Exs(f) == UNION {Ex(f[k]) : k \in DOMAIN f}
Apart(s) == \A i, j \in DOMAIN s : s[i].example = s[j].example => i = j
AllApart(f) ==
    /\ \A k \in DOMAIN f : Apart(f[k])
    /\ \A k, l \in DOMAIN f : k # l => Ex(f[k]) \cap Ex(f[l]) = {}

LEMMA EmptyEx ==
  /\ Ex(<<>>) = {} /\ Exs(<<>>) = {} /\ Apart(<<>>) /\ AllApart(<<>>)
BY DEF Ex, Exs, Apart, AllApart

LEMMA TailEx ==
  ASSUME NEW T, NEW s \in Seq(T), s # <<>>
  PROVE  /\ Tail(s) \in Seq(T) /\ Head(s) \in T
         /\ Ex(s) = {Head(s).example} \cup Ex(Tail(s))
         /\ Apart(s) => Apart(Tail(s)) /\ Head(s).example \notin Ex(Tail(s))
<1> DEFINE n == Len(s)
           t == Tail(s)
<1>1. n \in Nat \ {0} /\ DOMAIN s = 1 .. n /\ Head(s) = s[1]
  OBVIOUS
<1>2. t \in Seq(T) /\ Head(s) \in T /\ DOMAIN t = 1 .. n - 1
  OBVIOUS
<1>3. \A k \in 1 .. n - 1 : t[k] = s[k + 1] /\ k + 1 \in 1 .. n
  OBVIOUS
<1> HIDE DEF n, t
<1>4. ASSUME NEW k \in 1 .. n, k # 1 PROVE k - 1 \in 1 .. n - 1 /\ t[k - 1] = s[k]
  <2>1. k - 1 \in 1 .. n - 1 /\ (k - 1) + 1 = k
    BY <1>1, <1>4
  <2>2. QED  BY <1>3, <2>1
<1>5. Ex(s) = {Head(s).example} \cup Ex(t)
  <2>1. ASSUME NEW k \in 1 .. n
        PROVE  s[k].example \in {s[1].example} \cup Ex(t)
    <3>1. CASE k = 1
      BY <3>1
    <3>2. CASE k # 1
      BY <1>2, <1>4, <3>2 DEF Ex
    <3>3. QED  BY <3>1, <3>2
  <2>2. ASSUME NEW k \in 1 .. n - 1 PROVE t[k].example \in Ex(s)
    BY <1>1, <1>3 DEF Ex
  <2>3. s[1].example \in Ex(s)
    <3>1. 1 \in 1 .. n
      BY <1>1
    <3>2. QED  BY <1>1, <3>1 DEF Ex
  <2>4. QED  BY <1>1, <1>2, <2>1, <2>2, <2>3 DEF Ex
<1>6. ASSUME Apart(s) PROVE Apart(t) /\ Head(s).example \notin Ex(t)
  <2>1. \A i, j \in 1 .. n : s[i].example = s[j].example => i = j
    BY <1>1, <1>6 DEF Apart
  <2>2. ASSUME NEW i \in 1 .. n - 1, NEW j \in 1 .. n - 1,
               t[i].example = t[j].example
        PROVE  i = j
    <3>1. i + 1 = j + 1
      BY <1>3, <2>1, <2>2
    <3>2. QED  BY <3>1
  <2>3. ASSUME NEW k \in 1 .. n - 1, t[k].example = s[1].example PROVE FALSE
    <3>1. k + 1 = 1
      BY <1>1, <1>3, <2>1, <2>3
    <3>2. QED  BY <3>1
  <2>4. QED  BY <1>1, <1>2, <2>2, <2>3 DEF Apart, Ex
<1>7. QED  BY <1>2, <1>5, <1>6 DEF t

LEMMA ConcatEx ==
  ASSUME NEW T, NEW a \in Seq(T), NEW b \in Seq(T)
  PROVE  /\ a \o b \in Seq(T) /\ Len(a \o b) = Len(a) + Len(b)
         /\ Ex(a \o b) = Ex(a) \cup Ex(b)
         /\ Apart(a \o b) <=> Apart(a) /\ Apart(b) /\ Ex(a) \cap Ex(b) = {}
<1> DEFINE m == Len(a)
           n == Len(b)
           c == a \o b
<1>1. /\ m \in Nat /\ n \in Nat /\ c \in Seq(T) /\ Len(c) = m + n
      /\ DOMAIN a = 1 .. m /\ DOMAIN b = 1 .. n /\ DOMAIN c = 1 .. m + n
  OBVIOUS
<1>2. \A p \in 1 .. m : p \in 1 .. m + n /\ c[p] = a[p]
  BY <1>1, ConcatFacts
<1>3. \A p \in 1 .. n : p + m \in 1 .. m + n /\ c[p + m] = b[p]
  <2> SUFFICES ASSUME NEW p \in 1 .. n PROVE p + m \in 1 .. m + n /\ c[p + m] = b[p]
    OBVIOUS
  <2>1. p + m \in m + 1 .. m + n /\ (p + m) - m = p
    BY <1>1
  <2>2. QED  BY <1>1, <2>1, ConcatFacts
<1>4. \A p \in 1 .. m + n : p \in 1 .. m \/ (p - m \in 1 .. n /\ (p - m) + m = p)
  BY <1>1
<1> HIDE DEF m, n, c
<1>5. Ex(c) = Ex(a) \cup Ex(b)
  <2>1. ASSUME NEW p \in 1 .. m + n PROVE c[p].example \in Ex(a) \cup Ex(b)
    <3>1. CASE p \in 1 .. m
      BY <1>1, <1>2, <3>1 DEF Ex
    <3>2. CASE p - m \in 1 .. n /\ (p - m) + m = p
      <4>1. c[p] = b[p - m]
        BY <1>3, <3>2
      <4>2. QED  BY <1>1, <3>2, <4>1 DEF Ex
    <3>3. QED  BY <1>4, <3>1, <3>2
  <2>2. ASSUME NEW p \in 1 .. m PROVE a[p].example \in Ex(c)
    BY <1>1, <1>2 DEF Ex
  <2>3. ASSUME NEW p \in 1 .. n PROVE b[p].example \in Ex(c)
    BY <1>1, <1>3 DEF Ex
  <2>4. QED  BY <1>1, <2>1, <2>2, <2>3 DEF Ex
<1>6. ASSUME Apart(c) PROVE Apart(a) /\ Apart(b) /\ Ex(a) \cap Ex(b) = {}
  <2>1. \A i, j \in 1 .. m + n : c[i].example = c[j].example => i = j
    BY <1>1, <1>6 DEF Apart
  <2>2. Apart(a)
    BY <1>1, <1>2, <2>1 DEF Apart
  <2>3. ASSUME NEW i \in 1 .. n, NEW j \in 1 .. n, b[i].example = b[j].example
        PROVE  i = j
    <3>1. i + m = j + m
      BY <1>3, <2>1, <2>3
    <3>2. QED  BY <1>1, <3>1
  <2>4. ASSUME NEW i \in 1 .. m, NEW j \in 1 .. n, a[i].example = b[j].example
        PROVE  FALSE
    <3>1. i = j + m
      BY <1>2, <1>3, <2>1, <2>4
    <3>2. QED  BY <1>1, <3>1
  <2>5. QED  BY <1>1, <2>2, <2>3, <2>4 DEF Apart, Ex
<1>7. ASSUME Apart(a), Apart(b), Ex(a) \cap Ex(b) = {} PROVE Apart(c)
  <2> SUFFICES ASSUME NEW i \in 1 .. m + n, NEW j \in 1 .. m + n,
                      c[i].example = c[j].example
               PROVE  i = j
    BY <1>1 DEF Apart
  <2>1. CASE i \in 1 .. m /\ j \in 1 .. m
    BY <1>1, <1>2, <1>7, <2>1 DEF Apart
  <2>2. CASE i - m \in 1 .. n /\ j - m \in 1 .. n
    <3>0. (i - m) + m = i /\ (j - m) + m = j
      BY <1>1
    <3>1. b[i - m].example = b[j - m].example
      BY <1>3, <2>2, <3>0
    <3>2. i - m = j - m
      BY <1>1, <1>7, <2>2, <3>1 DEF Apart
    <3>3. QED  BY <1>1, <3>2
  <2>3. ASSUME NEW p \in 1 .. m, NEW q \in 1 .. n, a[p].example = b[q].example
        PROVE  FALSE
    BY <1>1, <1>7, <2>3 DEF Ex
  <2>4. CASE i \in 1 .. m /\ j - m \in 1 .. n /\ (j - m) + m = j
    <3>1. c[j] = b[j - m] /\ c[i] = a[i]
      BY <1>2, <1>3, <2>4
    <3>2. QED  BY <2>3, <2>4, <3>1
  <2>5. CASE j \in 1 .. m /\ i - m \in 1 .. n /\ (i - m) + m = i
    <3>1. c[i] = b[i - m] /\ c[j] = a[j]
      BY <1>2, <1>3, <2>5
    <3>2. QED  BY <2>3, <2>5, <3>1
  <2>6. QED  BY <1>4, <2>1, <2>2, <2>4, <2>5
<1>8. QED  BY <1>1, <1>5, <1>6, <1>7 DEF c, m, n

LEMMA AppendEx ==
  ASSUME NEW T, NEW s \in Seq(T), NEW x \in T
  PROVE  /\ Append(s, x) \in Seq(T) /\ Append(s, x) # <<>>
         /\ Ex(Append(s, x)) = Ex(s) \cup {x.example}
         /\ Apart(Append(s, x)) <=> Apart(s) /\ x.example \notin Ex(s)
<1>1. Append(s, x) = s \o <<x>> /\ <<x>> \in Seq(T)
  OBVIOUS
<1>2. Ex(<<x>>) = {x.example} /\ Apart(<<x>>)
  BY DEF Ex, Apart
<1> DEFINE b == <<x>>
<1> HIDE DEF b
<1>3. b \in Seq(T) /\ Ex(b) = {x.example} /\ Apart(b)
  BY <1>1, <1>2 DEF b
<1>4. /\ s \o b \in Seq(T) /\ Len(s \o b) = Len(s) + Len(b)
      /\ Ex(s \o b) = Ex(s) \cup Ex(b)
      /\ Apart(s \o b) <=> Apart(s) /\ Apart(b) /\ Ex(s) \cap Ex(b) = {}
  BY <1>3, ConcatEx
<1>5. Append(s, x) = s \o b /\ Append(s, x) # <<>>
  BY <1>1 DEF b
<1>6. QED  BY <1>3, <1>4, <1>5

(* A list s that is cut in two lists, a of its first m elements and b.     *)
IsCutting(T, s, m, a, b) ==
    /\ a \in Seq(T) /\ b \in Seq(T) /\ Len(a) = m /\ Len(b) = Len(s) - m
    /\ s = a \o b
    /\ \A k \in 1 .. m : a[k] = s[k]
    /\ \A k \in 1 .. Len(s) - m : b[k] = s[m + k]
    /\ Ex(s) = Ex(a) \cup Ex(b)
    /\ Apart(s) => Apart(a) /\ Apart(b) /\ Ex(a) \cap Ex(b) = {}

LEMMA CutEx ==
  ASSUME NEW T, NEW s \in Seq(T), NEW m \in 0 .. Len(s)
  PROVE  IsCutting(T, s, m, SubSeq(s, 1, m), SubSeq(s, m + 1, Len(s)))
<1> DEFINE a == SubSeq(s, 1, m)
           b == SubSeq(s, m + 1, Len(s))
           n == Len(s)
<1>1. n \in Nat /\ m \in Nat /\ m <= n /\ DOMAIN s = 1 .. n
  OBVIOUS
<1>2. /\ a \in Seq(T) /\ Len(a) = m
      /\ \A k \in 1 .. m : a[k] = s[k]
  OBVIOUS
<1>3. b \in Seq(T) /\ Len(b) = n - m
  <2>1. CASE m < n
    <3>1. m + 1 \in 1 .. n /\ n \in 1 .. n /\ m + 1 <= n
      BY <1>1, <2>1
    <3>2. QED  BY <1>1, <2>1, <3>1
  <2>2. CASE m = n
    <3>1. b = <<>>
      BY <1>1, <2>2
    <3>2. QED  BY <1>1, <2>2, <3>1
  <2> HIDE DEF b, n
  <2>3. m < n \/ m = n
    BY <1>1
  <2>4. QED  BY <2>1, <2>2, <2>3
<1>4. \A k \in 1 .. n - m : b[k] = s[m + k]
  <2>1. \A k \in 1 .. n - m : b[k] = s[(m + 1) + k - 1] /\ (m + 1) + k - 1 = m + k
    BY <1>1
  <2>2. QED  BY <2>1
<1> HIDE DEF a, b
<1>5. s = a \o b
  <2>1. a \o b \in Seq(T) /\ Len(a \o b) = n
    <3>1. a \o b \in Seq(T) /\ Len(a \o b) = Len(a) + Len(b)
      BY <1>2, <1>3, ConcatFacts
    <3>2. QED  BY <1>1, <1>2, <1>3, <3>1
  <2>2. ASSUME NEW k \in 1 .. n PROVE (a \o b)[k] = s[k]
    <3>1. CASE k <= m
      BY <1>1, <1>2, <1>3, <3>1
    <3>2. CASE ~ (k <= m)
      <4>1. k - m \in 1 .. n - m /\ m + (k - m) = k /\ k \in Len(a) + 1 .. Len(a) + Len(b)
        BY <1>1, <1>2, <1>3, <3>2
      <4>2. (a \o b)[k] = b[k - m]
        BY <1>2, <1>3, <4>1, ConcatFacts
      <4>3. QED  BY <1>4, <4>1, <4>2
    <3>3. QED  BY <3>1, <3>2
  <2> DEFINE c == a \o b
  <2>3. c \in Seq(T) /\ Len(c) = n /\ \A k \in 1 .. n : c[k] = s[k]
    BY <2>1, <2>2
  <2> HIDE DEF c
  <2>4. c = s
    BY <1>1, <2>3
  <2>5. QED  BY <2>4 DEF c
<1>6. /\ Ex(s) = Ex(a) \cup Ex(b)
      /\ Apart(s) => Apart(a) /\ Apart(b) /\ Ex(a) \cap Ex(b) = {}
  <2>1. /\ Ex(a \o b) = Ex(a) \cup Ex(b)
        /\ Apart(a \o b) <=> Apart(a) /\ Apart(b) /\ Ex(a) \cap Ex(b) = {}
    BY <1>2, <1>3, ConcatEx
  <2>2. QED  BY <1>5, <2>1
<1> HIDE DEF n
<1>7. IsCutting(T, s, m, a, b)
  BY <1>2, <1>3, <1>4, <1>5, <1>6 DEF IsCutting, n
<1>8. QED  BY <1>7 DEF a, b, n

LEMMA ExsHas ==
  ASSUME NEW f, NEW p \in DOMAIN f
  PROVE  Ex(f[p]) \subseteq Exs(f)
BY DEF Exs

LEMMA ExsWithin ==
  ASSUME NEW f, NEW S, \A p \in DOMAIN f : Ex(f[p]) \subseteq S
  PROVE  Exs(f) \subseteq S
BY DEF Exs

(* A batch that is added to a list of batches.                             *)
LEMMA AppendExs ==
  ASSUME NEW T, NEW f \in Seq(Seq(T)), NEW s \in Seq(T)
  PROVE  /\ Append(f, s) \in Seq(Seq(T))
         /\ Exs(Append(f, s)) = Exs(f) \cup Ex(s)
         /\ \A k \in DOMAIN Append(f, s) :
              Append(f, s)[k] = s \/ \E i \in DOMAIN f : Append(f, s)[k] = f[i]
         /\ AllApart(f) /\ Apart(s) /\ Ex(s) \cap Exs(f) = {} =>
              AllApart(Append(f, s))
<1> DEFINE n == Len(f)
           g == Append(f, s)
<1>1. /\ n \in Nat /\ g \in Seq(Seq(T)) /\ DOMAIN f = 1 .. n /\ DOMAIN g = 1 .. n + 1
      /\ \A k \in 1 .. n : g[k] = f[k]
      /\ g[n + 1] = s
  OBVIOUS
<1> HIDE DEF n, g
<1>2. \A k \in 1 .. n + 1 : k \in 1 .. n \/ k = n + 1
  BY <1>1
<1>3. n + 1 \in 1 .. n + 1 /\ \A k \in 1 .. n : k \in 1 .. n + 1 /\ k # n + 1
  BY <1>1
<1>4. Exs(g) = Exs(f) \cup Ex(s)
  BY <1>1, <1>2, <1>3 DEF Exs
<1>5. \A k \in DOMAIN g : g[k] = s \/ \E i \in DOMAIN f : g[k] = f[i]
  BY <1>1, <1>2
<1>6. ASSUME AllApart(f), Apart(s), Ex(s) \cap Exs(f) = {} PROVE AllApart(g)
  <2>1. \A k \in 1 .. n : Apart(f[k]) /\ Ex(f[k]) \cap Ex(s) = {}
    BY <1>1, <1>6 DEF AllApart, Exs
  <2>2. \A k \in 1 .. n + 1 : Apart(g[k])
    BY <1>1, <1>2, <1>6, <2>1
  <2>3. ASSUME NEW k \in 1 .. n + 1, NEW l \in 1 .. n + 1, k # l
        PROVE  Ex(g[k]) \cap Ex(g[l]) = {}
    <3>1. CASE k \in 1 .. n /\ l \in 1 .. n
      BY <1>1, <1>6, <2>3, <3>1 DEF AllApart
    <3>2. CASE k \in 1 .. n /\ l = n + 1
      BY <1>1, <2>1, <3>2
    <3>3. CASE l \in 1 .. n /\ k = n + 1
      BY <1>1, <2>1, <3>3
    <3>4. QED  BY <1>2, <2>3, <3>1, <3>2, <3>3
  <2>4. QED  BY <1>1, <2>2, <2>3 DEF AllApart
<1>7. QED  BY <1>1, <1>4, <1>5, <1>6 DEF g

(* Two lists of batches, one after the other.                              *)
LEMMA ConcatExs ==
  ASSUME NEW T, NEW f \in Seq(Seq(T)), NEW g \in Seq(Seq(T)),
         AllApart(f), AllApart(g), Exs(f) \cap Exs(g) = {}
  PROVE  f \o g \in Seq(Seq(T)) /\ Exs(f \o g) = Exs(f) \cup Exs(g) /\ AllApart(f \o g)
<1> DEFINE m == Len(f)
           n == Len(g)
           h == f \o g
<1>1. /\ m \in Nat /\ n \in Nat /\ h \in Seq(Seq(T)) /\ Len(h) = m + n
      /\ DOMAIN f = 1 .. m /\ DOMAIN g = 1 .. n /\ DOMAIN h = 1 .. m + n
  OBVIOUS
<1>2. \A p \in 1 .. m : p \in 1 .. m + n /\ h[p] = f[p]
  BY <1>1, ConcatFacts
<1>3. \A p \in 1 .. n : p + m \in 1 .. m + n /\ h[p + m] = g[p]
  <2> SUFFICES ASSUME NEW p \in 1 .. n PROVE p + m \in 1 .. m + n /\ h[p + m] = g[p]
    OBVIOUS
  <2>1. p + m \in m + 1 .. m + n /\ (p + m) - m = p
    BY <1>1
  <2>2. QED  BY <1>1, <2>1, ConcatFacts
<1>4. \A p \in 1 .. m + n :
        p \in 1 .. m \/ (p - m \in 1 .. n /\ (p - m) + m = p /\ p \notin 1 .. m)
  BY <1>1
<1> HIDE DEF m, n, h
<1>5. \A p \in 1 .. m + n :
        \/ p \in 1 .. m /\ h[p] = f[p]
        \/ p - m \in 1 .. n /\ h[p] = g[p - m] /\ (p - m) + m = p
  <2> SUFFICES ASSUME NEW p \in 1 .. m + n, p \notin 1 .. m
               PROVE  p - m \in 1 .. n /\ h[p] = g[p - m] /\ (p - m) + m = p
    BY <1>2
  <2> DEFINE q == p - m
  <2>1. q \in 1 .. n /\ q + m = p
    BY <1>4
  <2> HIDE DEF q
  <2>2. h[p] = g[q]
    BY <1>3, <2>1
  <2>3. QED  BY <2>1, <2>2 DEF q
<1>6. Exs(h) = Exs(f) \cup Exs(g)
  <2>1. ASSUME NEW p \in 1 .. m + n PROVE Ex(h[p]) \subseteq Exs(f) \cup Exs(g)
    <3>1. CASE p \in 1 .. m /\ h[p] = f[p]
      BY <1>1, <3>1 DEF Exs
    <3>2. CASE p - m \in 1 .. n /\ h[p] = g[p - m]
      BY <1>1, <3>2 DEF Exs
    <3>3. QED  BY <1>5, <3>1, <3>2
  <2>2. ASSUME NEW p \in 1 .. m PROVE Ex(f[p]) \subseteq Exs(h)
    BY <1>1, <1>2 DEF Exs
  <2>3. ASSUME NEW p \in 1 .. n PROVE Ex(g[p]) \subseteq Exs(h)
    BY <1>1, <1>3 DEF Exs
  <2>4. Exs(h) \subseteq Exs(f) \cup Exs(g)
    BY <1>1, <2>1, ExsWithin
  <2>5. Exs(f) \subseteq Exs(h) /\ Exs(g) \subseteq Exs(h)
    BY <1>1, <2>2, <2>3 DEF Exs
  <2>6. QED  BY <2>4, <2>5
<1>7. \A p \in 1 .. m + n : Apart(h[p])
  BY <1>1, <1>5 DEF AllApart
<1>8. ASSUME NEW p \in 1 .. m + n, NEW q \in 1 .. m + n, p # q
      PROVE  Ex(h[p]) \cap Ex(h[q]) = {}
  <2>1. ASSUME NEW i \in 1 .. m, NEW j \in 1 .. n PROVE Ex(f[i]) \cap Ex(g[j]) = {}
    BY <1>1 DEF Exs
  <2>2. CASE p \in 1 .. m /\ h[p] = f[p] /\ q \in 1 .. m /\ h[q] = f[q]
    BY <1>1, <1>8, <2>2 DEF AllApart
  <2>3. CASE p \in 1 .. m /\ h[p] = f[p] /\ q - m \in 1 .. n /\ h[q] = g[q - m]
    BY <2>1, <2>3
  <2>4. CASE q \in 1 .. m /\ h[q] = f[q] /\ p - m \in 1 .. n /\ h[p] = g[p - m]
    BY <2>1, <2>4
  <2>5. CASE /\ p - m \in 1 .. n /\ h[p] = g[p - m] /\ (p - m) + m = p
             /\ q - m \in 1 .. n /\ h[q] = g[q - m] /\ (q - m) + m = q
    <3>1. p - m # q - m
      BY <1>8, <2>5
    <3>2. QED  BY <1>1, <2>5, <3>1 DEF AllApart
  <2>6. QED  BY <1>5, <2>2, <2>3, <2>4, <2>5
<1>9. AllApart(h)
  BY <1>1, <1>7, <1>8 DEF AllApart
<1>10. QED  BY <1>1, <1>6, <1>9 DEF h

(* Where the elements of a list come from when element k is taken out.     *)
SkipTo(k, i) == IF i < k THEN i ELSE i + 1

LEMMA SkipFacts ==
  ASSUME NEW n \in Nat, NEW k \in 1 .. n
  PROVE  /\ \A i \in 1 .. n - 1 : SkipTo(k, i) \in 1 .. n /\ SkipTo(k, i) # k
         /\ \A i, j \in 1 .. n - 1 : SkipTo(k, i) = SkipTo(k, j) => i = j
         /\ \A p \in 1 .. n : p # k => \E i \in 1 .. n - 1 : SkipTo(k, i) = p
<1>1. \A p \in 1 .. n : p # k => \E i \in 1 .. n - 1 : SkipTo(k, i) = p
  <2> SUFFICES ASSUME NEW p \in 1 .. n, p # k
               PROVE  \E i \in 1 .. n - 1 : SkipTo(k, i) = p
    OBVIOUS
  <2>1. CASE p < k
    <3>1. p \in 1 .. n - 1 /\ SkipTo(k, p) = p
      BY <2>1 DEF SkipTo
    <3>2. QED  BY <3>1
  <2>2. CASE p > k
    <3>1. p - 1 \in 1 .. n - 1 /\ SkipTo(k, p - 1) = p
      BY <2>2 DEF SkipTo
    <3>2. QED  BY <3>1
  <2>3. QED  BY <2>1, <2>2
<1>2. \A i \in 1 .. n - 1 : SkipTo(k, i) \in 1 .. n /\ SkipTo(k, i) # k
  BY DEF SkipTo
<1>3. \A i, j \in 1 .. n - 1 : SkipTo(k, i) = SkipTo(k, j) => i = j
  BY DEF SkipTo
<1>4. QED  BY <1>1, <1>2, <1>3

(* The list without element k.                                             *)
Removed(f, k) == SubSeq(f, 1, k - 1) \o SubSeq(f, k + 1, Len(f))

LEMMA WithoutPlaces ==
  ASSUME NEW T, NEW f \in Seq(T), NEW k \in 1 .. Len(f)
  PROVE  /\ Removed(f, k) \in Seq(T) /\ Len(Removed(f, k)) = Len(f) - 1
         /\ \A i \in 1 .. Len(f) - 1 : Removed(f, k)[i] = f[SkipTo(k, i)]
<1> DEFINE g == Removed(f, k)
           n == Len(f)
           a == SubSeq(f, 1, k - 1)
           b == SubSeq(f, k + 1, n)
           j == k - 1
<1>1. n \in Nat /\ k \in 1 .. n /\ j \in 0 .. n /\ k \in 0 .. n /\ j + 1 = k
  OBVIOUS
<1>2. a \in Seq(T) /\ Len(a) = j /\ \A i \in 1 .. j : a[i] = f[i]
  <2> HIDE DEF j
  <2>1. SubSeq(f, 1, j) \in Seq(T) /\ Len(SubSeq(f, 1, j)) = j
          /\ \A i \in 1 .. j : SubSeq(f, 1, j)[i] = f[i]
    BY <1>1, CutEx DEF IsCutting
  <2>2. QED  BY <2>1 DEF j
<1>3. b \in Seq(T) /\ Len(b) = n - k /\ \A i \in 1 .. n - k : b[i] = f[k + i]
  BY <1>1, CutEx DEF IsCutting
<1>4. g = a \o b
  BY DEF a, b, Removed
<1> HIDE DEF a, b, n, j, g
<1>5. /\ g \in Seq(T) /\ Len(g) = j + (n - k)
      /\ \A p \in 1 .. j : g[p] = a[p]
      /\ \A p \in j + 1 .. j + (n - k) : g[p] = b[p - j]
  <2>1. /\ a \o b \in Seq(T) /\ Len(a \o b) = Len(a) + Len(b)
        /\ \A p \in 1 .. Len(a) : (a \o b)[p] = a[p]
        /\ \A p \in Len(a) + 1 .. Len(a) + Len(b) : (a \o b)[p] = b[p - Len(a)]
    BY <1>2, <1>3, ConcatFacts
  <2>2. QED  BY <1>2, <1>3, <1>4, <2>1
<1>6. ASSUME NEW i \in 1 .. n - 1 PROVE g[i] = f[SkipTo(k, i)]
  <2>1. CASE i < k
    <3>1. i \in 1 .. j /\ SkipTo(k, i) = i
      BY <1>1, <2>1 DEF SkipTo
    <3>2. QED  BY <1>2, <1>5, <3>1
  <2>2. CASE ~ (i < k)
    <3>1. /\ i \in j + 1 .. j + (n - k) /\ i - j \in 1 .. n - k
          /\ k + (i - j) = i + 1 /\ SkipTo(k, i) = i + 1
      BY <1>1, <2>2 DEF SkipTo
    <3>2. g[i] = b[i - j] /\ b[i - j] = f[k + (i - j)]
      BY <1>3, <1>5, <3>1
    <3>3. QED  BY <3>1, <3>2
  <2>3. QED  BY <2>1, <2>2
<1>7. j + (n - k) = n - 1
  BY <1>1
<1>8. QED  BY <1>5, <1>6, <1>7 DEF n, g

(* A batch that is taken out of a list of batches.                         *)
LEMMA WithoutExs ==
  ASSUME NEW T, NEW f \in Seq(Seq(T)), NEW k \in DOMAIN f
  PROVE  /\ Removed(f, k) \in Seq(Seq(T)) /\ f[k] \in Seq(T)
         /\ Exs(f) = Exs(Removed(f, k)) \cup Ex(f[k])
         /\ \A i \in DOMAIN Removed(f, k) :
              \E j \in DOMAIN f : Removed(f, k)[i] = f[j]
         /\ AllApart(f) => /\ AllApart(Removed(f, k)) /\ Apart(f[k])
                           /\ Exs(Removed(f, k)) \cap Ex(f[k]) = {}
<1> DEFINE n == Len(f)
           g == Removed(f, k)
<1>1. n \in Nat /\ DOMAIN f = 1 .. n /\ k \in 1 .. n /\ f[k] \in Seq(T)
  OBVIOUS
<1>2. /\ g \in Seq(Seq(T)) /\ Len(g) = n - 1
      /\ \A i \in 1 .. n - 1 : g[i] = f[SkipTo(k, i)]
  <2> DEFINE U == Seq(T)
  <2>1. f \in Seq(U) /\ k \in 1 .. Len(f)
    BY <1>1
  <2> HIDE DEF U, n
  <2>2. /\ g \in Seq(U) /\ Len(g) = Len(f) - 1
        /\ \A i \in 1 .. Len(f) - 1 : g[i] = f[SkipTo(k, i)]
    BY <2>1, WithoutPlaces
  <2>3. QED  BY <2>2 DEF U, n
<1>3. DOMAIN g = 1 .. n - 1
  BY <1>1, <1>2
<1> HIDE DEF n, g
<1>4. /\ \A i \in 1 .. n - 1 : SkipTo(k, i) \in 1 .. n /\ SkipTo(k, i) # k
      /\ \A i, j \in 1 .. n - 1 : SkipTo(k, i) = SkipTo(k, j) => i = j
      /\ \A p \in 1 .. n : p # k => \E i \in 1 .. n - 1 : SkipTo(k, i) = p
  BY <1>1, SkipFacts
<1>7. Exs(f) = Exs(g) \cup Ex(f[k])
  <2>1. ASSUME NEW p \in 1 .. n PROVE Ex(f[p]) \subseteq Exs(g) \cup Ex(f[k])
    <3>1. CASE p = k
      BY <3>1
    <3>2. CASE p # k
      <4>1. PICK i \in 1 .. n - 1 : SkipTo(k, i) = p
        BY <1>4, <3>2
      <4>2. g[i] = f[p]
        BY <1>2, <4>1
      <4>3. QED  BY <1>3, <4>2 DEF Exs
    <3>3. QED  BY <3>1, <3>2
  <2>2. ASSUME NEW i \in 1 .. n - 1 PROVE Ex(g[i]) \subseteq Exs(f)
    BY <1>1, <1>2, <1>4, ExsHas
  <2>3. Ex(f[k]) \subseteq Exs(f)
    BY <1>1, ExsHas
  <2>4. Exs(f) \subseteq Exs(g) \cup Ex(f[k])
    BY <1>1, <2>1 DEF Exs
  <2>5. Exs(g) \subseteq Exs(f)
    BY <1>3, <2>2 DEF Exs
  <2>6. QED  BY <2>3, <2>4, <2>5
<1>8. \A i \in DOMAIN g : \E j \in DOMAIN f : g[i] = f[j]
  BY <1>1, <1>2, <1>3, <1>4
<1>9. ASSUME AllApart(f)
      PROVE  AllApart(g) /\ Apart(f[k]) /\ Exs(g) \cap Ex(f[k]) = {}
  <2>1. \A p, q \in 1 .. n : p # q => Ex(f[p]) \cap Ex(f[q]) = {}
    BY <1>1, <1>9 DEF AllApart
  <2>2. \A p \in 1 .. n : Apart(f[p])
    BY <1>1, <1>9 DEF AllApart
  <2>3. \A i \in 1 .. n - 1 : Apart(g[i]) /\ Ex(g[i]) \cap Ex(f[k]) = {}
    BY <1>1, <1>2, <1>4, <2>1, <2>2
  <2>4. \A i, j \in 1 .. n - 1 : i # j => Ex(g[i]) \cap Ex(g[j]) = {}
    BY <1>2, <1>4, <2>1
  <2>5. AllApart(g)
    BY <1>3, <2>3, <2>4 DEF AllApart
  <2>6. Exs(g) \cap Ex(f[k]) = {}
    BY <1>3, <2>3 DEF Exs
  <2>7. QED  BY <1>1, <2>2, <2>5, <2>6
<1>10. QED  BY <1>1, <1>2, <1>7, <1>8, <1>9 DEF g

------------------------------------------------------------------------------
(* The greatest number of a list that is not empty.                        *)
IsGreatest(s, m) == (\E k \in DOMAIN s : s[k] = m) /\ \A k \in DOMAIN s : s[k] <= m

LEMMA GreatestExists ==
  ASSUME NEW s \in Seq(Nat), s # <<>>
  PROVE  \E m \in Nat : IsGreatest(s, m)
<1> DEFINE n == Len(s)
           Bound(i) == \E p \in 1 .. i : \A k \in 1 .. i : s[k] <= s[p]
           P == {i \in Nat : 1 <= i /\ i <= n => Bound(i)}
<1>1. n \in Nat \ {0} /\ DOMAIN s = 1 .. n /\ \A k \in 1 .. n : s[k] \in Nat
  OBVIOUS
<1>2. 0 \in P
  OBVIOUS
<1>3. ASSUME NEW i \in P PROVE i + 1 \in P
  <2> SUFFICES ASSUME i + 1 <= n PROVE Bound(i + 1)
    OBVIOUS
  <2>0. i \in Nat
    OBVIOUS
  <2>1. CASE i = 0
    <3>1. 1 \in 1 .. i + 1 /\ \A k \in 1 .. i + 1 : k = 1
      BY <2>1
    <3>2. s[1] <= s[1]
      BY <1>1
    <3>3. QED  BY <3>1, <3>2
  <2>2. CASE i # 0
    <3>1. PICK p \in 1 .. i : \A k \in 1 .. i : s[k] <= s[p]
      BY <1>1, <2>0, <2>2
    <3>2. p \in 1 .. i + 1 /\ i + 1 \in 1 .. i + 1
      BY <2>0
    <3>3. \A k \in 1 .. i + 1 : s[k] \in Nat /\ (k \in 1 .. i \/ k = i + 1)
      BY <1>1, <2>0
    <3>4. CASE s[i + 1] <= s[p]
      <4>1. \A k \in 1 .. i + 1 : s[k] <= s[p]
        BY <3>1, <3>3, <3>4
      <4>2. QED  BY <3>2, <4>1
    <3>5. CASE ~ (s[i + 1] <= s[p])
      <4>1. \A k \in 1 .. i + 1 : s[k] <= s[i + 1]
        BY <3>1, <3>2, <3>3, <3>5
      <4>2. QED  BY <3>2, <4>1
    <3>6. QED  BY <3>4, <3>5
  <2>3. QED  BY <2>1, <2>2
<1> HIDE DEF P
<1>4. P = Nat
  BY <1>2, <1>3, Induction DEF P
<1>5. n \in P
  BY <1>1, <1>4
<1>6. Bound(n)
  BY <1>1, <1>5 DEF P
<1>7. PICK p \in 1 .. n : \A k \in 1 .. n : s[k] <= s[p]
  BY <1>6
<1>8. IsGreatest(s, s[p])
  BY <1>1, <1>7 DEF IsGreatest
<1>9. QED  BY <1>1, <1>8

(* The examples that have left the bucket, and those of them that are      *)
(* still somewhere.                                                        *)
Left == taken - Len(bucket)
Held == Exs(consumed) \cup Exs(batches) \cup Ex(minibatch) \cup Ex(data)

(* What the iterator does decides what is empty.                           *)
PhaseInv ==
    /\ \A k \in DOMAIN bucket : bucket[k] = Left + k
    /\ phase # "bucketing" => bucket = <<>>
    /\ phase \notin {"batching", "consuming"} => batches = <<>>
    /\ phase # "batching" => data = <<>> /\ minibatch = <<>> /\ seen = {}
    /\ phase = "done" => taken = Len(stream)
    /\ \A k \in DOMAIN batches : batches[k] # <<>>

ApartInv ==
    /\ Apart(data) /\ Apart(minibatch) /\ AllApart(batches) /\ AllApart(consumed)
    /\ Ex(data) \cap Ex(minibatch) = {}
    /\ (Ex(data) \cup Ex(minibatch)) \cap Exs(batches) = {}
    /\ (Ex(data) \cup Ex(minibatch) \cup Exs(batches)) \cap Exs(consumed) = {}
    /\ Held \subseteq 1 .. Left

SameText(m, n) == stream[m].text = stream[n].text
LeftOut(o, n) ==
    \/ stream[n].len = 0
    \/ Options[o].task = "train" /\ \E m \in Held : SameText(m, n)

LostInv(o) ==
    /\ \A n \in (1 .. Left) \ Held : LeftOut(o, n)
    /\ seen \subseteq {stream[m].text : m \in Ex(minibatch)}

Fits(o, batch) ==
    \/ Len(batch) <= Options[o].batch_size_multiple
    \/ Iterator(o)!Cost(batch) <= Options[o].batch_size
FitInv(o) ==
    /\ \A k \in DOMAIN consumed : Fits(o, consumed[k])
    /\ \A k \in DOMAIN batches : Fits(o, batches[k])
    /\ Fits(o, minibatch)

NoTextTwice(batch) ==
    \A i, j \in DOMAIN batch :
        stream[batch[i].example].text = stream[batch[j].example].text => i = j
TextInv(o) ==
    Options[o].task = "train" /\ Options[o].batch_type = "sents"
      /\ Options[o].batch_size_multiple = 1 =>
        /\ \A k \in DOMAIN consumed : NoTextTwice(consumed[k])
        /\ \A k \in DOMAIN batches : NoTextTwice(batches[k])
        /\ NoTextTwice(minibatch)
        /\ \A k \in DOMAIN minibatch : stream[minibatch[k].example].text \in seen
        /\ Len(minibatch) < Options[o].batch_size

(* Where the results of the bucket that is cut begin in the output.        *)
Base == Len(output) + (IF prev_idx = bucket_idx THEN 0 ELSE Len(bucket_predictions))
Rest == Exs(batches) \cup Ex(minibatch) \cup Ex(data)
From(s, base) == \A k \in DOMAIN s : s[k].example = base + s[k].index + 1

(* Output n is that of input n if AlignCounts; each place says where in    *)
(* its bucket an example was.                                              *)
AlignCounts(o) == Options[o].task # "train" /\ \A n \in DOMAIN stream : stream[n].len > 0

PlacesInv ==
    /\ \A n \in DOMAIN output : output[n] = n
    /\ From(data, Base) /\ From(minibatch, Base)
    /\ \A k \in DOMAIN batches : From(batches[k], Base)
    /\ From(bucket_predictions, Len(output)) /\ Apart(bucket_predictions)
    /\ Ex(bucket_predictions) \cap Rest = {}

(* What the output does not have yet.                                      *)
CoverInv ==
    /\ Base <= Left
    /\ prev_idx = bucket_idx =>
         Ex(bucket_predictions) \cup Rest = (Len(output) + 1) .. Left
    /\ prev_idx # bucket_idx =>
         /\ Ex(bucket_predictions) = (Len(output) + 1) .. Base
         /\ Rest = (Base + 1) .. Left

(* When the consumer has the results of a whole bucket.                    *)
FlushInv(o) ==
    /\ phase # "failed"
    /\ current_bucket_size = Options[o].bucket_size
    /\ phase = "bucketing" =>
         Base = Left /\ (prev_idx = bucket_idx => bucket_predictions = <<>>)
    /\ phase = "done" => Len(output) = Len(stream) /\ bucket_predictions = <<>>
    /\ Options[o].task = "predict" =>
         /\ prev_idx = bucket_idx => Len(bucket_predictions) < Options[o].bucket_size
         /\ prev_idx # bucket_idx =>
              /\ bucket_predictions = <<>> /\ phase \in {"consuming", "done"}
              /\ batches = <<>> /\ prev_idx = bucket_idx + 1
    /\ Options[o].task = "score" /\ prev_idx # bucket_idx =>
         prev_idx + 1 = bucket_idx /\ phase # "done"
    /\ phase \in {"batching", "consuming"} /\ (Options[o].task = "predict" => prev_idx = bucket_idx) =>
         /\ Left > Base /\ Left - Base <= Options[o].bucket_size
         /\ Left - Base = Options[o].bucket_size \/ Left = Len(stream)

AlignInv(o) == AlignCounts(o) => PlacesInv /\ CoverInv /\ FlushInv(o)

IteratorInv(o) ==
    /\ Iterator(o)!TypeOK /\ PhaseInv /\ ApartInv /\ LostInv(o) /\ FitInv(o)
    /\ TextInv(o) /\ AlignInv(o)

IteratorsInv ==
    part = "batching" => \A o \in DOMAIN Options : options = o => IteratorInv(o)

------------------------------------------------------------------------------
LEMMA OptionFacts ==
  ASSUME NEW o, Iterator(o)!BatchingAssumption
  PROVE  /\ Options[o].task \in {"train", "predict", "score"}
         /\ Options[o].bucket_size \in Nat \ {0} /\ Options[o].batch_size \in Nat \ {0}
         /\ Options[o].batch_size_multiple \in Nat \ {0}
         /\ Options[o].bucket_size_init \in Int
         /\ Options[o].bucket_size_increment \in Nat
         /\ Options[o].batch_type \in {"sents", "tokens"}
         /\ Options[o].task # "train" => /\ Options[o].bucket_size_init <= 0
                                         /\ Options[o].batch_size_multiple = 1
BY DEF Iterator!BatchingAssumption

LEMMA StateFacts ==
  ASSUME NEW o, Iterator(o)!BatchingAssumption, Iterator(o)!TypeOK
  PROVE  /\ stream \in Seq(Range(stream)) /\ Len(stream) \in Nat
         /\ DOMAIN stream = 1 .. Len(stream)
         /\ \A n \in DOMAIN stream : stream[n].len \in Nat
         /\ taken \in 0 .. Len(stream) /\ taken \in Nat
         /\ bucket \in Seq(DOMAIN stream) /\ Len(bucket) \in Nat
         /\ DOMAIN bucket = 1 .. Len(bucket)
         /\ current_bucket_size \in Nat \ {0} /\ Len(bucket) < current_bucket_size
         /\ data \in Seq(Iterator(o)!Item) /\ minibatch \in Seq(Iterator(o)!Item)
         /\ batches \in Seq(Seq(Iterator(o)!Item))
         /\ consumed \in Seq(Seq(Iterator(o)!Item))
         /\ bucket_predictions \in Seq(Iterator(o)!Item)
         /\ output \in Seq(DOMAIN stream) /\ Len(output) \in Nat
         /\ bucket_idx \in Nat /\ prev_idx \in Nat
         /\ Left \in Int
<1>1. stream \in Options[o].streams
  BY DEF Iterator!TypeOK
<1>2. stream \in Seq(Iterator(o)!Range(stream)) /\ \A n \in DOMAIN stream : stream[n].len \in Nat
  BY <1>1 DEF Iterator!BatchingAssumption
<1>3. Iterator(o)!Range(stream) = Range(stream)
  BY DEF Iterator!Range, Range
<1>4. stream \in Seq(Range(stream)) /\ Len(stream) \in Nat /\ DOMAIN stream = 1 .. Len(stream)
  BY <1>2, <1>3
<1>5. taken \in 0 .. Len(stream) /\ bucket \in Seq(DOMAIN stream)
  BY DEF Iterator!TypeOK
<1>6. taken \in Nat /\ Len(bucket) \in Nat /\ DOMAIN bucket = 1 .. Len(bucket)
  BY <1>4, <1>5
<1>7. Left \in Int
  BY <1>6 DEF Left
<1>8. output \in Seq(DOMAIN stream) /\ Len(output) \in Nat
  BY DEF Iterator!TypeOK
<1>9. QED  BY <1>2, <1>4, <1>5, <1>6, <1>7, <1>8 DEF Iterator!TypeOK

LEMMA InitIterator ==
  ASSUME NEW o, Iterator(o)!BatchingAssumption, Iterator(o)!Init
  PROVE  IteratorInv(o)
<1>1. stream \in Options[o].streams /\ stream \in Seq(Range(stream))
  <2>1. Iterator(o)!Range(stream) = Range(stream)
    BY DEF Iterator!Range, Range
  <2>2. QED  BY <2>1 DEF Iterator!Init, Iterator!BatchingAssumption
<1>2. Len(stream) \in Nat
  BY <1>1
<1>3. /\ phase = "bucketing" /\ taken = 0 /\ bucket = <<>> /\ bucket_idx = 0
      /\ data = <<>> /\ minibatch = <<>> /\ seen = {} /\ batches = <<>>
      /\ consumed = <<>> /\ prev_idx = 0 /\ bucket_predictions = <<>> /\ output = <<>>
      /\ current_bucket_size = IF Options[o].bucket_size_init > 0
                               THEN Options[o].bucket_size_init
                               ELSE Options[o].bucket_size
  BY DEF Iterator!Init
<1>4. /\ current_bucket_size \in Nat \ {0}
      /\ \/ current_bucket_size <= Options[o].bucket_size
         \/ current_bucket_size <= Options[o].bucket_size_init
  BY <1>3, OptionFacts
<1>5. Iterator(o)!TypeOK
  BY <1>1, <1>2, <1>3, <1>4 DEF Iterator!TypeOK
<1>6. Left = 0 /\ Held = {} /\ Rest = {} /\ Base = 0
  <2>1. Len(bucket) = 0 /\ Len(output) = 0
    BY <1>3
  <2>2. Left = 0
    <3>1. taken = 0 /\ Left = taken - Len(bucket)
      BY <1>3 DEF Left
    <3>2. QED  BY <2>1, <3>1
  <2>3. Base = 0
    BY <1>3, <2>1 DEF Base
  <2>4. Held = {} /\ Rest = {}
    BY <1>3, EmptyEx DEF Held, Rest
  <2>5. QED  BY <2>2, <2>3, <2>4
<1>7. PhaseInv
  BY <1>3, <1>6 DEF PhaseInv
<1>8. ApartInv
  BY <1>3, <1>6, EmptyEx DEF ApartInv
<1>9. LostInv(o)
  BY <1>3, <1>6 DEF LostInv
<1>10. FitInv(o)
  BY <1>3, OptionFacts DEF FitInv, Fits
<1>11. TextInv(o)
  BY <1>3, OptionFacts DEF TextInv, NoTextTwice
<1>12. AlignInv(o)
  <2>2. 0 + 1 .. 0 = {} /\ Len(output) = 0
    BY <1>3
  <2>3. PlacesInv
    BY <1>3, <1>6, EmptyEx DEF PlacesInv, From
  <2>4. CoverInv
    BY <1>3, <1>6, <2>2, EmptyEx DEF CoverInv
  <2>5. ASSUME AlignCounts(o) PROVE FlushInv(o)
    BY <1>3, <1>6, <2>5, OptionFacts DEF FlushInv, AlignCounts
  <2>6. QED  BY <2>3, <2>4, <2>5 DEF AlignInv
<1>13. QED  BY <1>5, <1>7, <1>8, <1>9, <1>10, <1>11, <1>12 DEF IteratorInv

------------------------------------------------------------------------------
(* A placement of all the elements leaves each where it is.                *)
PlacesAll(place, m, n) ==
    /\ place \in [1 .. m -> 1 .. n]
    /\ \A i, j \in 1 .. m : i < j => place[i] < place[j]
    /\ \A k \in 1 .. n : \E i \in 1 .. m : place[i] = k

LEMMA PlacedAll ==
  ASSUME NEW m \in Nat, NEW n \in Nat, NEW place, PlacesAll(place, m, n)
  PROVE  \A k \in 1 .. m : place[k] = k
<1> USE DEF PlacesAll
<1> DEFINE T == {k \in 1 .. m : place[k] # k}
<1> SUFFICES ASSUME T # {} PROVE FALSE
  OBVIOUS
<1>1. PICK k \in T : \A j \in T : k <= j
  <2>1. T \in SUBSET Nat
    OBVIOUS
  <2> HIDE DEF T
  <2>2. QED  BY <2>1, LeastNumber
<1>2. k \in 1 .. m /\ place[k] # k /\ place[k] \in 1 .. n
  OBVIOUS
<1>3. \A j \in 1 .. m : j < k => place[j] = j
  BY <1>1, <1>2
<1>4. place[k] > k
  <2>1. CASE k = 1
    BY <1>2, <2>1
  <2>2. CASE k # 1
    <3>1. k - 1 \in 1 .. m /\ k - 1 < k
      BY <1>2, <2>2
    <3>2. place[k - 1] = k - 1 /\ place[k - 1] < place[k]
      BY <1>2, <1>3, <3>1
    <3>3. QED  BY <1>2, <3>2
  <2>3. QED  BY <2>1, <2>2
<1>5. k \in 1 .. n
  BY <1>2, <1>4
<1>6. PICK i \in 1 .. m : place[i] = k
  BY <1>5
<1> HIDE DEF T
<1>7. CASE i < k
  BY <1>2, <1>3, <1>6, <1>7
<1>8. CASE i = k
  BY <1>2, <1>6, <1>8
<1>9. CASE i > k
  <2>1. place[k] < place[i]
    BY <1>2, <1>9
  <2>2. QED  BY <1>2, <1>4, <1>6, <2>1
<1>10. QED  BY <1>2, <1>7, <1>8, <1>9

------------------------------------------------------------------------------
(* A bucket that is full: the items that are kept of it, sorted.           *)
LEMMA SortFacts ==
  ASSUME NEW o, Iterator(o)!BatchingAssumption, Iterator(o)!TypeOK,
         NEW s \in Seq(Iterator(o)!Item)
  PROVE  /\ Iterator(o)!SortByLength(s) \in Seq(Iterator(o)!Item)
         /\ \E place : IsShuffle(place, s, Iterator(o)!SortByLength(s))
<1> DEFINE U == Iterator(o)!Item
           key == [k \in DOMAIN s |-> Iterator(o)!Length(s[k])]
<1>1. Len(s) \in Nat /\ DOMAIN s = 1 .. Len(s) /\ \A k \in 1 .. Len(s) : s[k] \in U
  OBVIOUS
<1>2. key \in [1 .. Len(s) -> Int]
  <2>1. \A n \in DOMAIN stream : stream[n].len \in Nat
    BY StateFacts
  <2>2. \A k \in 1 .. Len(s) : s[k].example \in DOMAIN stream
    BY <1>1 DEF Iterator!Item
  <2>3. \A k \in 1 .. Len(s) : Iterator(o)!Length(s[k]) \in Int
    BY <2>1, <2>2 DEF Iterator!Length
  <2>4. QED  BY <1>1, <2>3
<1> HIDE DEF U, key
<1>3. s \in Seq(U)
  BY DEF U
<1>4. /\ SortedBy(s, key) \in Seq(U)
      /\ \E place : IsShuffle(place, s, SortedBy(s, key))
  BY <1>2, <1>3, SortedByPlaces
<1>5. Iterator(o)!SortByLength(s) = SortedBy(s, key)
  BY DEF Iterator!SortByLength, Iterator!SortedBy, SortedBy, key,
         Iterator!Cardinality, Cardinality
<1>6. QED  BY <1>4, <1>5 DEF U

LEMMA ShuffleEx ==
  ASSUME NEW T, NEW s \in Seq(T), NEW r \in Seq(T), NEW place, IsShuffle(place, s, r)
  PROVE  Ex(r) = Ex(s) /\ (Apart(s) => Apart(r)) /\ (\A b : From(s, b) => From(r, b))
<1>1. /\ Len(s) \in Nat /\ DOMAIN s = 1 .. Len(s) /\ DOMAIN r = 1 .. Len(s)
  BY DEF IsShuffle
<1>2. /\ \A k \in 1 .. Len(s) : place[k] \in 1 .. Len(s) /\ r[k] = s[place[k]]
      /\ \A k, l \in 1 .. Len(s) : place[k] = place[l] => k = l
      /\ \A i \in 1 .. Len(s) : \E k \in 1 .. Len(s) : place[k] = i
  BY DEF IsShuffle
<1> DEFINE n == Len(s)
<1> HIDE DEF n
<1>3. Ex(r) = Ex(s)
  <2>1. \A k \in 1 .. n : r[k].example \in Ex(s)
    BY <1>1, <1>2 DEF Ex, n
  <2>2. \A i \in 1 .. n : \E k \in 1 .. n : s[i] = r[k]
    <3>1. ASSUME NEW i \in 1 .. n PROVE \E k \in 1 .. n : s[i] = r[k]
      <4>1. PICK k \in 1 .. n : place[k] = i
        BY <1>2 DEF n
      <4>2. r[k] = s[i]
        BY <1>2, <4>1 DEF n
      <4>3. QED  BY <4>2
    <3>2. QED  BY <3>1
  <2>3. \A i \in 1 .. n : s[i].example \in Ex(r)
    BY <1>1, <2>2 DEF Ex, n
  <2>4. QED  BY <1>1, <2>1, <2>3 DEF Ex, n
<1>4. ASSUME Apart(s) PROVE Apart(r)
  <2>1. \A i, j \in 1 .. n : s[i].example = s[j].example => i = j
    BY <1>1, <1>4 DEF Apart, n
  <2>2. ASSUME NEW i \in 1 .. n, NEW j \in 1 .. n, r[i].example = r[j].example
        PROVE  i = j
    <3>1. /\ r[i] = s[place[i]] /\ r[j] = s[place[j]]
          /\ place[i] \in 1 .. n /\ place[j] \in 1 .. n
      BY <1>2 DEF n
    <3>2. place[i] = place[j]
      BY <2>1, <2>2, <3>1
    <3>3. QED  BY <1>2, <3>2 DEF n
  <2>3. QED  BY <1>1, <2>2 DEF Apart, n
<1>5. \A b : From(s, b) => From(r, b)
  BY <1>1, <1>2 DEF From
<1>6. QED  BY <1>3, <1>4, <1>5

(* The examples with tokens among those that follow example lo.            *)
Following(lo, n) == {m \in lo + 1 .. n : stream[m].len > 0}

LEMMA KeepFacts ==
  ASSUME NEW o, Iterator(o)!BatchingAssumption, Iterator(o)!TypeOK,
         NEW lo \in Nat, NEW s \in Seq(DOMAIN stream),
         \A k \in DOMAIN s : s[k] = lo + k
  PROVE  LET kept == Iterator(o)!WithTokens(s)
             made == [k \in DOMAIN kept |-> [example |-> kept[k], index |-> k - 1]]
         IN  /\ kept \in Seq(DOMAIN stream) /\ made \in Seq(Iterator(o)!Item)
             /\ Ex(made) = Following(lo, lo + Len(s)) /\ Apart(made)
             /\ kept = <<>> => made = <<>>
             /\ (\A n \in DOMAIN stream : stream[n].len > 0) =>
                  From(made, lo) /\ (s # <<>> => kept # <<>>)
<1> DEFINE S == {n \in DOMAIN stream : stream[n].len > 0}
           kept == Kept(s, S)
           made == [k \in DOMAIN kept |-> [example |-> kept[k], index |-> k - 1]]
           m == Len(kept)
           n == Len(s)
<1>1. Iterator(o)!WithTokens(s) = kept
  BY DEF Iterator!WithTokens, Iterator!Kept, Kept
<1>2. /\ kept \in Seq(DOMAIN stream)
      /\ \E place : IsPlacement(place, s, kept, S, m, n)
  BY KeptPlaces
<1>3. PICK place : IsPlacement(place, s, kept, S, m, n)
  BY <1>2
<1>4. n \in Nat /\ DOMAIN s = 1 .. n /\ \A k \in 1 .. n : s[k] \in DOMAIN stream
  OBVIOUS
<1>5. m \in Nat /\ DOMAIN kept = 1 .. m /\ \A k \in 1 .. m : kept[k] \in DOMAIN stream
  <2> HIDE DEF kept
  <2>1. QED  BY <1>2
<1> HIDE DEF kept, m, n
<1>6. /\ place \in [1 .. m -> 1 .. n]
      /\ \A i \in 1 .. m : kept[i] = s[place[i]] /\ s[place[i]] \in S
      /\ \A i, j \in 1 .. m : i < j => place[i] < place[j]
      /\ \A k \in 1 .. n : s[k] \in S => \E i \in 1 .. m : place[i] = k
  BY <1>3 DEF IsPlacement
<1>7. \A i \in 1 .. m : place[i] \in 1 .. n /\ kept[i] = lo + place[i] /\ kept[i] \in S
  BY <1>4, <1>6
<1>8. made \in Seq(Iterator(o)!Item) /\ DOMAIN made = 1 .. m
  <2>1. \A k \in 1 .. m : [example |-> kept[k], index |-> k - 1] \in Iterator(o)!Item
    BY <1>5 DEF Iterator!Item
  <2>2. made \in [1 .. m -> Iterator(o)!Item]
    BY <1>5, <2>1
  <2> HIDE DEF made
  <2>3. QED  BY <1>5, <2>2
<1>9. \A k \in 1 .. m : made[k].example = kept[k] /\ made[k].index = k - 1
  BY <1>5
<1> HIDE DEF made
<1>10. Ex(made) = Following(lo, lo + n)
  <2>1. ASSUME NEW k \in 1 .. m PROVE made[k].example \in Following(lo, lo + n)
    BY <1>4, <1>7, <1>9 DEF Following
  <2>2. ASSUME NEW p \in Following(lo, lo + n) PROVE p \in Ex(made)
    <3>1. p \in lo + 1 .. lo + n /\ stream[p].len > 0
      BY <2>2 DEF Following
    <3>2. p - lo \in 1 .. n /\ lo + (p - lo) = p
      BY <1>4, <3>1
    <3>3. s[p - lo] = p /\ p \in DOMAIN stream
      BY <1>4, <3>2
    <3>4. PICK i \in 1 .. m : place[i] = p - lo
      BY <1>6, <3>1, <3>2, <3>3
    <3>5. made[i].example = p
      BY <1>7, <1>9, <3>2, <3>4
    <3>6. QED  BY <1>8, <3>5 DEF Ex
  <2>3. Ex(made) \subseteq Following(lo, lo + n)
    BY <1>8, <2>1 DEF Ex
  <2>4. QED  BY <2>2, <2>3
<1>11. Apart(made)
  <2> SUFFICES ASSUME NEW i \in 1 .. m, NEW j \in 1 .. m,
                      made[i].example = made[j].example
               PROVE  i = j
    BY <1>8 DEF Apart
  <2>1. lo + place[i] = lo + place[j]
    BY <1>7, <1>9
  <2>2. place[i] \in 1 .. n /\ place[j] \in 1 .. n
    BY <1>7
  <2>3. place[i] = place[j]
    BY <1>4, <2>1, <2>2
  <2>4. ~ (place[i] < place[j]) /\ ~ (place[j] < place[i])
    BY <1>4, <2>2, <2>3
  <2>5. QED  BY <1>5, <1>6, <2>4
<1>12. kept = <<>> => made = <<>>
  BY DEF made
<1>13. ASSUME \A p \in DOMAIN stream : stream[p].len > 0
       PROVE  From(made, lo) /\ (s # <<>> => kept # <<>>)
  <2>1. \A k \in 1 .. n : s[k] \in S
    BY <1>4, <1>13
  <2>2. \A k \in 1 .. n : \E i \in 1 .. m : place[i] = k
    BY <1>6, <2>1
  <2>3. \A k \in 1 .. m : place[k] = k
    <3>1. place \in [1 .. m -> 1 .. n] /\ \A i, j \in 1 .. m : i < j => place[i] < place[j]
      BY <1>6
    <3>2. m \in Nat /\ n \in Nat
      BY <1>4, <1>5
    <3>3. PlacesAll(place, m, n)
      BY <2>2, <3>1 DEF PlacesAll
    <3>4. QED  BY <3>2, <3>3, PlacedAll
  <2>4. From(made, lo)
    <3>1. ASSUME NEW k \in 1 .. m PROVE made[k].example = lo + made[k].index + 1
      <4>1. made[k].example = lo + k /\ made[k].index = k - 1
        BY <1>7, <1>9, <2>3
      <4>2. QED  BY <1>5, <4>1
    <3>2. QED  BY <1>8, <3>1 DEF From
  <2>5. ASSUME s # <<>> PROVE kept # <<>>
    <3>1. 1 \in 1 .. n
      BY <1>4, <2>5 DEF n
    <3>2. PICK i \in 1 .. m : place[i] = 1
      BY <2>2, <3>1
    <3>3. m # 0
      BY <1>5
    <3>4. QED  BY <1>5, <3>2 DEF kept, m
  <2>6. QED  BY <2>4, <2>5
<1>14. QED  BY <1>1, <1>2, <1>8, <1>10, <1>11, <1>12, <1>13 DEF kept, made, n

LEMMA LeftFacts ==
  ASSUME NEW o, Iterator(o)!BatchingAssumption, Iterator(o)!TypeOK, PhaseInv
  PROVE  Left \in Nat /\ Left <= taken /\ taken = Left + Len(bucket)
<1>1. taken \in Nat /\ Len(bucket) \in Nat /\ bucket \in Seq(DOMAIN stream)
        /\ DOMAIN bucket = 1 .. Len(bucket) /\ DOMAIN stream = 1 .. Len(stream)
        /\ Len(stream) \in Nat
  BY StateFacts
<1>2. Left = taken - Len(bucket)
  BY DEF Left
<1>3. CASE Len(bucket) = 0
  BY <1>1, <1>2, <1>3
<1>4. CASE Len(bucket) # 0
  <2>1. 1 \in DOMAIN bucket
    BY <1>1, <1>4
  <2>2. bucket[1] = Left + 1 /\ bucket[1] \in DOMAIN stream
    <3>1. bucket[1] = Left + 1
      BY <2>1 DEF PhaseInv
    <3> DEFINE D == DOMAIN stream
    <3>2. bucket \in Seq(D)
      BY <1>1
    <3> HIDE DEF D
    <3>3. bucket[1] \in D
      BY <2>1, <3>2
    <3>4. QED  BY <3>1, <3>3 DEF D
  <2>3. Left \in Nat
    BY <1>1, <1>2, <2>2
  <2>4. QED  BY <1>1, <1>2, <2>3
<1>5. QED  BY <1>3, <1>4

LEMMA FillFacts ==
  ASSUME NEW o, Iterator(o)!BatchingAssumption, Iterator(o)!TypeOK, PhaseInv,
         Iterator(o)!FillBucket
  PROVE  /\ data' \in Seq(Iterator(o)!Item) /\ Apart(data')
         /\ Ex(data') = Following(Left, taken + 1)
         /\ taken' = taken + 1 /\ Left' = taken + 1 /\ taken + 1 <= Len(stream)
         /\ bucket' = <<>>
         /\ phase' \in {"batching", "failed"} /\ (phase' = "failed" => data' = <<>>)
         /\ (\A n \in DOMAIN stream : stream[n].len > 0) =>
              phase' = "batching" /\ From(data', Left)
<1> DEFINE s == Append(bucket, taken + 1)
           kept == Iterator(o)!WithTokens(s)
           made == [k \in DOMAIN kept |-> [example |-> kept[k], index |-> k - 1]]
           U == Iterator(o)!Item
<1>1. /\ taken \in Nat /\ Len(stream) \in Nat /\ DOMAIN stream = 1 .. Len(stream)
      /\ bucket \in Seq(DOMAIN stream) /\ Len(bucket) \in Nat
      /\ DOMAIN bucket = 1 .. Len(bucket)
  BY StateFacts
<1>2. Left \in Nat /\ taken = Left + Len(bucket)
  BY LeftFacts
<1>3. /\ taken < Len(stream) /\ taken' = taken + 1 /\ bucket' = <<>>
      /\ phase' = IF kept = <<>> THEN "failed" ELSE "batching"
      /\ data' = Iterator(o)!SortByLength(made)
  BY DEF Iterator!FillBucket, Iterator!Numericalize
<1>4. taken + 1 <= Len(stream) /\ taken + 1 \in DOMAIN stream
  BY <1>1, <1>3
<1>5. /\ s \in Seq(DOMAIN stream) /\ s # <<>> /\ Len(s) = Len(bucket) + 1
      /\ \A k \in 1 .. Len(bucket) : s[k] = bucket[k]
      /\ s[Len(bucket) + 1] = taken + 1
  <2> DEFINE D == DOMAIN stream
  <2>1. bucket \in Seq(D) /\ taken + 1 \in D
    BY <1>1, <1>4
  <2> HIDE DEF D
  <2>2. QED  BY <2>1 DEF D
<1> HIDE DEF s
<1>6. \A k \in DOMAIN s : s[k] = Left + k
  <2>1. DOMAIN s = 1 .. Len(bucket) + 1
    BY <1>1, <1>5
  <2>2. \A k \in 1 .. Len(bucket) : s[k] = Left + k
    BY <1>1, <1>5 DEF PhaseInv
  <2>3. taken + 1 = Left + (Len(bucket) + 1)
    BY <1>1, <1>2
  <2>4. \A k \in 1 .. Len(bucket) + 1 : k \in 1 .. Len(bucket) \/ k = Len(bucket) + 1
    BY <1>1
  <2>5. ASSUME NEW k \in DOMAIN s PROVE s[k] = Left + k
    <3>1. CASE k \in 1 .. Len(bucket)
      BY <2>2, <3>1
    <3>2. CASE k = Len(bucket) + 1
      <4>1. s[k] = taken + 1
        BY <1>5, <3>2
      <4>2. QED  BY <2>3, <3>2, <4>1
    <3>3. QED  BY <2>1, <2>4, <3>1, <3>2
  <2>6. QED  BY <2>5
<1>7. Left + Len(s) = taken + 1
  BY <1>1, <1>2, <1>5
<1>8. /\ kept \in Seq(DOMAIN stream) /\ made \in Seq(U)
      /\ Ex(made) = Following(Left, Left + Len(s)) /\ Apart(made)
      /\ kept = <<>> => made = <<>>
      /\ (\A n \in DOMAIN stream : stream[n].len > 0) =>
           From(made, Left) /\ (s # <<>> => kept # <<>>)
  BY <1>2, <1>5, <1>6, KeepFacts
<1> HIDE DEF made, kept, U
<1>9. PICK place : IsShuffle(place, made, data')
  BY <1>3, <1>8, SortFacts DEF U
<1>10. data' \in Seq(U)
  BY <1>3, <1>8, SortFacts DEF U
<1>11. Ex(data') = Ex(made) /\ Apart(data') /\ (From(made, Left) => From(data', Left))
  BY <1>8, <1>9, <1>10, ShuffleEx
<1>12. kept = <<>> => data' = <<>>
  <2>1. kept = <<>> => Len(made) = 0
    BY <1>8
  <2>2. Len(data') = Len(made)
    BY <1>9 DEF IsShuffle
  <2>3. QED  BY <1>10, <2>1, <2>2
<1>13. Left' = taken + 1
  <2>1. Left' = taken' - Len(bucket')
    BY DEF Left
  <2>2. Len(bucket') = 0
    BY <1>3
  <2>3. QED  BY <1>1, <1>3, <2>1, <2>2
<1>14. QED  BY <1>3, <1>4, <1>5, <1>7, <1>8, <1>10, <1>11, <1>12, <1>13 DEF U

------------------------------------------------------------------------------
(* Results that are put in order.                                          *)
LEMMA InOrderTyped ==
  ASSUME NEW o, NEW s \in Seq(Iterator(o)!Item)
  PROVE  /\ Iterator(o)!InOrder(s) \in Seq(DOMAIN stream)
         /\ Len(Iterator(o)!InOrder(s)) = Len(s)
<1> DEFINE U == Iterator(o)!Item
           key == [k \in DOMAIN s |-> s[k].index]
           r == SortedBy(s, key)
<1>1. \A x \in U : x.example \in DOMAIN stream /\ x.index \in Nat
  BY DEF Iterator!Item
<1>2. Len(s) \in Nat /\ DOMAIN s = 1 .. Len(s) /\ \A k \in 1 .. Len(s) : s[k] \in U
  OBVIOUS
<1>3. key \in [1 .. Len(s) -> Int]
  BY <1>1, <1>2
<1> HIDE DEF U, key
<1>4. s \in Seq(U)
  BY DEF U
<1>5. r \in Seq(U) /\ \E place : IsShuffle(place, s, r)
  BY <1>3, <1>4, SortedByPlaces
<1>6. Iterator(o)!InOrder(s) = [k \in DOMAIN r |-> r[k].example]
  BY DEF Iterator!InOrder, Iterator!Examples, Iterator!SortedBy, SortedBy, key,
         Iterator!Cardinality, Cardinality
<1> HIDE DEF r
<1>7. DOMAIN r = 1 .. Len(s) /\ \A k \in 1 .. Len(s) : r[k].example \in DOMAIN stream
  BY <1>1, <1>2, <1>5 DEF IsShuffle
<1> DEFINE q == [k \in 1 .. Len(s) |-> r[k].example]
<1>8. q \in [1 .. Len(s) -> DOMAIN stream]
  BY <1>7
<1>9. Iterator(o)!InOrder(s) = q
  BY <1>6, <1>7
<1> HIDE DEF q
<1>10. QED  BY <1>2, <1>8, <1>9

LEMMA InOrderFrom ==
  ASSUME NEW o, NEW s \in Seq(Iterator(o)!Item), NEW b \in Nat, NEW n \in Nat,
         Apart(s), From(s, b), Ex(s) = b + 1 .. b + n
  PROVE  /\ Len(s) = n
         /\ \A k \in 1 .. n : Iterator(o)!InOrder(s)[k] = b + k
<1> DEFINE U == Iterator(o)!Item
           key == [k \in DOMAIN s |-> s[k].index]
           r == SortedBy(s, key)
           f == [k \in 1 .. Len(s) |-> s[k].example]
<1>1. \A x \in U : x.example \in DOMAIN stream /\ x.index \in Nat
  BY DEF Iterator!Item
<1>2. Len(s) \in Nat /\ DOMAIN s = 1 .. Len(s) /\ \A k \in 1 .. Len(s) : s[k] \in U
  OBVIOUS
<1>3. Len(s) = n
  <2>1. \A k \in 1 .. Len(s) : s[k].example \in b + 1 .. b + n
    BY <1>2 DEF Ex
  <2>2. \A k, l \in 1 .. Len(s) : s[k].example = s[l].example => k = l
    BY <1>2 DEF Apart
  <2>3. \A m \in b + 1 .. b + n : \E k \in 1 .. Len(s) : s[k].example = m
    BY <1>2 DEF Ex
  <2>4. f \in Injection(1 .. Len(s), b + 1 .. b + n)
    BY <2>1, <2>2, Fun_IsInj
  <2>5. f \in Surjection(1 .. Len(s), b + 1 .. b + n)
    BY <2>1, <2>3, Fun_IsSurj
  <2>6. IsFiniteSet(b + 1 .. b + n) /\ Cardinality(b + 1 .. b + n) = n
    <3>1. b + 1 \in Int /\ b + n \in Int
      OBVIOUS
    <3>2. /\ IsFiniteSet(b + 1 .. b + n)
          /\ Cardinality(b + 1 .. b + n)
               = IF b + 1 > b + n THEN 0 ELSE (b + n) - (b + 1) + 1
      BY <3>1, FS_Interval
    <3>3. QED  BY <3>2
  <2>7. Cardinality(1 .. Len(s)) = n
    BY <2>4, <2>5, <2>6, FS_Injection
  <2>8. QED  BY <1>2, <2>7, Intervals
<1>4. \A k \in 1 .. n : /\ s[k].index \in Nat /\ s[k].example = b + s[k].index + 1
                        /\ s[k].example \in b + 1 .. b + n
  BY <1>1, <1>2, <1>3 DEF From, Ex
<1>5. \A k \in 1 .. n : s[k].index \in 0 .. n - 1
  BY <1>4
<1>6. key \in [1 .. Len(s) -> 0 .. Len(s) - 1]
  BY <1>2, <1>3, <1>5
<1>7. ASSUME NEW i \in 1 .. Len(s), NEW j \in 1 .. Len(s), key[i] = key[j]
      PROVE  i = j
  <2>1. s[i].index = s[j].index
    BY <1>2, <1>7
  <2>2. s[i].example = s[j].example
    BY <1>3, <1>4, <2>1
  <2>3. QED  BY <1>2, <2>2 DEF Apart
<1>8. s \in Seq(U)
  OBVIOUS
<1> HIDE DEF U
<1>9. key = [k \in 1 .. Len(s) |-> s[k].index]
  BY <1>2
<1>10. Iterator(o)!InOrder(s) = [k \in DOMAIN r |-> r[k].example]
  BY DEF Iterator!InOrder, Iterator!Examples, Iterator!SortedBy, SortedBy, key,
         Iterator!Cardinality, Cardinality
<1> HIDE DEF key, r
<1>11. \A k \in 1 .. Len(s) : \E i \in 1 .. Len(s) : key[i] = k - 1 /\ r[k] = s[i]
  <2>1. Numbers(key, Len(s))
    BY <1>6, <1>7 DEF Numbers
  <2>2. \A k \in 1 .. Len(s) :
          \E i \in 1 .. Len(s) : key[i] = k - 1 /\ SortedBy(s, key)[k] = s[i]
    BY <1>8, <2>1, SortedByRank
  <2>3. QED  BY <2>2 DEF r
<1>12. r \in Seq(U) /\ \E place : IsShuffle(place, s, r)
  <2>1. key \in [1 .. Len(s) -> Int]
    BY <1>2, <1>6
  <2>2. QED  BY <1>8, <2>1, SortedByPlaces DEF r
<1>13. DOMAIN r = 1 .. n
  BY <1>2, <1>3, <1>12 DEF IsShuffle
<1>14. ASSUME NEW k \in 1 .. n PROVE Iterator(o)!InOrder(s)[k] = b + k
  <2>1. PICK i \in 1 .. n : key[i] = k - 1 /\ r[k] = s[i]
    BY <1>3, <1>11
  <2>2. s[i].index = k - 1
    BY <1>3, <1>9, <2>1
  <2>3. r[k].example = b + (k - 1) + 1
    BY <1>4, <2>1, <2>2
  <2>4. QED  BY <1>10, <1>13, <2>3
<1>15. QED  BY <1>3, <1>14

(* The elements of a list are elements of another.                         *)
Part(t, s) == \A k \in DOMAIN t : \E i \in DOMAIN s : t[k] = s[i]

LEMMA PartFrom ==
  ASSUME NEW s, NEW t, Part(t, s), NEW b, From(s, b)
  PROVE  From(t, b)
BY DEF Part, From

LEMMA AppendFrom ==
  ASSUME NEW T, NEW s \in Seq(T), NEW x \in T, NEW b, From(s, b),
         x.example = b + x.index + 1
  PROVE  From(Append(s, x), b)
<1> DEFINE n == Len(s)
           t == Append(s, x)
<1>1. /\ n \in Nat /\ DOMAIN s = 1 .. n /\ DOMAIN t = 1 .. n + 1
      /\ \A k \in 1 .. n : t[k] = s[k]
      /\ t[n + 1] = x
  OBVIOUS
<1> HIDE DEF n, t
<1>2. \A k \in 1 .. n + 1 : k \in 1 .. n \/ k = n + 1
  BY <1>1
<1>3. From(t, b)
  BY <1>1, <1>2 DEF From
<1>4. QED  BY <1>3 DEF t

(* The next item of the bucket is taken.                                   *)
LEMMA TakingFacts ==
  ASSUME NEW o, Iterator(o)!BatchingAssumption, Iterator(o)!TypeOK, NEW x,
         Iterator(o)!Taking(x)
  PROVE  /\ x \in Iterator(o)!Item /\ data' \in Seq(Iterator(o)!Item)
         /\ Ex(data) = {x.example} \cup Ex(data')
         /\ Apart(data) => Apart(data') /\ x.example \notin Ex(data')
         /\ \A b : From(data, b) => From(data', b) /\ x.example = b + x.index + 1
         /\ phase = "batching" /\ data # <<>> /\ Left' = Left
         /\ UNCHANGED <<stream, taken, current_bucket_size, bucket, bucket_idx,
                        phase, consumed, prev_idx, bucket_predictions, output>>
<1> DEFINE U == Iterator(o)!Item
<1>1. /\ data # <<>> /\ x = Head(data) /\ data' = Tail(data) /\ phase = "batching"
      /\ UNCHANGED <<stream, taken, current_bucket_size, bucket, bucket_idx,
                     phase, consumed, prev_idx, bucket_predictions, output>>
  BY DEF Iterator!Taking, Iterator!source, Iterator!results
<1>2. data \in Seq(U)
  BY DEF Iterator!TypeOK
<1> HIDE DEF U
<1>3. /\ data' \in Seq(U) /\ x \in U
      /\ Ex(data) = {x.example} \cup Ex(data')
      /\ Apart(data) => Apart(data') /\ x.example \notin Ex(data')
  BY <1>1, <1>2, TailEx
<1>4. /\ x = data[1] /\ 1 \in DOMAIN data
      /\ \A k \in DOMAIN data' : data'[k] = data[k + 1] /\ k + 1 \in DOMAIN data
  BY <1>1, <1>2
<1>5. ASSUME NEW b, From(data, b)
      PROVE  From(data', b) /\ x.example = b + x.index + 1
  BY <1>4, <1>5 DEF From
<1>6. Left' = Left
  BY <1>1 DEF Left
<1>7. QED  BY <1>1, <1>3, <1>5, <1>6 DEF U

(* Where a batch is cut: a is completed, b starts the next batch.          *)
IsCut(o, a, b, x, over) ==
    /\ a \in Seq(Iterator(o)!Item) /\ b \in Seq(Iterator(o)!Item)
    /\ batches' = Append(batches, a) /\ minibatch' = b
    /\ Len(a) \in 1 .. Len(minibatch) /\ Len(b) = over
    /\ \A k \in 1 .. Len(a) : a[k] = minibatch[k]
    /\ Ex(a) \cup Ex(b) = Ex(minibatch) \cup {x.example}
    /\ Apart(minibatch) /\ x.example \notin Ex(minibatch) =>
         Apart(a) /\ Apart(b) /\ Ex(a) \cap Ex(b) = {}
    /\ \A c : From(minibatch, c) /\ x.example = c + x.index + 1 =>
         From(a, c) /\ From(b, c)

LEMMA CutFacts ==
  ASSUME NEW o, Iterator(o)!BatchingAssumption, Iterator(o)!TypeOK, NEW x,
         Iterator(o)!OverflowBatch(x)
  PROVE  \E a, b : IsCut(o, a, b, x, Iterator(o)!Overflow(Append(minibatch, x)))
<1> DEFINE U == Iterator(o)!Item
           batch == Append(minibatch, x)
           over == Iterator(o)!Overflow(batch)
           n == Len(minibatch)
           m == Len(batch) - over
           a == SubSeq(batch, 1, m)
           b == SubSeq(batch, m + 1, Len(batch))
<1>1. x \in U /\ minibatch \in Seq(U)
  BY TakingFacts, StateFacts DEF Iterator!OverflowBatch
<1>2. /\ over \in 1 .. Len(batch) - 1
      /\ batches' = Append(batches, SubSeq(batch, 1, Len(batch) - over))
      /\ minibatch' = SubSeq(batch, Len(batch) - over + 1, Len(batch))
  BY DEF Iterator!OverflowBatch
<1> HIDE DEF U, over
<1>3. /\ batch \in Seq(U) /\ Len(batch) = n + 1 /\ n \in Nat
      /\ \A k \in 1 .. n : batch[k] = minibatch[k]
      /\ DOMAIN batch = 1 .. n + 1
  BY <1>1
<1>4. /\ Ex(batch) = Ex(minibatch) \cup {x.example}
      /\ Apart(batch) <=> Apart(minibatch) /\ x.example \notin Ex(minibatch)
  BY <1>1, AppendEx
<1>5. \A c : From(minibatch, c) /\ x.example = c + x.index + 1 => From(batch, c)
  BY <1>1, AppendFrom
<1> HIDE DEF batch, n
<1>6. m \in 1 .. n /\ m \in 0 .. Len(batch) /\ Len(batch) - m = over
  BY <1>2, <1>3
<1>7. batches' = Append(batches, a) /\ minibatch' = b
  BY <1>2
<1> HIDE DEF m
<1>8. /\ a \in Seq(U) /\ b \in Seq(U) /\ Len(a) = m /\ Len(b) = Len(batch) - m
      /\ \A k \in 1 .. m : a[k] = batch[k]
      /\ \A k \in 1 .. Len(batch) - m : b[k] = batch[m + k]
      /\ Ex(batch) = Ex(a) \cup Ex(b)
      /\ Apart(batch) => Apart(a) /\ Apart(b) /\ Ex(a) \cap Ex(b) = {}
  <2>1. batch \in Seq(U) /\ m \in 0 .. Len(batch)
    BY <1>3, <1>6
  <2> HIDE DEF a, b
  <2>2. IsCutting(U, batch, m, a, b)
    BY <2>1, CutEx DEF a, b
  <2>3. QED  BY <2>2 DEF IsCutting
<1> HIDE DEF a, b
<1>9. Part(a, batch) /\ Part(b, batch)
  <2>1. DOMAIN a = 1 .. m /\ \A k \in 1 .. m : k \in 1 .. n + 1
    BY <1>3, <1>6, <1>8
  <2>2. Part(a, batch)
    BY <1>3, <1>8, <2>1 DEF Part
  <2>3. DOMAIN b = 1 .. Len(batch) - m
          /\ \A k \in 1 .. Len(batch) - m : m + k \in 1 .. n + 1
    BY <1>3, <1>6, <1>8
  <2>4. Part(b, batch)
    BY <1>3, <1>8, <2>3 DEF Part
  <2>5. QED  BY <2>2, <2>4
<1>10. \A c : From(minibatch, c) /\ x.example = c + x.index + 1 =>
                From(a, c) /\ From(b, c)
  BY <1>5, <1>9, PartFrom
<1>11. \A k \in 1 .. Len(a) : a[k] = minibatch[k]
  BY <1>3, <1>6, <1>8
<1>12. Len(a) \in 1 .. Len(minibatch) /\ Len(b) = over
  BY <1>6, <1>8 DEF n
<1>13. IsCut(o, a, b, x, over)
  BY <1>4, <1>7, <1>8, <1>10, <1>11, <1>12 DEF IsCut, U
<1>14. QED  BY <1>13 DEF over, batch

(* What reads the stream says the same of it in the next state.            *)
LEMMA SameCost ==
  ASSUME NEW o, stream' = stream, NEW batch
  PROVE  Iterator(o)!Cost(batch)' = Iterator(o)!Cost(batch)
BY DEF Iterator!Cost, Iterator!Length

LEMMA SameFits ==
  ASSUME NEW o, stream' = stream, NEW batch
  PROVE  Fits(o, batch)' <=> Fits(o, batch)
BY SameCost DEF Fits

LEMMA SameItem ==
  ASSUME NEW o, stream' = stream
  PROVE  Iterator(o)!Item' = Iterator(o)!Item
BY DEF Iterator!Item

LEMMA SeenText ==
  ASSUME NEW o, NEW x \in Iterator(o)!Item, Iterator(o)!TypeOK, Iterator(o)!See(x)
  PROVE  seen' \subseteq {stream[n].text : n \in DOMAIN stream}
<1>1. Iterator(o)!Text(x) \in {stream[n].text : n \in DOMAIN stream}
  BY DEF Iterator!Item, Iterator!Text
<1>2. QED  BY <1>1 DEF Iterator!See, Iterator!TypeOK

------------------------------------------------------------------------------
(* Each step keeps the types and what each phase has finished.             *)
LEMMA CollectTyped ==
  ASSUME NEW o, Iterator(o)!BatchingAssumption, Iterator(o)!TypeOK, PhaseInv,
         Iterator(o)!Collect
  PROVE  Iterator(o)!TypeOK' /\ PhaseInv' /\ Left' = Left
<1>1. /\ phase = "bucketing" /\ taken + 1 < Len(stream)
      /\ Len(bucket) + 1 < current_bucket_size
      /\ taken' = taken + 1 /\ bucket' = Append(bucket, taken + 1)
      /\ UNCHANGED <<stream, phase, current_bucket_size, bucket_idx, data, minibatch,
                     seen, batches, consumed, prev_idx, bucket_predictions, output>>
  BY DEF Iterator!Collect, Iterator!cutting, Iterator!results
<1>2. /\ taken \in Nat /\ Len(stream) \in Nat /\ DOMAIN stream = 1 .. Len(stream)
      /\ bucket \in Seq(DOMAIN stream) /\ Len(bucket) \in Nat
      /\ DOMAIN bucket = 1 .. Len(bucket)
      /\ Left \in Nat /\ taken = Left + Len(bucket)
  BY StateFacts, LeftFacts
<1>3. taken + 1 \in DOMAIN stream /\ taken + 1 \in 0 .. Len(stream)
  BY <1>1, <1>2
<1>4. /\ bucket' \in Seq(DOMAIN stream) /\ Len(bucket') = Len(bucket) + 1
      /\ DOMAIN bucket' = 1 .. Len(bucket) + 1
      /\ \A k \in 1 .. Len(bucket) : bucket'[k] = bucket[k]
      /\ bucket'[Len(bucket) + 1] = taken + 1
  <2> DEFINE D == DOMAIN stream
  <2>1. bucket \in Seq(D) /\ taken + 1 \in D
    BY <1>2, <1>3
  <2> HIDE DEF D
  <2>2. QED  BY <1>1, <2>1 DEF D
<1>5. Left' = Left
  BY <1>1, <1>2, <1>4 DEF Left
<1>6. Iterator(o)!TypeOK'
  BY <1>1, <1>3, <1>4, SameItem DEF Iterator!TypeOK
<1>7. \A k \in DOMAIN bucket' : bucket'[k] = Left' + k
  <2>1. \A k \in 1 .. Len(bucket) : bucket'[k] = Left + k
    BY <1>2, <1>4 DEF PhaseInv
  <2>2. \A k \in 1 .. Len(bucket) + 1 : k \in 1 .. Len(bucket) \/ k = Len(bucket) + 1
    BY <1>2
  <2>3. taken + 1 = Left + (Len(bucket) + 1)
    BY <1>2
  <2>4. ASSUME NEW k \in 1 .. Len(bucket) + 1 PROVE bucket'[k] = Left + k
    BY <1>4, <2>1, <2>2, <2>3
  <2>5. QED  BY <1>4, <1>5, <2>4
<1>8. PhaseInv'
  BY <1>1, <1>7 DEF PhaseInv
<1>9. QED  BY <1>5, <1>6, <1>8

LEMMA FillTyped ==
  ASSUME NEW o, Iterator(o)!BatchingAssumption, Iterator(o)!TypeOK, PhaseInv,
         Iterator(o)!FillBucket
  PROVE  Iterator(o)!TypeOK' /\ PhaseInv'
<1>1. /\ phase = "bucketing" /\ bucket' = <<>>
      /\ current_bucket_size' = IF Len(bucket) + 1 = current_bucket_size
                                THEN Iterator(o)!Grow(current_bucket_size)
                                ELSE current_bucket_size
      /\ UNCHANGED <<stream, bucket_idx, minibatch,
                     seen, batches, consumed, prev_idx, bucket_predictions, output>>
  BY DEF Iterator!FillBucket, Iterator!results
<1>2. /\ data' \in Seq(Iterator(o)!Item)
      /\ taken' = taken + 1 /\ taken + 1 <= Len(stream)
      /\ phase' \in {"batching", "failed"} /\ (phase' = "failed" => data' = <<>>)
  BY FillFacts
<1>3. /\ current_bucket_size' \in Nat \ {0}
      /\ \/ current_bucket_size' <= Options[o].bucket_size
         \/ current_bucket_size' <= Options[o].bucket_size_init
  <2>1. /\ Options[o].bucket_size \in Nat \ {0}
        /\ Options[o].bucket_size_increment \in Nat
        /\ current_bucket_size \in Nat \ {0}
        /\ \/ current_bucket_size <= Options[o].bucket_size
           \/ current_bucket_size <= Options[o].bucket_size_init
    BY OptionFacts, StateFacts DEF Iterator!TypeOK
  <2> DEFINE grown == Iterator(o)!Grow(current_bucket_size)
  <2>2. /\ grown \in Nat \ {0}
        /\ grown <= Options[o].bucket_size \/ grown = current_bucket_size
    BY <2>1 DEF Iterator!Grow, Iterator!Smaller
  <2> HIDE DEF grown
  <2>3. current_bucket_size' = grown \/ current_bucket_size' = current_bucket_size
    BY <1>1 DEF grown
  <2>4. QED  BY <2>1, <2>2, <2>3
<1>4. /\ taken' \in 0 .. Len(stream) /\ bucket' \in Seq(DOMAIN stream)
      /\ Len(bucket') = 0 /\ DOMAIN bucket' = {}
  BY <1>1, <1>2, StateFacts
<1>5. Iterator(o)!TypeOK'
  BY <1>1, <1>2, <1>3, <1>4, SameItem DEF Iterator!TypeOK
<1>6. minibatch = <<>> /\ seen = {} /\ batches = <<>>
  BY <1>1 DEF PhaseInv
<1>7. PhaseInv'
  BY <1>1, <1>2, <1>4, <1>6 DEF PhaseInv
<1>8. QED  BY <1>5, <1>7

(* What batch_iter does with an item leaves the rest as it is.             *)
LEMMA ItemTyped ==
  ASSUME NEW o, Iterator(o)!BatchingAssumption, Iterator(o)!TypeOK, PhaseInv, NEW x,
         Iterator(o)!Taking(x),
         minibatch' \in Seq(Iterator(o)!Item),
         seen' \subseteq {stream[n].text : n \in DOMAIN stream},
         batches' \in Seq(Seq(Iterator(o)!Item)),
         \A k \in DOMAIN batches' : batches'[k] # <<>>
  PROVE  Iterator(o)!TypeOK' /\ PhaseInv'
<1>1. /\ data' \in Seq(Iterator(o)!Item) /\ phase = "batching" /\ Left' = Left
      /\ UNCHANGED <<stream, taken, current_bucket_size, bucket, bucket_idx,
                     phase, consumed, prev_idx, bucket_predictions, output>>
  BY TakingFacts
<1>2. Iterator(o)!TypeOK'
  BY <1>1, SameItem DEF Iterator!TypeOK
<1>3. PhaseInv'
  BY <1>1 DEF PhaseInv
<1>4. QED  BY <1>2, <1>3

LEMMA AppendNonEmpty ==
  ASSUME NEW T, NEW f \in Seq(Seq(T)), NEW s \in Seq(T), s # <<>>,
         \A k \in DOMAIN f : f[k] # <<>>
  PROVE  \A k \in DOMAIN Append(f, s) : Append(f, s)[k] # <<>>
BY AppendExs

LEMMA LastTyped ==
  ASSUME NEW o, Iterator(o)!BatchingAssumption, Iterator(o)!TypeOK, PhaseInv,
         Iterator(o)!LastBatch
  PROVE  Iterator(o)!TypeOK' /\ PhaseInv' /\ Left' = Left
<1>1. /\ phase = "batching" /\ data = <<>> /\ phase' = "consuming"
      /\ batches' = IF minibatch = <<>> THEN batches ELSE Append(batches, minibatch)
      /\ minibatch' = <<>> /\ seen' = {}
      /\ UNCHANGED <<stream, taken, current_bucket_size, bucket, bucket_idx,
                     data, consumed, prev_idx, bucket_predictions, output>>
  BY DEF Iterator!LastBatch, Iterator!source, Iterator!results
<1> DEFINE U == Iterator(o)!Item
<1>2. minibatch \in Seq(U) /\ batches \in Seq(Seq(U))
  BY StateFacts
<1>3. \A k \in DOMAIN batches : batches[k] # <<>>
  BY DEF PhaseInv
<1> HIDE DEF U
<1>4. batches' \in Seq(Seq(U)) /\ \A k \in DOMAIN batches' : batches'[k] # <<>>
  <2>1. CASE minibatch = <<>>
    BY <1>1, <1>2, <1>3, <2>1
  <2>2. CASE minibatch # <<>>
    <3>1. batches' = Append(batches, minibatch)
      BY <1>1, <2>2
    <3>2. QED  BY <1>2, <1>3, <2>2, <3>1, AppendNonEmpty, AppendExs
  <2>3. QED  BY <2>1, <2>2
<1>5. minibatch' \in Seq(U)
  BY <1>1
<1>6. Iterator(o)!TypeOK'
  BY <1>1, <1>4, <1>5, SameItem DEF Iterator!TypeOK, U
<1>7. Left' = Left
  BY <1>1 DEF Left
<1>8. PhaseInv'
  BY <1>1, <1>4, <1>7 DEF PhaseInv
<1>9. QED  BY <1>6, <1>7, <1>8

LEMMA NextTyped ==
  ASSUME NEW o, Iterator(o)!BatchingAssumption, Iterator(o)!TypeOK, PhaseInv,
         Iterator(o)!NextBucket
  PROVE  Iterator(o)!TypeOK' /\ PhaseInv' /\ Left' = Left
<1>1. /\ phase = "consuming" /\ batches = <<>> /\ phase' = "bucketing"
      /\ bucket_idx' = bucket_idx + 1
      /\ UNCHANGED <<stream, taken, current_bucket_size, bucket, data, minibatch,
                     seen, batches, consumed, prev_idx, bucket_predictions, output>>
  BY DEF Iterator!NextBucket, Iterator!cutting, Iterator!results
<1>2. Left' = Left
  BY <1>1 DEF Left
<1>3. bucket_idx' \in Nat
  BY <1>1, StateFacts
<1>4. Iterator(o)!TypeOK'
  BY <1>1, <1>3, SameItem DEF Iterator!TypeOK
<1>5. PhaseInv'
  BY <1>1, <1>2 DEF PhaseInv
<1>6. QED  BY <1>2, <1>4, <1>5

LEMMA FinishTyped ==
  ASSUME NEW o, Iterator(o)!BatchingAssumption, Iterator(o)!TypeOK, PhaseInv,
         Iterator(o)!Finish
  PROVE  Iterator(o)!TypeOK' /\ PhaseInv' /\ Left' = Left
<1>1. /\ phase = "consuming" /\ batches = <<>> /\ phase' = "done"
      /\ taken = Len(stream)
      /\ output' = output \o Iterator(o)!InOrder(bucket_predictions)
      /\ bucket_predictions' = <<>>
      /\ UNCHANGED <<stream, taken, current_bucket_size, bucket, bucket_idx, data,
                     minibatch, seen, batches, consumed, prev_idx>>
  BY DEF Iterator!Finish, Iterator!source, Iterator!cutting
<1>2. Left' = Left
  BY <1>1 DEF Left
<1> DEFINE D == DOMAIN stream  U == Iterator(o)!Item
           r == Iterator(o)!InOrder(bucket_predictions)
<1>3. output \in Seq(D) /\ r \in Seq(D)
  BY StateFacts, InOrderTyped
<1> HIDE DEF D, U, r
<1>4. output \o r \in Seq(D)
  BY <1>3
<1>5. Iterator(o)!TypeOK'
  <2>1. output' \in Seq(DOMAIN stream')
    BY <1>1, <1>4 DEF D, r
  <2>2. bucket_predictions' \in Seq(Iterator(o)!Item')
    BY <1>1
  <2>3. QED  BY <1>1, <2>1, <2>2, SameItem DEF Iterator!TypeOK
<1>6. PhaseInv'
  BY <1>1, <1>2 DEF PhaseInv
<1>7. QED  BY <1>2, <1>5, <1>6

LEMMA ConsumeFacts ==
  ASSUME NEW o, Iterator(o)!BatchingAssumption, Iterator(o)!TypeOK, PhaseInv,
         NEW k \in DOMAIN batches, Iterator(o)!Consume(k)
  PROVE  /\ phase = "consuming" /\ batches' = Removed(batches, k)
         /\ consumed' = Append(consumed, batches[k])
         /\ batches[k] \in Seq(Iterator(o)!Item) /\ Left' = Left
         /\ UNCHANGED <<stream, phase, taken, current_bucket_size, bucket, bucket_idx,
                        data, minibatch, seen>>
         /\ Options[o].task # "train" => k = 1
         /\ Options[o].task = "train" => Iterator(o)!Train(batches[k])
         /\ Options[o].task = "predict" => Iterator(o)!Predict(batches[k])
         /\ Options[o].task = "score" => Iterator(o)!Score(batches[k])
         /\ batches # <<>>
<1>1. Options[o].task \in {"train", "predict", "score"}
  BY OptionFacts
<1>2. batches \in Seq(Seq(Iterator(o)!Item))
  BY StateFacts
<1>3. batches[k] \in Seq(Iterator(o)!Item) /\ batches # <<>>
  <2> DEFINE U == Iterator(o)!Item
  <2>1. batches \in Seq(Seq(U))
    BY <1>2
  <2> HIDE DEF U
  <2>2. batches[k] \in Seq(U) /\ batches # <<>>
    BY <2>1
  <2>3. QED  BY <2>2 DEF U
<1>4. /\ UNCHANGED <<stream, phase, taken, current_bucket_size, bucket, bucket_idx,
                     data, minibatch, seen>>
      /\ phase = "consuming" /\ batches' = Removed(batches, k)
      /\ consumed' = Append(consumed, batches[k])
      /\ Options[o].task # "train" => k = 1
  BY DEF Iterator!Consume, Iterator!source, Iterator!cutting, Iterator!Without, Removed
<1>5. Left' = Left
  BY <1>4 DEF Left
<1>6. CASE Options[o].task = "train"
  BY <1>3, <1>4, <1>5, <1>6 DEF Iterator!Consume
<1>7. CASE Options[o].task = "predict"
  BY <1>3, <1>4, <1>5, <1>7 DEF Iterator!Consume
<1>8. CASE Options[o].task = "score"
  BY <1>3, <1>4, <1>5, <1>8 DEF Iterator!Consume
<1>9. QED  BY <1>1, <1>6, <1>7, <1>8

LEMMA ConsumeTyped ==
  ASSUME NEW o, Iterator(o)!BatchingAssumption, Iterator(o)!TypeOK, PhaseInv,
         NEW k \in DOMAIN batches, Iterator(o)!Consume(k)
  PROVE  Iterator(o)!TypeOK' /\ PhaseInv'
<1> DEFINE U == Iterator(o)!Item
           D == DOMAIN stream
           batch == batches[k]
           all == bucket_predictions \o batch
<1>1. /\ phase = "consuming" /\ batches' = Removed(batches, k)
      /\ consumed' = Append(consumed, batch) /\ batch \in Seq(U) /\ Left' = Left
      /\ UNCHANGED <<stream, phase, taken, current_bucket_size, bucket, bucket_idx,
                     data, minibatch, seen>>
      /\ Options[o].task = "train" => Iterator(o)!Train(batch)
      /\ Options[o].task = "predict" => Iterator(o)!Predict(batch)
      /\ Options[o].task = "score" => Iterator(o)!Score(batch)
  BY ConsumeFacts
<1>2. /\ batches \in Seq(Seq(U)) /\ consumed \in Seq(Seq(U))
      /\ bucket_predictions \in Seq(U) /\ output \in Seq(D)
      /\ prev_idx \in Nat /\ bucket_idx \in Nat
  BY StateFacts
<1>3. all \in Seq(U) /\ Iterator(o)!InOrder(all) \in Seq(D)
        /\ Iterator(o)!InOrder(bucket_predictions) \in Seq(D)
  <2>1. all \in Seq(U)
    <3> HIDE DEF U, batch
    <3>1. QED  BY <1>1, <1>2
  <2> HIDE DEF all
  <2>2. QED  BY <1>2, <2>1, InOrderTyped
<1>4. /\ batches' \in Seq(Seq(U)) /\ consumed' \in Seq(Seq(U))
      /\ \A i \in DOMAIN batches' : batches'[i] # <<>>
  <2>1. \A i \in DOMAIN batches : batches[i] # <<>>
    BY DEF PhaseInv
  <2> HIDE DEF U, batch
  <2>2. QED  BY <1>1, <1>2, <2>1, WithoutExs, AppendExs
<1> HIDE DEF U, D, batch, all
<1>5. /\ prev_idx' \in Nat /\ bucket_predictions' \in Seq(U) /\ output' \in Seq(D)
  <2>1. CASE Options[o].task = "train"
    BY <1>1, <1>2, <2>1 DEF Iterator!Train, Iterator!results
  <2>2. CASE Options[o].task = "predict"
    <3>1. /\ prev_idx' \in {prev_idx, bucket_idx, bucket_idx + 1}
          /\ output' \in {output, output \o Iterator(o)!InOrder(all)}
          /\ bucket_predictions' \in {<<>>, all}
      BY <1>1, <2>2 DEF Iterator!Predict, all
    <3>2. output \o Iterator(o)!InOrder(all) \in Seq(D)
      BY <1>2, <1>3
    <3>3. bucket_idx + 1 \in Nat /\ <<>> \in Seq(U)
      BY <1>2
    <3>4. prev_idx' \in Nat
      BY <1>2, <3>1, <3>3
    <3>5. output' \in Seq(D) /\ bucket_predictions' \in Seq(U)
      BY <1>2, <1>3, <3>1, <3>2, <3>3, Zenon
    <3>6. QED  BY <3>4, <3>5
  <2>3. CASE Options[o].task = "score"
    <3>1. /\ prev_idx' \in {prev_idx, prev_idx + 1}
          /\ output' \in {output, output \o Iterator(o)!InOrder(bucket_predictions)}
          /\ bucket_predictions' \in {batch, all}
      BY <1>1, <2>3 DEF Iterator!Score, all
    <3>2. output \o Iterator(o)!InOrder(bucket_predictions) \in Seq(D)
      BY <1>2, <1>3
    <3>3. prev_idx' \in Nat
      BY <1>2, <3>1
    <3>4. output' \in Seq(D) /\ bucket_predictions' \in Seq(U)
      BY <1>1, <1>2, <1>3, <3>1, <3>2, Zenon
    <3>5. QED  BY <3>3, <3>4
  <2>4. QED  BY <2>1, <2>2, <2>3, OptionFacts
<1>6. Iterator(o)!TypeOK'
  BY <1>1, <1>4, <1>5, SameItem DEF Iterator!TypeOK, U, D
<1>7. PhaseInv'
  BY <1>1, <1>4 DEF PhaseInv
<1>8. QED  BY <1>6, <1>7

------------------------------------------------------------------------------
(* What batch_iter does with an item.                                      *)
LEMMA AddFacts ==
  ASSUME NEW o, Iterator(o)!BatchingAssumption, Iterator(o)!TypeOK, PhaseInv,
         NEW x, Iterator(o)!AddToBatch(x)
  PROVE  /\ Iterator(o)!TypeOK' /\ PhaseInv'
         /\ Ex(minibatch') = Ex(minibatch) \cup {x.example}
         /\ Apart(minibatch') <=> Apart(minibatch) /\ x.example \notin Ex(minibatch)
         /\ \A b : From(minibatch, b) /\ x.example = b + x.index + 1 => From(minibatch', b)
         /\ minibatch' = Append(minibatch, x) /\ x \in Iterator(o)!Item
         /\ Iterator(o)!Taking(x) /\ batches' = batches /\ Iterator(o)!See(x)
         /\ ~ Iterator(o)!Duplicate(x)
<1> DEFINE U == Iterator(o)!Item
<1>1. /\ Iterator(o)!Taking(x) /\ minibatch' = Append(minibatch, x)
      /\ Iterator(o)!See(x) /\ batches' = batches /\ ~ Iterator(o)!Duplicate(x)
  BY DEF Iterator!AddToBatch
<1>2. x \in U /\ minibatch \in Seq(U) /\ batches \in Seq(Seq(U))
  BY <1>1, TakingFacts, StateFacts
<1>3. seen' \subseteq {stream[n].text : n \in DOMAIN stream}
  BY <1>1, <1>2, SeenText
<1>4. \A k \in DOMAIN batches : batches[k] # <<>>
  BY DEF PhaseInv
<1> HIDE DEF U
<1>5. /\ minibatch' \in Seq(U)
      /\ Ex(minibatch') = Ex(minibatch) \cup {x.example}
      /\ Apart(minibatch') <=> Apart(minibatch) /\ x.example \notin Ex(minibatch)
  BY <1>1, <1>2, AppendEx
<1>6. \A b : From(minibatch, b) /\ x.example = b + x.index + 1 => From(minibatch', b)
  BY <1>1, <1>2, AppendFrom
<1>7. Iterator(o)!TypeOK' /\ PhaseInv'
  BY <1>1, <1>2, <1>3, <1>4, <1>5, ItemTyped DEF U
<1>8. QED  BY <1>1, <1>2, <1>5, <1>6, <1>7 DEF U

LEMMA SkipTyped ==
  ASSUME NEW o, Iterator(o)!BatchingAssumption, Iterator(o)!TypeOK, PhaseInv,
         NEW x, Iterator(o)!SkipDuplicate(x)
  PROVE  /\ Iterator(o)!TypeOK' /\ PhaseInv' /\ Iterator(o)!Taking(x)
         /\ UNCHANGED <<minibatch, seen, batches>>
         /\ Options[o].task = "train" /\ stream[x.example].text \in seen
<1>1. /\ Iterator(o)!Taking(x) /\ UNCHANGED <<minibatch, seen, batches>>
      /\ Options[o].task = "train" /\ stream[x.example].text \in seen
  BY DEF Iterator!SkipDuplicate, Iterator!Duplicate, Iterator!Text
<1>2. /\ minibatch \in Seq(Iterator(o)!Item) /\ batches \in Seq(Seq(Iterator(o)!Item))
      /\ seen \subseteq {stream[n].text : n \in DOMAIN stream}
      /\ \A k \in DOMAIN batches : batches[k] # <<>>
  BY DEF Iterator!TypeOK, PhaseInv
<1>3. Iterator(o)!TypeOK' /\ PhaseInv'
  BY <1>1, <1>2, ItemTyped
<1>4. QED  BY <1>1, <1>3

(* A batch is completed: a is the batch, b starts the next one.            *)
LEMMA CompleteFacts ==
  ASSUME NEW o, Iterator(o)!BatchingAssumption, Iterator(o)!TypeOK, PhaseInv,
         NEW x, Iterator(o)!CompleteBatch(x)
  PROVE  LET a == Append(minibatch, x)
         IN  /\ Iterator(o)!TypeOK' /\ PhaseInv' /\ Iterator(o)!Taking(x)
             /\ a \in Seq(Iterator(o)!Item) /\ a # <<>> /\ x \in Iterator(o)!Item
             /\ Ex(a) = Ex(minibatch) \cup {x.example}
             /\ Apart(a) <=> Apart(minibatch) /\ x.example \notin Ex(minibatch)
             /\ \A b : From(minibatch, b) /\ x.example = b + x.index + 1 => From(a, b)
             /\ batches' = Append(batches, a) /\ minibatch' = <<>> /\ seen' = {}
             /\ ~ Iterator(o)!Duplicate(x) /\ Iterator(o)!Overflow(a) = 0
<1> DEFINE U == Iterator(o)!Item
           a == Append(minibatch, x)
<1>1. /\ Iterator(o)!Taking(x) /\ batches' = Append(batches, a)
      /\ minibatch' = <<>> /\ seen' = {}
      /\ ~ Iterator(o)!Duplicate(x) /\ Iterator(o)!Overflow(a) = 0
  BY DEF Iterator!CompleteBatch
<1>2. x \in U /\ minibatch \in Seq(U) /\ batches \in Seq(Seq(U))
  BY <1>1, TakingFacts, StateFacts
<1>3. \A k \in DOMAIN batches : batches[k] # <<>>
  BY DEF PhaseInv
<1> HIDE DEF U
<1>4. /\ a \in Seq(U) /\ a # <<>>
      /\ Ex(a) = Ex(minibatch) \cup {x.example}
      /\ Apart(a) <=> Apart(minibatch) /\ x.example \notin Ex(minibatch)
  BY <1>2, AppendEx
<1>5. \A b : From(minibatch, b) /\ x.example = b + x.index + 1 => From(a, b)
  BY <1>2, AppendFrom
<1> HIDE DEF a
<1>6. batches' \in Seq(Seq(U)) /\ \A k \in DOMAIN batches' : batches'[k] # <<>>
  BY <1>1, <1>2, <1>3, <1>4, AppendExs, AppendNonEmpty
<1>7. Iterator(o)!TypeOK' /\ PhaseInv'
  <2>1. minibatch' \in Seq(Iterator(o)!Item)
          /\ seen' \subseteq {stream[n].text : n \in DOMAIN stream}
    BY <1>1
  <2>2. QED  BY <1>1, <1>6, <2>1, ItemTyped DEF U
<1>8. QED  BY <1>1, <1>2, <1>4, <1>5, <1>7 DEF U, a

LEMMA OverflowTyped ==
  ASSUME NEW o, Iterator(o)!BatchingAssumption, Iterator(o)!TypeOK, PhaseInv,
         NEW x, Iterator(o)!OverflowBatch(x)
  PROVE  /\ Iterator(o)!TypeOK' /\ PhaseInv' /\ Iterator(o)!Taking(x) /\ seen' = {}
         /\ x \in Iterator(o)!Item /\ ~ Iterator(o)!Duplicate(x)
         /\ Iterator(o)!Overflow(Append(minibatch, x)) \in 1 .. Len(minibatch)
<1> DEFINE U == Iterator(o)!Item
           over == Iterator(o)!Overflow(Append(minibatch, x))
<1>1. /\ Iterator(o)!Taking(x) /\ seen' = {} /\ ~ Iterator(o)!Duplicate(x)
      /\ over \in 1 .. (Len(Append(minibatch, x)) - 1)
  BY DEF Iterator!OverflowBatch
<1>2. PICK a, b : IsCut(o, a, b, x, over)
  BY CutFacts
<1>3. x \in U /\ minibatch \in Seq(U) /\ batches \in Seq(Seq(U))
  BY <1>1, TakingFacts, StateFacts
<1>4. over \in 1 .. Len(minibatch)
  <2> HIDE DEF U, over
  <2>1. Len(Append(minibatch, x)) - 1 = Len(minibatch)
    BY <1>3
  <2>2. QED  BY <1>1, <2>1
<1>5. /\ a \in Seq(U) /\ b \in Seq(U) /\ Len(a) \in 1 .. Len(minibatch)
      /\ batches' = Append(batches, a) /\ minibatch' = b
  BY <1>2 DEF IsCut
<1>6. \A k \in DOMAIN batches : batches[k] # <<>>
  BY DEF PhaseInv
<1> HIDE DEF U, over
<1>7. a # <<>>
  BY <1>5
<1>8. batches' \in Seq(Seq(U)) /\ \A k \in DOMAIN batches' : batches'[k] # <<>>
  BY <1>3, <1>5, <1>6, <1>7, AppendExs, AppendNonEmpty
<1>9. Iterator(o)!TypeOK' /\ PhaseInv'
  <2>1. minibatch' \in Seq(Iterator(o)!Item)
          /\ seen' \subseteq {stream[n].text : n \in DOMAIN stream}
    BY <1>1, <1>5 DEF U
  <2>2. QED  BY <1>1, <1>8, <2>1, ItemTyped DEF U
<1>10. QED  BY <1>1, <1>3, <1>4, <1>9 DEF U, over

(* Examples that only move from one place to another stay apart and kept.  *)
LEMMA MovedLost ==
  ASSUME NEW o, LostInv(o), Held' = Held, Left' = Left, stream' = stream,
         seen' \subseteq {stream[m].text : m \in Ex(minibatch')}
  PROVE  LostInv(o)'
BY DEF LostInv, LeftOut, SameText

LEMMA SameSets ==
  ASSUME NEW o, ApartInv, LostInv(o), Left' = Left, stream' = stream,
         UNCHANGED <<data, minibatch, seen, batches, consumed>>
  PROVE  ApartInv' /\ LostInv(o)'
<1>1. Held' = Held
  BY DEF Held
<1>2. ApartInv'
  BY <1>1 DEF ApartInv
<1>3. LostInv(o)'
  BY <1>1, MovedLost DEF LostInv
<1>4. QED  BY <1>2, <1>3

LEMMA FillSets ==
  ASSUME NEW o, Iterator(o)!BatchingAssumption, Iterator(o)!TypeOK, PhaseInv,
         ApartInv, LostInv(o), Iterator(o)!FillBucket
  PROVE  ApartInv' /\ LostInv(o)'
<1>1. /\ phase = "bucketing"
      /\ UNCHANGED <<stream, minibatch, seen, batches, consumed>>
  BY DEF Iterator!FillBucket, Iterator!results
<1>2. /\ Apart(data') /\ Ex(data') = Following(Left, taken + 1)
      /\ Left' = taken + 1 /\ taken + 1 <= Len(stream)
  BY FillFacts
<1>3. data = <<>> /\ minibatch = <<>> /\ batches = <<>> /\ seen = {}
  BY <1>1 DEF PhaseInv
<1>4. Ex(data) = {} /\ Ex(minibatch) = {} /\ Exs(batches) = {}
  BY <1>3, EmptyEx
<1>5. Held = Exs(consumed) /\ Held' = Exs(consumed) \cup Ex(data')
  BY <1>1, <1>4 DEF Held
<1>6. /\ Left \in Nat /\ taken \in Nat /\ Left <= taken /\ Len(stream) \in Nat
      /\ DOMAIN stream = 1 .. Len(stream)
      /\ \A n \in DOMAIN stream : stream[n].len \in Nat
  BY StateFacts, LeftFacts
<1>7. Held \subseteq 1 .. Left
  BY DEF ApartInv
<1>8. \A n \in Ex(data') : n \in Left + 1 .. taken + 1
  BY <1>2 DEF Following
<1>9. Held' \subseteq 1 .. Left'
  BY <1>2, <1>5, <1>6, <1>7, <1>8
<1>10. Ex(data') \cap Exs(consumed) = {}
  BY <1>5, <1>6, <1>7, <1>8
<1>11. ApartInv'
  <2>1. Ex(minibatch') = {} /\ Exs(batches') = {}
    BY <1>1, <1>4
  <2>2. Apart(minibatch') /\ AllApart(batches') /\ AllApart(consumed')
    BY <1>1 DEF ApartInv
  <2>3. Exs(consumed') = Exs(consumed)
    BY <1>1
  <2>4. QED  BY <1>2, <1>9, <1>10, <2>1, <2>2, <2>3 DEF ApartInv
<1>12. \A n \in (1 .. Left') \ Held' : LeftOut(o, n)'
  <2> SUFFICES ASSUME NEW n \in (1 .. taken + 1) \ Held'
               PROVE  LeftOut(o, n)'
    BY <1>2
  <2>1. CASE n \in 1 .. Left
    <3>1. n \notin Held
      BY <1>5
    <3>2. LeftOut(o, n)
      BY <2>1, <3>1 DEF LostInv
    <3>3. Held \subseteq Held'
      BY <1>5
    <3>4. QED  BY <1>1, <3>2, <3>3 DEF LeftOut, SameText
  <2>2. CASE n \notin 1 .. Left
    <3>1. n \in Left + 1 .. taken + 1 /\ n \in DOMAIN stream
      BY <1>2, <1>6, <2>2
    <3>2. ~ (stream[n].len > 0)
      BY <1>2, <1>5, <3>1 DEF Following
    <3>3. stream[n].len = 0
      BY <1>6, <3>1, <3>2
    <3>4. QED  BY <1>1, <3>3 DEF LeftOut
  <2>3. QED  BY <2>1, <2>2
<1>13. LostInv(o)'
  BY <1>1, <1>3, <1>12 DEF LostInv
<1>14. QED  BY <1>11, <1>13

LEMMA SkipSets ==
  ASSUME NEW o, Iterator(o)!BatchingAssumption, Iterator(o)!TypeOK, PhaseInv,
         ApartInv, LostInv(o), NEW x, Iterator(o)!SkipDuplicate(x)
  PROVE  ApartInv' /\ LostInv(o)'
<1>1. /\ Iterator(o)!Taking(x) /\ UNCHANGED <<minibatch, seen, batches>>
      /\ Options[o].task = "train" /\ stream[x.example].text \in seen
  BY SkipTyped
<1>2. /\ Ex(data) = {x.example} \cup Ex(data')
      /\ Apart(data) => Apart(data') /\ x.example \notin Ex(data')
      /\ Left' = Left /\ UNCHANGED <<stream, consumed>>
  BY <1>1, TakingFacts
<1> DEFINE H == Exs(consumed) \cup Exs(batches) \cup Ex(minibatch) \cup Ex(data')
           n == x.example
<1>3. Held' = H /\ Held = H \cup {n}
  BY <1>1, <1>2 DEF Held
<1>4. ApartInv'
  <2>1. /\ Ex(minibatch') = Ex(minibatch) /\ Exs(batches') = Exs(batches)
        /\ Exs(consumed') = Exs(consumed)
        /\ Apart(minibatch') /\ AllApart(batches') /\ AllApart(consumed')
    BY <1>1, <1>2 DEF ApartInv
  <2>2. Held' \subseteq Held
    BY <1>3
  <2>3. QED  BY <1>2, <2>1, <2>2 DEF ApartInv
<1>5. PICK m \in Ex(minibatch) : stream[n].text = stream[m].text
  BY <1>1 DEF LostInv
<1>6. m \in H
  BY <1>5
<1> HIDE DEF H, n
<1>7. ASSUME NEW q \in (1 .. Left) \ H PROVE LeftOut(o, q)'
  <2>1. CASE q = n
    BY <1>1, <1>2, <1>3, <1>5, <1>6, <2>1 DEF LeftOut, SameText
  <2>2. CASE q # n
    <3>1. LeftOut(o, q)
      BY <1>3, <1>7, <2>2 DEF LostInv
    <3>2. CASE stream[q].len = 0
      BY <1>2, <3>2 DEF LeftOut
    <3>3. CASE stream[q].len # 0
      <4>1. PICK p \in Held : stream[q].text = stream[p].text
        BY <3>1, <3>3 DEF LeftOut, SameText
      <4>2. \E r \in H : stream[q].text = stream[r].text
        BY <1>3, <1>5, <1>6, <4>1
      <4>3. QED  BY <1>1, <1>2, <1>3, <4>2 DEF LeftOut, SameText
    <3>4. QED  BY <3>2, <3>3
  <2>3. QED  BY <2>1, <2>2
<1>8. LostInv(o)'
  <2>1. seen' \subseteq {stream'[r].text : r \in Ex(minibatch')}
    BY <1>1, <1>2 DEF LostInv
  <2>2. QED  BY <1>2, <1>3, <1>7, <2>1 DEF LostInv
<1>9. QED  BY <1>4, <1>8

LEMMA AddSets ==
  ASSUME NEW o, Iterator(o)!BatchingAssumption, Iterator(o)!TypeOK, PhaseInv,
         ApartInv, LostInv(o), NEW x, Iterator(o)!AddToBatch(x)
  PROVE  ApartInv' /\ LostInv(o)'
<1>1. /\ Ex(minibatch') = Ex(minibatch) \cup {x.example}
      /\ Apart(minibatch') <=> Apart(minibatch) /\ x.example \notin Ex(minibatch)
      /\ Iterator(o)!Taking(x) /\ batches' = batches /\ Iterator(o)!See(x)
  BY AddFacts
<1>2. /\ Ex(data) = {x.example} \cup Ex(data')
      /\ Apart(data) => Apart(data') /\ x.example \notin Ex(data')
      /\ Left' = Left /\ UNCHANGED <<stream, consumed>>
  BY <1>1, TakingFacts
<1>3. Held' = Held
  BY <1>1, <1>2 DEF Held
<1>4. Exs(consumed') = Exs(consumed) /\ Exs(batches') = Exs(batches)
        /\ AllApart(batches') /\ AllApart(consumed')
  BY <1>1, <1>2 DEF ApartInv
<1>5. ApartInv'
  BY <1>1, <1>2, <1>3, <1>4 DEF ApartInv
<1>6. seen' \subseteq {stream[m].text : m \in Ex(minibatch')}
  <2>1. seen \subseteq {stream[m].text : m \in Ex(minibatch)}
    BY DEF LostInv
  <2>2. Iterator(o)!Text(x) \in {stream[m].text : m \in Ex(minibatch')}
    BY <1>1 DEF Iterator!Text
  <2>3. QED  BY <1>1, <2>1, <2>2 DEF Iterator!See
<1>7. LostInv(o)'
  BY <1>2, <1>3, <1>6, MovedLost
<1>8. QED  BY <1>5, <1>7

(* A batch a is completed, b starts the next one.                          *)
LEMMA DoneSets ==
  ASSUME NEW o, Iterator(o)!BatchingAssumption, Iterator(o)!TypeOK,
         ApartInv, LostInv(o), NEW a \in Seq(Iterator(o)!Item),
         NEW M, NEW D,
         batches' = Append(batches, a), seen' = {}, Left' = Left,
         UNCHANGED <<stream, consumed>>,
         Ex(minibatch') = M, Apart(minibatch'), Apart(a), Ex(a) \cap M = {},
         Ex(data') = D, Apart(data'), (Ex(a) \cup M) \cap D = {},
         Ex(a) \cup M \cup D = Ex(minibatch) \cup Ex(data)
  PROVE  ApartInv' /\ LostInv(o)'
<1> DEFINE U == Iterator(o)!Item
<1>1. batches \in Seq(Seq(U))
  BY StateFacts
<1>2. /\ AllApart(batches) /\ AllApart(consumed)
      /\ (Ex(data) \cup Ex(minibatch)) \cap Exs(batches) = {}
      /\ (Ex(data) \cup Ex(minibatch) \cup Exs(batches)) \cap Exs(consumed) = {}
      /\ Held \subseteq 1 .. Left
  BY DEF ApartInv
<1> HIDE DEF U
<1>3. Ex(a) \cap Exs(batches) = {}
  BY <1>2
<1>4. a \in Seq(U)
  BY DEF U
<1>5. Exs(batches') = Exs(batches) \cup Ex(a) /\ AllApart(batches')
  BY <1>1, <1>2, <1>3, <1>4, AppendExs
<1>6. Exs(consumed') = Exs(consumed) /\ AllApart(consumed')
  BY <1>2
<1>7. Held' = Held
  BY <1>5, <1>6 DEF Held
<1>8. ApartInv'
  <2>1. Ex(data') \cap Ex(minibatch') = {}
    BY <1>2
  <2>2. (Ex(data') \cup Ex(minibatch')) \cap Exs(batches') = {}
    BY <1>2, <1>5
  <2>3. (Ex(data') \cup Ex(minibatch') \cup Exs(batches')) \cap Exs(consumed') = {}
    BY <1>2, <1>5, <1>6
  <2>4. QED  BY <1>2, <1>5, <1>6, <1>7, <2>1, <2>2, <2>3 DEF ApartInv
<1>9. LostInv(o)'
  BY <1>7, MovedLost
<1>10. QED  BY <1>8, <1>9

LEMMA CompleteSets ==
  ASSUME NEW o, Iterator(o)!BatchingAssumption, Iterator(o)!TypeOK, PhaseInv,
         ApartInv, LostInv(o), NEW x, Iterator(o)!CompleteBatch(x)
  PROVE  ApartInv' /\ LostInv(o)'
<1> DEFINE a == Append(minibatch, x)
<1>1. /\ Iterator(o)!Taking(x) /\ a \in Seq(Iterator(o)!Item)
      /\ Ex(a) = Ex(minibatch) \cup {x.example}
      /\ Apart(a) <=> Apart(minibatch) /\ x.example \notin Ex(minibatch)
      /\ batches' = Append(batches, a) /\ minibatch' = <<>> /\ seen' = {}
  BY CompleteFacts
<1>2. /\ Ex(data) = {x.example} \cup Ex(data')
      /\ Apart(data) => Apart(data') /\ x.example \notin Ex(data')
      /\ Left' = Left /\ UNCHANGED <<stream, consumed>>
  BY <1>1, TakingFacts
<1>3. Apart(data) /\ Apart(minibatch) /\ Ex(data) \cap Ex(minibatch) = {}
  BY DEF ApartInv
<1>4. Ex(minibatch') = {} /\ Apart(minibatch')
  BY <1>1, EmptyEx
<1> HIDE DEF a
<1>5. /\ Apart(a) /\ Apart(data') /\ Ex(a) \cap Ex(minibatch') = {}
      /\ (Ex(a) \cup Ex(minibatch')) \cap Ex(data') = {}
      /\ Ex(a) \cup Ex(minibatch') \cup Ex(data') = Ex(minibatch) \cup Ex(data)
  BY <1>1, <1>2, <1>3, <1>4
<1>6. QED  BY <1>1, <1>2, <1>4, <1>5, DoneSets

LEMMA OverflowSets ==
  ASSUME NEW o, Iterator(o)!BatchingAssumption, Iterator(o)!TypeOK, PhaseInv,
         ApartInv, LostInv(o), NEW x, Iterator(o)!OverflowBatch(x)
  PROVE  ApartInv' /\ LostInv(o)'
<1>1. Iterator(o)!Taking(x) /\ seen' = {}
  BY OverflowTyped
<1>2. PICK a, b : IsCut(o, a, b, x, Iterator(o)!Overflow(Append(minibatch, x)))
  BY CutFacts
<1>3. /\ a \in Seq(Iterator(o)!Item) /\ batches' = Append(batches, a) /\ minibatch' = b
      /\ Ex(a) \cup Ex(b) = Ex(minibatch) \cup {x.example}
      /\ Apart(minibatch) /\ x.example \notin Ex(minibatch) =>
           Apart(a) /\ Apart(b) /\ Ex(a) \cap Ex(b) = {}
  BY <1>2 DEF IsCut
<1>4. /\ Ex(data) = {x.example} \cup Ex(data')
      /\ Apart(data) => Apart(data') /\ x.example \notin Ex(data')
      /\ Left' = Left /\ UNCHANGED <<stream, consumed>>
  BY <1>1, TakingFacts
<1>5. Apart(data) /\ Apart(minibatch) /\ Ex(data) \cap Ex(minibatch) = {}
  BY DEF ApartInv
<1>6. Ex(minibatch') = Ex(b)
  BY <1>3
<1>7. /\ Apart(a) /\ Apart(minibatch') /\ Apart(data') /\ Ex(a) \cap Ex(b) = {}
      /\ (Ex(a) \cup Ex(b)) \cap Ex(data') = {}
      /\ Ex(a) \cup Ex(b) \cup Ex(data') = Ex(minibatch) \cup Ex(data)
  BY <1>3, <1>4, <1>5
<1>8. QED  BY <1>1, <1>3, <1>4, <1>6, <1>7, DoneSets

LEMMA LastSets ==
  ASSUME NEW o, Iterator(o)!BatchingAssumption, Iterator(o)!TypeOK, PhaseInv,
         ApartInv, LostInv(o), Iterator(o)!LastBatch
  PROVE  ApartInv' /\ LostInv(o)'
<1>1. /\ data = <<>> /\ minibatch' = <<>> /\ seen' = {}
      /\ batches' = IF minibatch = <<>> THEN batches ELSE Append(batches, minibatch)
      /\ UNCHANGED <<stream, data, consumed>>
  BY DEF Iterator!LastBatch, Iterator!source
<1>2. Left' = Left
  BY LastTyped
<1>3. Ex(minibatch') = {} /\ Apart(minibatch') /\ Ex(data) = {}
  BY <1>1, EmptyEx
<1>4. CASE minibatch = <<>>
  <2>1. batches' = batches /\ minibatch' = minibatch
    BY <1>1, <1>4
  <2>2. Held' = Held
    BY <1>1, <2>1 DEF Held
  <2>3. ApartInv'
    BY <1>1, <1>2, <2>1, <2>2 DEF ApartInv
  <2>4. LostInv(o)'
    BY <1>1, <1>2, <2>2, MovedLost
  <2>5. QED  BY <2>3, <2>4
<1>5. CASE minibatch # <<>>
  <2>1. batches' = Append(batches, minibatch) /\ minibatch \in Seq(Iterator(o)!Item)
    BY <1>1, <1>5, StateFacts
  <2>2. Apart(minibatch) /\ Apart(data')
    BY <1>1 DEF ApartInv
  <2>3. Ex(data') = {}
    BY <1>1, <1>3
  <2>4. QED  BY <1>1, <1>2, <1>3, <2>1, <2>2, <2>3, DoneSets
<1>6. QED  BY <1>4, <1>5

LEMMA ConsumeSets ==
  ASSUME NEW o, Iterator(o)!BatchingAssumption, Iterator(o)!TypeOK, PhaseInv,
         ApartInv, LostInv(o), NEW k \in DOMAIN batches, Iterator(o)!Consume(k)
  PROVE  ApartInv' /\ LostInv(o)'
<1> DEFINE U == Iterator(o)!Item
           batch == batches[k]
<1>1. /\ batches' = Removed(batches, k) /\ consumed' = Append(consumed, batch)
      /\ Left' = Left /\ UNCHANGED <<stream, data, minibatch, seen>>
  BY ConsumeFacts
<1>2. batches \in Seq(Seq(U)) /\ consumed \in Seq(Seq(U))
  BY StateFacts
<1>3. /\ AllApart(batches) /\ AllApart(consumed)
      /\ (Ex(data) \cup Ex(minibatch)) \cap Exs(batches) = {}
      /\ (Ex(data) \cup Ex(minibatch) \cup Exs(batches)) \cap Exs(consumed) = {}
      /\ Held \subseteq 1 .. Left
      /\ Ex(data) \cap Ex(minibatch) = {} /\ Apart(data) /\ Apart(minibatch)
  BY DEF ApartInv
<1> HIDE DEF U
<1>4. /\ batch \in Seq(U) /\ Exs(batches) = Exs(batches') \cup Ex(batch)
      /\ AllApart(batches') /\ Apart(batch) /\ Exs(batches') \cap Ex(batch) = {}
  BY <1>1, <1>2, <1>3, WithoutExs
<1> HIDE DEF batch
<1>5. Exs(consumed') = Exs(consumed) \cup Ex(batch) /\ AllApart(consumed')
  <2>1. Ex(batch) \cap Exs(consumed) = {}
    BY <1>3, <1>4
  <2>2. QED  BY <1>1, <1>2, <1>3, <1>4, <2>1, AppendExs
<1>6. Ex(data') = Ex(data) /\ Ex(minibatch') = Ex(minibatch)
  BY <1>1
<1>7. Held' = Held
  BY <1>4, <1>5, <1>6 DEF Held
<1>8. ApartInv'
  <2>1. (Ex(data) \cup Ex(minibatch)) \cap Exs(batches') = {}
    BY <1>3, <1>4
  <2>2. (Ex(data) \cup Ex(minibatch) \cup Exs(batches')) \cap Exs(consumed') = {}
    BY <1>3, <1>4, <1>5
  <2>3. QED  BY <1>1, <1>3, <1>4, <1>5, <1>6, <1>7, <2>1, <2>2 DEF ApartInv
<1>9. LostInv(o)'
  BY <1>1, <1>6, <1>7, MovedLost DEF LostInv
<1>10. QED  BY <1>8, <1>9

LEMMA Products ==
  ASSUME NEW a \in Nat, NEW b \in Nat, NEW c \in Nat, NEW d \in Nat, a <= b, c <= d
  PROVE  a * c <= b * d /\ a * c \in Nat
<1>1. PICK p \in Nat : b = a + p
  <2>1. b - a \in Nat /\ b = a + (b - a)
    OBVIOUS
  <2>2. QED  BY <2>1
<1>2. PICK q \in Nat : d = c + q
  <2>1. d - c \in Nat /\ d = c + (d - c)
    OBVIOUS
  <2>2. QED  BY <2>1
<1>3. b * d = a * c + a * q + p * d
  <2>1. b * d = a * d + p * d
    BY <1>1
  <2>2. a * d = a * c + a * q
    BY <1>2
  <2>3. QED  BY <2>1, <2>2
<1>4. a * c \in Nat /\ a * q \in Nat /\ p * d \in Nat
  OBVIOUS
<1>5. QED  BY <1>3, <1>4

(* What a batch costs: its length, or that of its longest example as often. *)
LengthsIn(o, batch) == [k \in 1 .. Len(batch) |-> Iterator(o)!Length(batch[k])]

LEMMA CostFacts ==
  ASSUME NEW o, Iterator(o)!BatchingAssumption, Iterator(o)!TypeOK,
         NEW batch \in Seq(Iterator(o)!Item), batch # <<>>
  PROVE  \E m \in Nat :
           /\ IsGreatest(LengthsIn(o, batch), m)
           /\ Iterator(o)!Cost(batch) =
                IF Options[o].batch_type = "sents" THEN Len(batch) ELSE Len(batch) * m
<1> DEFINE s == LengthsIn(o, batch)
           n == Len(batch)
           C == {Iterator(o)!Length(batch[k]) : k \in DOMAIN batch}
<1>1. n \in Nat /\ DOMAIN batch = 1 .. n /\ n # 0
        /\ \A k \in 1 .. n : batch[k] \in Iterator(o)!Item
  OBVIOUS
<1>2. \A k \in 1 .. n : Iterator(o)!Length(batch[k]) \in Nat
  <2>1. \A p \in DOMAIN stream : stream[p].len \in Nat
    BY StateFacts
  <2>2. \A k \in 1 .. n : batch[k].example \in DOMAIN stream
    BY <1>1 DEF Iterator!Item
  <2>3. QED  BY <2>1, <2>2 DEF Iterator!Length
<1>3. s \in Seq(Nat) /\ DOMAIN s = 1 .. n /\ s # <<>>
        /\ \A k \in 1 .. n : s[k] = Iterator(o)!Length(batch[k])
  <2>1. s \in [1 .. n -> Nat] /\ \A k \in 1 .. n : s[k] = Iterator(o)!Length(batch[k])
    BY <1>2 DEF LengthsIn
  <2> HIDE DEF s, n
  <2>2. QED  BY <1>1, <2>1
<1> HIDE DEF s, n
<1>4. PICK m \in Nat : IsGreatest(s, m)
  BY <1>3, GreatestExists
<1>5. m \in C /\ \A k \in DOMAIN batch : Iterator(o)!Length(batch[k]) <= m
  BY <1>1, <1>3, <1>4 DEF IsGreatest
<1>6. \A p \in C : (\A k \in DOMAIN batch : Iterator(o)!Length(batch[k]) <= p) => p = m
  <2> SUFFICES ASSUME NEW i \in DOMAIN batch,
                      \A k \in DOMAIN batch :
                         Iterator(o)!Length(batch[k]) <= Iterator(o)!Length(batch[i])
               PROVE  Iterator(o)!Length(batch[i]) = m
    OBVIOUS
  <2>1. PICK j \in DOMAIN batch : m = Iterator(o)!Length(batch[j])
    BY <1>5
  <2>2. m <= Iterator(o)!Length(batch[i]) /\ Iterator(o)!Length(batch[i]) <= m
    BY <1>5, <2>1
  <2>3. Iterator(o)!Length(batch[i]) \in Nat
    BY <1>1, <1>2
  <2>4. QED  BY <2>2, <2>3
<1> DEFINE chosen == CHOOSE p \in C : \A k \in DOMAIN batch : Iterator(o)!Length(batch[k]) <= p
<1>7. chosen = m
  <2> HIDE DEF C
  <2>1. QED  BY <1>5, <1>6
<1>8. Iterator(o)!Cost(batch) =
        IF Options[o].batch_type = "sents" THEN n ELSE n * chosen
  BY DEF Iterator!Cost, n
<1> HIDE DEF chosen
<1>9. QED  BY <1>4, <1>7, <1>8 DEF n, s

LEMMA CostTyped ==
  ASSUME NEW o, Iterator(o)!BatchingAssumption, Iterator(o)!TypeOK,
         NEW batch \in Seq(Iterator(o)!Item), batch # <<>>
  PROVE  Iterator(o)!Cost(batch) \in Nat
<1>1. PICK m \in Nat : Iterator(o)!Cost(batch) =
             IF Options[o].batch_type = "sents" THEN Len(batch) ELSE Len(batch) * m
  BY CostFacts
<1>2. Len(batch) \in Nat
  OBVIOUS
<1>3. Len(batch) * m \in Nat
  BY <1>2
<1>4. QED  BY <1>1, <1>2, <1>3

(* A batch that is cut short costs no more.                                *)
LEMMA PrefixCost ==
  ASSUME NEW o, Iterator(o)!BatchingAssumption, Iterator(o)!TypeOK,
         NEW a \in Seq(Iterator(o)!Item), NEW b \in Seq(Iterator(o)!Item),
         Len(a) \in 1 .. Len(b), \A k \in 1 .. Len(a) : a[k] = b[k]
  PROVE  Iterator(o)!Cost(a) <= Iterator(o)!Cost(b)
<1>1. a # <<>> /\ b # <<>> /\ Len(a) \in Nat /\ Len(b) \in Nat /\ Len(a) <= Len(b)
  OBVIOUS
<1>2. PICK p \in Nat :
        /\ IsGreatest(LengthsIn(o, a), p)
        /\ Iterator(o)!Cost(a) =
             IF Options[o].batch_type = "sents" THEN Len(a) ELSE Len(a) * p
  BY <1>1, CostFacts
<1>3. PICK q \in Nat :
        /\ IsGreatest(LengthsIn(o, b), q)
        /\ Iterator(o)!Cost(b) =
             IF Options[o].batch_type = "sents" THEN Len(b) ELSE Len(b) * q
  BY <1>1, CostFacts
<1>4. p <= q
  <2>1. PICK k \in 1 .. Len(a) : Iterator(o)!Length(a[k]) = p
    BY <1>2 DEF IsGreatest, LengthsIn
  <2>2. k \in 1 .. Len(b) /\ a[k] = b[k]
    BY <1>1
  <2>3. Iterator(o)!Length(b[k]) <= q
    BY <1>3, <2>2 DEF IsGreatest, LengthsIn
  <2>4. QED  BY <2>1, <2>2, <2>3
<1>5. Len(a) * p <= Len(b) * q
  BY <1>1, <1>4, Products
<1>6. QED  BY <1>1, <1>2, <1>3, <1>5

LEMMA OverflowFacts ==
  ASSUME NEW o, Iterator(o)!BatchingAssumption, Iterator(o)!TypeOK,
         NEW batch \in Seq(Iterator(o)!Item), batch # <<>>
  PROVE  /\ Iterator(o)!Overflow(batch) \in 0 .. Options[o].batch_size_multiple
         /\ Iterator(o)!Cost(batch) > Options[o].batch_size
              => Iterator(o)!Overflow(batch) # 0
         /\ Options[o].batch_size_multiple = 1 =>
              (Iterator(o)!Overflow(batch) # 0
                 <=> Iterator(o)!Cost(batch) > Options[o].batch_size)
<1> DEFINE over == IF Iterator(o)!Cost(batch) > Options[o].batch_size THEN 1 ELSE 0
           mult == Options[o].batch_size_multiple
           n == Len(batch)
<1>1. mult \in Nat \ {0}
  BY OptionFacts
<1>2. n \in Nat /\ n # 0
  OBVIOUS
<1>3. over \in {0, 1} /\ (over = 1 <=> Iterator(o)!Cost(batch) > Options[o].batch_size)
  OBVIOUS
<1>4. Iterator(o)!Overflow(batch) = IF mult = 1 THEN over ELSE over + ((n - over) % mult)
  BY DEF Iterator!Overflow
<1> HIDE DEF over, mult, n
<1>5. (n - over) % mult \in 0 .. mult - 1
  <2>1. n - over \in Int
    BY <1>2, <1>3
  <2>2. QED  BY <1>1, <2>1
<1>6. /\ Iterator(o)!Overflow(batch) \in 0 .. mult
      /\ over = 1 => Iterator(o)!Overflow(batch) # 0
      /\ mult = 1 => Iterator(o)!Overflow(batch) = over
  BY <1>1, <1>3, <1>4, <1>5
<1>7. QED  BY <1>3, <1>6 DEF mult

------------------------------------------------------------------------------
(* No batch gets larger than it may.                                       *)
LEMMA SmallFits ==
  ASSUME NEW o, Iterator(o)!BatchingAssumption
  PROVE  Fits(o, <<>>)
BY OptionFacts DEF Fits

LEMMA MoreFits ==
  ASSUME NEW o, NEW T, NEW f \in Seq(Seq(T)), NEW s \in Seq(T),
         \A k \in DOMAIN f : Fits(o, f[k]), Fits(o, s)
  PROVE  \A k \in DOMAIN Append(f, s) : Fits(o, Append(f, s)[k])
BY AppendExs

LEMMA SameFit ==
  ASSUME NEW o, FitInv(o), UNCHANGED <<stream, minibatch, batches, consumed>>
  PROVE  FitInv(o)'
BY SameFits DEF FitInv

LEMMA AddFit ==
  ASSUME NEW o, Iterator(o)!BatchingAssumption, Iterator(o)!TypeOK, PhaseInv,
         FitInv(o), NEW x, Iterator(o)!AddToBatch(x)
  PROVE  FitInv(o)'
<1> DEFINE b == Append(minibatch, x)
           U == Iterator(o)!Item
<1>1. minibatch' = b /\ x \in U /\ batches' = batches /\ Iterator(o)!Taking(x)
  BY AddFacts
<1>2. minibatch \in Seq(U)
  BY StateFacts
<1>3. \/ Iterator(o)!Cost(b) < Options[o].batch_size
      \/ Iterator(o)!Overflow(b) = Len(b)
  BY DEF Iterator!AddToBatch
<1>4. UNCHANGED <<stream, consumed>>
  BY <1>1, TakingFacts
<1>5. b \in Seq(U) /\ b # <<>>
  <2> HIDE DEF U
  <2>1. QED  BY <1>1, <1>2, AppendEx
<1> HIDE DEF b
<1>6. /\ Iterator(o)!Cost(b) \in Nat
      /\ Iterator(o)!Overflow(b) \in 0 .. Options[o].batch_size_multiple
      /\ Options[o].batch_size \in Nat /\ Options[o].batch_size_multiple \in Nat
  BY <1>5, CostTyped, OverflowFacts, OptionFacts
<1>7. Fits(o, b)
  BY <1>3, <1>6 DEF Fits
<1>8. QED  BY <1>1, <1>4, <1>7, SameFits DEF FitInv

LEMMA CompleteFit ==
  ASSUME NEW o, Iterator(o)!BatchingAssumption, Iterator(o)!TypeOK, PhaseInv,
         FitInv(o), NEW x, Iterator(o)!CompleteBatch(x)
  PROVE  FitInv(o)'
<1> DEFINE a == Append(minibatch, x)
           U == Iterator(o)!Item
<1>1. /\ a \in Seq(U) /\ a # <<>> /\ batches' = Append(batches, a)
      /\ minibatch' = <<>> /\ Iterator(o)!Overflow(a) = 0 /\ Iterator(o)!Taking(x)
  BY CompleteFacts
<1>2. UNCHANGED <<stream, consumed>>
  BY <1>1, TakingFacts
<1>3. batches \in Seq(Seq(U))
  BY StateFacts
<1> HIDE DEF a
<1>4. /\ Iterator(o)!Cost(a) \in Nat /\ Options[o].batch_size \in Nat
      /\ ~ (Iterator(o)!Cost(a) > Options[o].batch_size)
  BY <1>1, CostTyped, OverflowFacts, OptionFacts
<1>5. Fits(o, a)
  BY <1>4 DEF Fits
<1> HIDE DEF U
<1>6. \A k \in DOMAIN batches' : Fits(o, batches'[k])
  <2>1. \A k \in DOMAIN batches : Fits(o, batches[k])
    BY DEF FitInv
  <2>2. QED  BY <1>1, <1>3, <1>5, <2>1, MoreFits
<1>7. QED  BY <1>1, <1>2, <1>6, SmallFits, SameFits DEF FitInv

LEMMA OverflowFit ==
  ASSUME NEW o, Iterator(o)!BatchingAssumption, Iterator(o)!TypeOK, PhaseInv,
         FitInv(o), NEW x, Iterator(o)!OverflowBatch(x)
  PROVE  FitInv(o)'
<1> DEFINE over == Iterator(o)!Overflow(Append(minibatch, x))
           U == Iterator(o)!Item
<1>1. PICK a, b : IsCut(o, a, b, x, over)
  BY CutFacts
<1>2. /\ a \in Seq(U) /\ b \in Seq(U) /\ Len(a) \in 1 .. Len(minibatch) /\ Len(b) = over
      /\ batches' = Append(batches, a) /\ minibatch' = b
      /\ \A k \in 1 .. Len(a) : a[k] = minibatch[k]
  BY <1>1 DEF IsCut
<1>3. Iterator(o)!Taking(x) /\ x \in U
  BY OverflowTyped
<1>4. UNCHANGED <<stream, consumed>>
  BY <1>3, TakingFacts
<1>5. minibatch \in Seq(U) /\ batches \in Seq(Seq(U))
  BY StateFacts
<1>6. Append(minibatch, x) \in Seq(U) /\ Append(minibatch, x) # <<>>
  <2> HIDE DEF U
  <2>1. QED  BY <1>3, <1>5, AppendEx
<1>7. over \in 0 .. Options[o].batch_size_multiple
  BY <1>6, OverflowFacts
<1> HIDE DEF over
<1>8. Fits(o, b)
  BY <1>2, <1>7, OptionFacts DEF Fits
<1>9. Fits(o, a)
  <2>1. Fits(o, minibatch)
    BY DEF FitInv
  <2>2. Iterator(o)!Cost(a) <= Iterator(o)!Cost(minibatch)
    BY <1>2, <1>5, PrefixCost
  <2>3. a # <<>> /\ minibatch # <<>> /\ Len(a) <= Len(minibatch)
          /\ Len(a) \in Nat /\ Len(minibatch) \in Nat
    BY <1>2, <1>5
  <2>4. /\ Iterator(o)!Cost(a) \in Nat /\ Iterator(o)!Cost(minibatch) \in Nat
        /\ Options[o].batch_size \in Nat /\ Options[o].batch_size_multiple \in Nat
    BY <1>2, <1>5, <2>3, CostTyped, OptionFacts
  <2>5. QED  BY <2>1, <2>2, <2>3, <2>4 DEF Fits
<1> HIDE DEF U
<1>10. \A k \in DOMAIN batches' : Fits(o, batches'[k])
  <2>1. \A k \in DOMAIN batches : Fits(o, batches[k])
    BY DEF FitInv
  <2>2. QED  BY <1>2, <1>5, <1>9, <2>1, MoreFits
<1>11. QED  BY <1>2, <1>4, <1>8, <1>10, SameFits DEF FitInv

LEMMA LastFit ==
  ASSUME NEW o, Iterator(o)!BatchingAssumption, Iterator(o)!TypeOK, PhaseInv,
         FitInv(o), Iterator(o)!LastBatch
  PROVE  FitInv(o)'
<1> DEFINE U == Iterator(o)!Item
<1>1. /\ minibatch' = <<>>
      /\ batches' = IF minibatch = <<>> THEN batches ELSE Append(batches, minibatch)
      /\ UNCHANGED <<stream, consumed>>
  BY DEF Iterator!LastBatch, Iterator!source
<1>2. minibatch \in Seq(U) /\ batches \in Seq(Seq(U))
  BY StateFacts
<1> HIDE DEF U
<1>3. \A k \in DOMAIN batches' : Fits(o, batches'[k])
  <2>1. Fits(o, minibatch) /\ \A k \in DOMAIN batches : Fits(o, batches[k])
    BY DEF FitInv
  <2>2. CASE minibatch = <<>>
    BY <1>1, <2>1, <2>2
  <2>3. CASE minibatch # <<>>
    BY <1>1, <1>2, <2>1, <2>3, MoreFits
  <2>4. QED  BY <2>2, <2>3
<1>4. QED  BY <1>1, <1>3, SmallFits, SameFits DEF FitInv

LEMMA ConsumeFit ==
  ASSUME NEW o, Iterator(o)!BatchingAssumption, Iterator(o)!TypeOK, PhaseInv,
         FitInv(o), NEW k \in DOMAIN batches, Iterator(o)!Consume(k)
  PROVE  FitInv(o)'
<1> DEFINE U == Iterator(o)!Item
<1>1. /\ batches' = Removed(batches, k) /\ consumed' = Append(consumed, batches[k])
      /\ UNCHANGED <<stream, minibatch>> /\ batches[k] \in Seq(U)
  BY ConsumeFacts
<1>2. batches \in Seq(Seq(U)) /\ consumed \in Seq(Seq(U))
  BY StateFacts
<1> HIDE DEF U
<1>3. /\ \A i \in DOMAIN batches : Fits(o, batches[i])
      /\ \A i \in DOMAIN consumed : Fits(o, consumed[i])
  BY DEF FitInv
<1>4. \A i \in DOMAIN batches' : Fits(o, batches'[i])
  <2>1. \A i \in DOMAIN batches' : \E j \in DOMAIN batches : batches'[i] = batches[j]
    BY <1>1, <1>2, WithoutExs
  <2>2. QED  BY <1>3, <2>1
<1>5. \A i \in DOMAIN consumed' : Fits(o, consumed'[i])
  BY <1>1, <1>2, <1>3, MoreFits
<1>6. QED  BY <1>1, <1>4, <1>5, SameFits DEF FitInv

------------------------------------------------------------------------------
(* No batch has a text twice.                                              *)
LEMMA SameTwice ==
  ASSUME stream' = stream, NEW batch
  PROVE  NoTextTwice(batch)' <=> NoTextTwice(batch)
BY DEF NoTextTwice

LEMMA MoreTwice ==
  ASSUME NEW T, NEW f \in Seq(Seq(T)), NEW s \in Seq(T),
         \A k \in DOMAIN f : NoTextTwice(f[k]), NoTextTwice(s)
  PROVE  \A k \in DOMAIN Append(f, s) : NoTextTwice(Append(f, s)[k])
BY AppendExs

LEMMA NewText ==
  ASSUME NEW T, NEW s \in Seq(T), NEW x \in T, NEW S, NoTextTwice(s),
         \A k \in DOMAIN s : stream[s[k].example].text \in S,
         stream[x.example].text \notin S
  PROVE  /\ NoTextTwice(Append(s, x))
         /\ \A k \in DOMAIN Append(s, x) :
              stream[Append(s, x)[k].example].text \in S \cup {stream[x.example].text}
<1> DEFINE n == Len(s)
           t == Append(s, x)
<1>1. /\ n \in Nat /\ DOMAIN s = 1 .. n /\ DOMAIN t = 1 .. n + 1
      /\ \A k \in 1 .. n : t[k] = s[k]
      /\ t[n + 1] = x
  OBVIOUS
<1> HIDE DEF n, t
<1>2. \A k \in 1 .. n + 1 : k \in 1 .. n \/ k = n + 1
  BY <1>1
<1>3. \A k \in 1 .. n : stream[t[k].example].text \in S
  BY <1>1
<1>4. \A k \in 1 .. n + 1 : stream[t[k].example].text \in S \cup {stream[x.example].text}
  BY <1>1, <1>2, <1>3
<1>5. ASSUME NEW i \in 1 .. n + 1, NEW j \in 1 .. n + 1,
             stream[t[i].example].text = stream[t[j].example].text
      PROVE  i = j
  <2>1. CASE i = n + 1 /\ j = n + 1
    BY <2>1
  <2>2. CASE i \in 1 .. n /\ j \in 1 .. n
    BY <1>1, <1>5, <2>2 DEF NoTextTwice
  <2>3. CASE i = n + 1 /\ j \in 1 .. n
    BY <1>1, <1>3, <1>5, <2>3
  <2>4. CASE i \in 1 .. n /\ j = n + 1
    BY <1>1, <1>3, <1>5, <2>4
  <2>5. QED  BY <1>2, <2>1, <2>2, <2>3, <2>4
<1>6. NoTextTwice(t)
  BY <1>1, <1>5 DEF NoTextTwice
<1>7. QED  BY <1>1, <1>4, <1>6 DEF t

LEMMA EmptyTwice ==
  NoTextTwice(<<>>)
BY DEF NoTextTwice

LEMMA SameTexts ==
  ASSUME NEW o, TextInv(o), UNCHANGED <<stream, minibatch, seen, batches, consumed>>
  PROVE  TextInv(o)'
BY SameTwice DEF TextInv

(* What TextInv is about.                                                  *)
TextsCount(o) ==
    /\ Options[o].task = "train" /\ Options[o].batch_type = "sents"
    /\ Options[o].batch_size_multiple = 1

(* A batch with one more example of a text that the batch has not seen.    *)
LEMMA OneMore ==
  ASSUME NEW o, Iterator(o)!BatchingAssumption, Iterator(o)!TypeOK,
         TextInv(o), TextsCount(o), NEW x \in Iterator(o)!Item, ~ Iterator(o)!Duplicate(x)
  PROVE  LET b == Append(minibatch, x)
         IN  /\ b \in Seq(Iterator(o)!Item) /\ NoTextTwice(b) /\ Len(b) \in Nat \ {0}
             /\ \A k \in DOMAIN b :
                  stream[b[k].example].text \in seen \cup {Iterator(o)!Text(x)}
             /\ Iterator(o)!Cost(b) = Len(b) /\ Iterator(o)!Overflow(b) = 0
<1> DEFINE b == Append(minibatch, x)
           U == Iterator(o)!Item
<1>1. minibatch \in Seq(U) /\ x \in U
  BY StateFacts
<1>2. /\ Options[o].task = "train" /\ Options[o].batch_type = "sents"
      /\ Options[o].batch_size_multiple = 1
  BY DEF TextsCount
<1>3. /\ NoTextTwice(minibatch)
      /\ \A k \in DOMAIN minibatch : stream[minibatch[k].example].text \in seen
      /\ Len(minibatch) < Options[o].batch_size
  BY <1>2 DEF TextInv
<1>4. stream[x.example].text \notin seen
  BY <1>2 DEF Iterator!Duplicate, Iterator!Text
<1> HIDE DEF U
<1>5. b \in Seq(U) /\ b # <<>> /\ Len(b) = Len(minibatch) + 1 /\ Len(minibatch) \in Nat
  BY <1>1
<1>6. /\ NoTextTwice(b)
      /\ \A k \in DOMAIN b :
           stream[b[k].example].text \in seen \cup {stream[x.example].text}
  BY <1>1, <1>3, <1>4, NewText
<1> HIDE DEF b
<1>7. b \in Seq(Iterator(o)!Item)
  BY <1>5 DEF U
<1>8. Iterator(o)!Cost(b) = Len(b)
  BY <1>2 DEF Iterator!Cost
<1>9. Iterator(o)!Overflow(b) = 0
  <2>1. Options[o].batch_size \in Nat
    BY OptionFacts
  <2>2. ~ (Iterator(o)!Cost(b) > Options[o].batch_size)
    BY <1>3, <1>5, <1>8, <2>1
  <2>3. QED  BY <1>2, <1>5, <1>7, <2>2, OverflowFacts
<1>10. QED  BY <1>5, <1>6, <1>7, <1>8, <1>9 DEF b, Iterator!Text

LEMMA AddTexts ==
  ASSUME NEW o, Iterator(o)!BatchingAssumption, Iterator(o)!TypeOK, PhaseInv,
         TextInv(o), NEW x, Iterator(o)!AddToBatch(x)
  PROVE  TextInv(o)'
<1> SUFFICES ASSUME TextsCount(o) PROVE TextInv(o)'
  BY DEF TextInv, TextsCount
<1> DEFINE b == Append(minibatch, x)
<1>1. /\ minibatch' = b /\ x \in Iterator(o)!Item /\ batches' = batches
      /\ Iterator(o)!Taking(x) /\ Iterator(o)!See(x) /\ ~ Iterator(o)!Duplicate(x)
  BY AddFacts
<1>2. UNCHANGED <<stream, consumed>>
  BY <1>1, TakingFacts
<1>3. /\ NoTextTwice(b) /\ Len(b) \in Nat \ {0}
      /\ \A k \in DOMAIN b : stream[b[k].example].text \in seen \cup {Iterator(o)!Text(x)}
      /\ Iterator(o)!Cost(b) = Len(b) /\ Iterator(o)!Overflow(b) = 0
  BY <1>1, OneMore
<1>4. seen' = seen \cup {Iterator(o)!Text(x)}
  BY <1>1 DEF Iterator!See, TextsCount
<1>5. \/ Iterator(o)!Cost(b) < Options[o].batch_size
      \/ Iterator(o)!Overflow(b) = Len(b)
  BY DEF Iterator!AddToBatch
<1> HIDE DEF b
<1>6. Len(minibatch') < Options[o].batch_size
  BY <1>1, <1>3, <1>5
<1>7. NoTextTwice(minibatch')
  BY <1>1, <1>3
<1>8. \A k \in DOMAIN minibatch' : stream[minibatch'[k].example].text \in seen'
  BY <1>1, <1>3, <1>4
<1>9. /\ \A k \in DOMAIN consumed : NoTextTwice(consumed[k])
      /\ \A k \in DOMAIN batches : NoTextTwice(batches[k])
  BY DEF TextInv, TextsCount
<1>10. QED  BY <1>1, <1>2, <1>6, <1>7, <1>8, <1>9, SameTwice DEF TextInv

LEMMA CompleteTexts ==
  ASSUME NEW o, Iterator(o)!BatchingAssumption, Iterator(o)!TypeOK, PhaseInv,
         TextInv(o), NEW x, Iterator(o)!CompleteBatch(x)
  PROVE  TextInv(o)'
<1> SUFFICES ASSUME TextsCount(o) PROVE TextInv(o)'
  BY DEF TextInv, TextsCount
<1> DEFINE a == Append(minibatch, x)
           U == Iterator(o)!Item
<1>1. /\ a \in Seq(U) /\ x \in Iterator(o)!Item /\ batches' = Append(batches, a)
      /\ minibatch' = <<>> /\ Iterator(o)!Taking(x) /\ ~ Iterator(o)!Duplicate(x)
  BY CompleteFacts
<1>2. UNCHANGED <<stream, consumed>>
  BY <1>1, TakingFacts
<1>3. NoTextTwice(a)
  BY <1>1, OneMore
<1>4. batches \in Seq(Seq(U))
  BY StateFacts
<1>5. /\ \A k \in DOMAIN consumed : NoTextTwice(consumed[k])
      /\ \A k \in DOMAIN batches : NoTextTwice(batches[k])
  BY DEF TextInv, TextsCount
<1> HIDE DEF a, U
<1>6. \A k \in DOMAIN batches' : NoTextTwice(batches'[k])
  BY <1>1, <1>3, <1>4, <1>5, MoreTwice
<1>7. Len(minibatch') < Options[o].batch_size
  BY <1>1, OptionFacts
<1>8. QED  BY <1>1, <1>2, <1>5, <1>6, <1>7, EmptyTwice, SameTwice DEF TextInv

LEMMA OverflowTexts ==
  ASSUME NEW o, Iterator(o)!BatchingAssumption, Iterator(o)!TypeOK, PhaseInv,
         TextInv(o), NEW x, Iterator(o)!OverflowBatch(x)
  PROVE  TextInv(o)'
<1> SUFFICES ASSUME TextsCount(o) PROVE TextInv(o)'
  BY DEF TextInv, TextsCount
<1> DEFINE over == Iterator(o)!Overflow(Append(minibatch, x))
<1>1. /\ x \in Iterator(o)!Item /\ ~ Iterator(o)!Duplicate(x)
      /\ over \in 1 .. Len(minibatch)
  BY OverflowTyped
<1>2. over = 0
  BY <1>1, OneMore
<1> HIDE DEF over
<1>3. QED  BY <1>1, <1>2

LEMMA LastTexts ==
  ASSUME NEW o, Iterator(o)!BatchingAssumption, Iterator(o)!TypeOK, PhaseInv,
         TextInv(o), Iterator(o)!LastBatch
  PROVE  TextInv(o)'
<1> SUFFICES ASSUME TextsCount(o) PROVE TextInv(o)'
  BY DEF TextInv, TextsCount
<1> DEFINE U == Iterator(o)!Item
<1>1. /\ minibatch' = <<>>
      /\ batches' = IF minibatch = <<>> THEN batches ELSE Append(batches, minibatch)
      /\ UNCHANGED <<stream, consumed>>
  BY DEF Iterator!LastBatch, Iterator!source
<1>2. minibatch \in Seq(U) /\ batches \in Seq(Seq(U))
  BY StateFacts
<1>3. /\ \A k \in DOMAIN consumed : NoTextTwice(consumed[k])
      /\ \A k \in DOMAIN batches : NoTextTwice(batches[k])
      /\ NoTextTwice(minibatch)
  BY DEF TextInv, TextsCount
<1> HIDE DEF U
<1>4. \A k \in DOMAIN batches' : NoTextTwice(batches'[k])
  <2>1. CASE minibatch = <<>>
    BY <1>1, <1>3, <2>1
  <2>2. CASE minibatch # <<>>
    BY <1>1, <1>2, <1>3, <2>2, MoreTwice
  <2>3. QED  BY <2>1, <2>2
<1>5. Len(minibatch') < Options[o].batch_size
  BY <1>1, OptionFacts
<1>6. QED  BY <1>1, <1>3, <1>4, <1>5, EmptyTwice, SameTwice DEF TextInv

LEMMA ConsumeTexts ==
  ASSUME NEW o, Iterator(o)!BatchingAssumption, Iterator(o)!TypeOK, PhaseInv,
         TextInv(o), NEW k \in DOMAIN batches, Iterator(o)!Consume(k)
  PROVE  TextInv(o)'
<1> SUFFICES ASSUME TextsCount(o) PROVE TextInv(o)'
  BY DEF TextInv, TextsCount
<1> DEFINE U == Iterator(o)!Item
<1>1. /\ batches' = Removed(batches, k) /\ consumed' = Append(consumed, batches[k])
      /\ UNCHANGED <<stream, minibatch, seen>> /\ batches[k] \in Seq(U)
  BY ConsumeFacts
<1>2. batches \in Seq(Seq(U)) /\ consumed \in Seq(Seq(U))
  BY StateFacts
<1> HIDE DEF U
<1>3. /\ \A i \in DOMAIN batches : NoTextTwice(batches[i])
      /\ \A i \in DOMAIN consumed : NoTextTwice(consumed[i])
      /\ NoTextTwice(minibatch) /\ Len(minibatch) < Options[o].batch_size
      /\ \A i \in DOMAIN minibatch : stream[minibatch[i].example].text \in seen
  BY DEF TextInv, TextsCount
<1>4. \A i \in DOMAIN batches' : NoTextTwice(batches'[i])
  <2>1. \A i \in DOMAIN batches' : \E j \in DOMAIN batches : batches'[i] = batches[j]
    BY <1>1, <1>2, WithoutExs
  <2>2. QED  BY <1>3, <2>1
<1>5. \A i \in DOMAIN consumed' : NoTextTwice(consumed'[i])
  BY <1>1, <1>2, <1>3, MoreTwice
<1>6. QED  BY <1>1, <1>3, <1>4, <1>5, SameTwice DEF TextInv

------------------------------------------------------------------------------
(* The output.                                                             *)

(* A list without repetitions that is as long as the interval it is from   *)
(* has all of it.                                                          *)
LEMMA ExCard ==
  ASSUME NEW T, NEW s \in Seq(T), Apart(s)
  PROVE  IsFiniteSet(Ex(s)) /\ Cardinality(Ex(s)) = Len(s)
<1> DEFINE f == [k \in 1 .. Len(s) |-> s[k].example]
<1>1. Len(s) \in Nat /\ DOMAIN s = 1 .. Len(s)
  OBVIOUS
<1>2. \A k \in 1 .. Len(s) : f[k] \in Ex(s)
  BY <1>1 DEF Ex
<1>3. \A k, l \in 1 .. Len(s) : s[k].example = s[l].example => k = l
  BY <1>1 DEF Apart
<1>4. \A e \in Ex(s) : \E k \in 1 .. Len(s) : f[k] = e
  BY <1>1 DEF Ex
<1>5. f \in Injection(1 .. Len(s), Ex(s))
  BY <1>2, <1>3, Fun_IsInj
<1>6. f \in Surjection(1 .. Len(s), Ex(s))
  BY <1>2, <1>4, Fun_IsSurj
<1>7. IsFiniteSet(1 .. Len(s)) /\ Cardinality(1 .. Len(s)) = Len(s)
  BY <1>1, Intervals
<1>8. IsFiniteSet(Ex(s)) /\ Cardinality(Ex(s)) = Cardinality(1 .. Len(s))
  <2> HIDE DEF f
  <2>1. QED  BY <1>5, <1>6, <1>7, FS_Surjection
<1>9. QED  BY <1>7, <1>8

LEMMA FullSet ==
  ASSUME NEW T, NEW s \in Seq(T), Apart(s), NEW b \in Nat, NEW n \in Nat,
         Ex(s) \subseteq b + 1 .. b + n, Len(s) >= n
  PROVE  Ex(s) = b + 1 .. b + n
<1> DEFINE S == b + 1 .. b + n
<1>1. IsFiniteSet(S) /\ Cardinality(S) = n
  <2>1. b + 1 \in Int /\ b + n \in Int
    OBVIOUS
  <2>2. /\ IsFiniteSet(b + 1 .. b + n)
        /\ Cardinality(b + 1 .. b + n)
             = IF b + 1 > b + n THEN 0 ELSE (b + n) - (b + 1) + 1
    BY <2>1, FS_Interval
  <2>3. QED  BY <2>2
<1>2. Cardinality(Ex(s)) = Len(s) /\ Len(s) \in Nat
  BY ExCard
<1> HIDE DEF S
<1>3. /\ Cardinality(Ex(s)) <= Cardinality(S)
      /\ Cardinality(Ex(s)) = Cardinality(S) => Ex(s) = S
  <2>1. Ex(s) \in SUBSET S
    BY DEF S
  <2>2. QED  BY <1>1, <2>1, FS_Subset
<1>4. Ex(s) = S
  BY <1>1, <1>2, <1>3
<1>5. QED  BY <1>4 DEF S

(* Results that are put in order after the output continue it.             *)
LEMMA Continued ==
  ASSUME NEW o, Iterator(o)!BatchingAssumption, Iterator(o)!TypeOK,
         NEW s \in Seq(Iterator(o)!Item), NEW n \in Nat,
         Apart(s), From(s, Len(output)),
         Ex(s) = Len(output) + 1 .. Len(output) + n,
         \A i \in DOMAIN output : output[i] = i,
         output' = output \o Iterator(o)!InOrder(s)
  PROVE  Len(s) = n /\ Len(output') = Len(output) + n /\ \A i \in DOMAIN output' : output'[i] = i
<1> DEFINE r == Iterator(o)!InOrder(s)
           D == DOMAIN stream
           m == Len(output)
<1>1. output \in Seq(D) /\ m \in Nat /\ DOMAIN output = 1 .. m
  BY StateFacts
<1>2. Len(s) = n /\ \A k \in 1 .. n : r[k] = m + k
  BY <1>1, InOrderFrom
<1>3. r \in Seq(D) /\ Len(r) = n
  BY <1>2, InOrderTyped
<1> HIDE DEF r, D
<1>4. /\ output' \in Seq(D) /\ Len(output') = m + n
      /\ \A k \in 1 .. m : output'[k] = output[k]
      /\ \A k \in 1 .. n : output'[m + k] = r[k]
  <2>1. output' = output \o r
    BY DEF r
  <2> HIDE DEF m
  <2>2. Len(output) = m
    BY DEF m
  <2>3. output \o r \in Seq(D) /\ Len(output \o r) = m + n
    <3>1. output \o r \in Seq(D) /\ Len(output \o r) = Len(output) + Len(r)
      BY <1>1, <1>3, ConcatFacts
    <3>2. QED  BY <1>3, <2>2, <3>1
  <2>4. \A k \in 1 .. m : (output \o r)[k] = output[k]
    BY <1>1, <1>3, <2>2
  <2>5. ASSUME NEW k \in 1 .. n PROVE (output \o r)[m + k] = r[k]
    <3>1. m + k \in m + 1 .. m + n /\ (m + k) - m = k
      BY <1>1
    <3>2. QED  BY <1>1, <1>3, <2>2, <3>1, ConcatFacts
  <2>6. QED  BY <2>1, <2>3, <2>4, <2>5
<1> HIDE DEF m
<1>5. ASSUME NEW i \in 1 .. m + n PROVE output'[i] = i
  <2>1. CASE i \in 1 .. m
    BY <1>1, <1>4, <2>1
  <2>2. CASE i \notin 1 .. m
    <3>1. i - m \in 1 .. n /\ m + (i - m) = i
      BY <1>1, <2>2
    <3>2. output'[m + (i - m)] = r[i - m] /\ r[i - m] = m + (i - m)
      BY <1>2, <1>4, <3>1 DEF m
    <3>3. QED  BY <3>1, <3>2
  <2>3. QED  BY <2>1, <2>2
<1>6. DOMAIN output' = 1 .. m + n
  BY <1>1, <1>4
<1>7. QED  BY <1>2, <1>4, <1>5, <1>6 DEF m

LEMMA SameCounts ==
  ASSUME NEW o, stream' = stream
  PROVE  AlignCounts(o)' <=> AlignCounts(o)
BY DEF AlignCounts

LEMMA BaseFacts ==
  ASSUME NEW o, Iterator(o)!BatchingAssumption, Iterator(o)!TypeOK, PhaseInv
  PROVE  /\ Base \in Nat /\ Len(output) \in Nat /\ Len(bucket_predictions) \in Nat
         /\ prev_idx = bucket_idx => Base = Len(output)
         /\ prev_idx # bucket_idx => Base = Len(output) + Len(bucket_predictions)
         /\ Left \in Nat /\ bucket_idx \in Nat /\ prev_idx \in Nat
         /\ Options[o].bucket_size \in Nat \ {0}
<1>1. Len(output) \in Nat /\ bucket_predictions \in Seq(Iterator(o)!Item)
        /\ bucket_idx \in Nat /\ prev_idx \in Nat
  BY StateFacts
<1>2. Len(bucket_predictions) \in Nat
  BY <1>1
<1>3. QED  BY <1>1, <1>2, LeftFacts, OptionFacts DEF Base

(* A step of batch_iter that puts the examples of the bucket elsewhere.    *)
LEMMA CutAlign ==
  ASSUME NEW o, Iterator(o)!BatchingAssumption, Iterator(o)!TypeOK, PhaseInv,
         AlignInv(o), phase = "batching", phase' \in {"batching", "consuming"},
         Left' = Left, Rest' = Rest,
         UNCHANGED <<stream, current_bucket_size, bucket_idx, prev_idx,
                     bucket_predictions, output>>,
         \A b : From(data, b) /\ From(minibatch, b) => From(data', b) /\ From(minibatch', b),
         \A b : From(data, b) /\ From(minibatch, b) /\ (\A k \in DOMAIN batches : From(batches[k], b))
                  => \A k \in DOMAIN batches' : From(batches'[k], b)
  PROVE  AlignInv(o)'
<1> SUFFICES ASSUME AlignCounts(o) PROVE (PlacesInv /\ CoverInv /\ FlushInv(o))'
  BY SameCounts DEF AlignInv
<1>1. PlacesInv /\ CoverInv /\ FlushInv(o)
  BY DEF AlignInv
<1>2. Base' = Base
  BY DEF Base
<1>3. PlacesInv'
  BY <1>1, <1>2 DEF PlacesInv
<1>4. CoverInv'
  BY <1>1, <1>2 DEF CoverInv
<1>5. FlushInv(o)'
  BY <1>1, <1>2 DEF FlushInv
<1>6. QED  BY <1>3, <1>4, <1>5

LEMMA CollectAlign ==
  ASSUME NEW o, Iterator(o)!BatchingAssumption, Iterator(o)!TypeOK, PhaseInv,
         AlignInv(o), Iterator(o)!Collect
  PROVE  AlignInv(o)'
<1> SUFFICES ASSUME AlignCounts(o) PROVE (PlacesInv /\ CoverInv /\ FlushInv(o))'
  BY SameCounts DEF AlignInv, Iterator!Collect
<1>1. PlacesInv /\ CoverInv /\ FlushInv(o)
  BY DEF AlignInv
<1>2. /\ UNCHANGED <<stream, phase, current_bucket_size, bucket_idx, data, minibatch,
                     batches, prev_idx, bucket_predictions, output>>
      /\ phase = "bucketing"
  BY DEF Iterator!Collect, Iterator!cutting, Iterator!results
<1>3. Left' = Left
  BY CollectTyped
<1>4. Base' = Base /\ Rest' = Rest
  BY <1>2 DEF Base, Rest
<1>5. PlacesInv'
  BY <1>1, <1>2, <1>4 DEF PlacesInv
<1>6. CoverInv'
  BY <1>1, <1>2, <1>3, <1>4 DEF CoverInv
<1>7. FlushInv(o)'
  BY <1>1, <1>2, <1>3, <1>4 DEF FlushInv
<1>8. QED  BY <1>5, <1>6, <1>7

LEMMA FillAlign ==
  ASSUME NEW o, Iterator(o)!BatchingAssumption, Iterator(o)!TypeOK, PhaseInv,
         AlignInv(o), Iterator(o)!FillBucket
  PROVE  AlignInv(o)'
<1>1. /\ phase = "bucketing"
      /\ Len(bucket) + 1 = current_bucket_size \/ taken + 1 = Len(stream)
      /\ current_bucket_size' = IF Len(bucket) + 1 = current_bucket_size
                                THEN Iterator(o)!Grow(current_bucket_size)
                                ELSE current_bucket_size
      /\ UNCHANGED <<stream, minibatch, batches, bucket_idx, prev_idx,
                     bucket_predictions, output>>
  BY DEF Iterator!FillBucket, Iterator!results
<1> SUFFICES ASSUME AlignCounts(o) PROVE (PlacesInv /\ CoverInv /\ FlushInv(o))'
  BY <1>1, SameCounts DEF AlignInv
<1>2. PlacesInv /\ CoverInv /\ FlushInv(o)
  BY DEF AlignInv
<1>3. data = <<>> /\ minibatch = <<>> /\ batches = <<>>
  BY <1>1 DEF PhaseInv
<1>4. /\ Ex(data') = Following(Left, taken + 1) /\ Left' = taken + 1
      /\ taken + 1 <= Len(stream) /\ phase' = "batching" /\ From(data', Left)
  BY FillFacts DEF AlignCounts
<1>5. Base = Left /\ Base' = Base /\ (prev_idx = bucket_idx => bucket_predictions = <<>>)
  BY <1>1, <1>2 DEF FlushInv, Base
<1>6. /\ taken \in Nat /\ Left \in Nat /\ Len(stream) \in Nat /\ Len(bucket) \in Nat
      /\ DOMAIN stream = 1 .. Len(stream) /\ taken = Left + Len(bucket)
      /\ Len(bucket) < current_bucket_size /\ current_bucket_size \in Nat
      /\ Len(output) \in Nat
  BY StateFacts, LeftFacts
<1>7. Ex(data') = Left + 1 .. Left'
  <2>1. \A m \in Left + 1 .. taken + 1 : m \in DOMAIN stream
    BY <1>4, <1>6
  <2>2. QED  BY <1>4, <2>1 DEF Following, AlignCounts
<1>8. Rest = {} /\ Rest' = Left + 1 .. Left'
  <2>1. Ex(data) = {} /\ Ex(minibatch) = {} /\ Exs(batches) = {}
    BY <1>3, EmptyEx
  <2>2. QED  BY <1>1, <1>7, <2>1 DEF Rest
<1>9. Ex(bucket_predictions) \subseteq Len(output) + 1 .. Base
  BY <1>2, <1>5, <1>8 DEF CoverInv
<1>10. PlacesInv'
  <2>1. Ex(bucket_predictions') \cap Rest' = {}
    BY <1>1, <1>5, <1>6, <1>8, <1>9
  <2>2. QED  BY <1>1, <1>2, <1>3, <1>4, <1>5, <2>1 DEF PlacesInv
<1>11. CoverInv'
  <2>1. Base' <= Left'
    BY <1>4, <1>5, <1>6
  <2>2. ASSUME prev_idx' = bucket_idx'
        PROVE  Ex(bucket_predictions') \cup Rest' = (Len(output') + 1) .. Left'
    <3>1. bucket_predictions = <<>> /\ Base = Len(output)
      BY <1>1, <1>5, <2>2, BaseFacts
    <3>2. Ex(bucket_predictions) = {}
      BY <3>1, EmptyEx
    <3>3. QED  BY <1>1, <1>5, <1>8, <3>1, <3>2
  <2>3. prev_idx' # bucket_idx' =>
         /\ Ex(bucket_predictions') = (Len(output') + 1) .. Base'
         /\ Rest' = (Base' + 1) .. Left'
    BY <1>1, <1>2, <1>5, <1>8 DEF CoverInv
  <2>4. QED  BY <2>1, <2>2, <2>3 DEF CoverInv
<1>12. FlushInv(o)'
  <2>1. current_bucket_size = Options[o].bucket_size
    BY <1>2 DEF FlushInv
  <2>2. current_bucket_size' = Options[o].bucket_size
    <3>1. Options[o].bucket_size \in Nat /\ ~ (current_bucket_size < Options[o].bucket_size)
      BY <1>6, <2>1
    <3>2. Iterator(o)!Grow(current_bucket_size) = current_bucket_size
      BY <3>1 DEF Iterator!Grow
    <3>3. QED  BY <1>1, <2>1, <3>2
  <2>3. /\ Left' > Base' /\ Left' - Base' <= Options[o].bucket_size
        /\ Left' - Base' = Options[o].bucket_size \/ Left' = Len(stream')
    <3>1. Left' = Left + (Len(bucket) + 1) /\ Base' = Left /\ stream' = stream
      BY <1>1, <1>4, <1>5, <1>6
    <3>2. Left' - Base' = Len(bucket) + 1 /\ Left' > Base'
      BY <1>6, <3>1
    <3>3. Len(bucket) + 1 <= Options[o].bucket_size
      BY <1>6, <2>1
    <3>4. Len(bucket) + 1 = Options[o].bucket_size \/ Left' = Len(stream)
      BY <1>1, <1>4, <2>1
    <3>5. QED  BY <3>1, <3>2, <3>3, <3>4
  <2>4. Options[o].task = "predict" => prev_idx = bucket_idx
    BY <1>1, <1>2 DEF FlushInv
  <2>5. QED  BY <1>1, <1>2, <1>4, <2>2, <2>3, <2>4 DEF FlushInv
<1>13. QED  BY <1>10, <1>11, <1>12

LEMMA MoreFrom ==
  ASSUME NEW T, NEW f \in Seq(Seq(T)), NEW s \in Seq(T), NEW b,
         \A k \in DOMAIN f : From(f[k], b), From(s, b)
  PROVE  \A k \in DOMAIN Append(f, s) : From(Append(f, s)[k], b)
BY AppendExs

LEMMA AddAlign ==
  ASSUME NEW o, Iterator(o)!BatchingAssumption, Iterator(o)!TypeOK, PhaseInv,
         AlignInv(o), NEW x, Iterator(o)!AddToBatch(x)
  PROVE  AlignInv(o)'
<1>1. /\ Ex(minibatch') = Ex(minibatch) \cup {x.example} /\ batches' = batches
      /\ \A b : From(minibatch, b) /\ x.example = b + x.index + 1 => From(minibatch', b)
      /\ Iterator(o)!Taking(x)
  BY AddFacts
<1>2. /\ Ex(data) = {x.example} \cup Ex(data')
      /\ \A b : From(data, b) => From(data', b) /\ x.example = b + x.index + 1
      /\ phase = "batching" /\ Left' = Left
      /\ UNCHANGED <<stream, current_bucket_size, bucket_idx, phase, prev_idx,
                     bucket_predictions, output>>
  BY <1>1, TakingFacts
<1>3. Rest' = Rest
  BY <1>1, <1>2 DEF Rest
<1>4. \A b : From(data, b) /\ From(minibatch, b) => From(data', b) /\ From(minibatch', b)
  BY <1>1, <1>2
<1>5. \A b : (\A k \in DOMAIN batches : From(batches[k], b))
               => \A k \in DOMAIN batches' : From(batches'[k], b)
  BY <1>1
<1>6. QED  BY <1>2, <1>3, <1>4, <1>5, CutAlign

LEMMA CompleteAlign ==
  ASSUME NEW o, Iterator(o)!BatchingAssumption, Iterator(o)!TypeOK, PhaseInv,
         AlignInv(o), NEW x, Iterator(o)!CompleteBatch(x)
  PROVE  AlignInv(o)'
<1> DEFINE a == Append(minibatch, x)
           U == Iterator(o)!Item
<1>1. /\ Ex(a) = Ex(minibatch) \cup {x.example} /\ a \in Seq(U)
      /\ \A b : From(minibatch, b) /\ x.example = b + x.index + 1 => From(a, b)
      /\ batches' = Append(batches, a) /\ minibatch' = <<>> /\ Iterator(o)!Taking(x)
  BY CompleteFacts
<1>2. /\ Ex(data) = {x.example} \cup Ex(data')
      /\ \A b : From(data, b) => From(data', b) /\ x.example = b + x.index + 1
      /\ phase = "batching" /\ Left' = Left
      /\ UNCHANGED <<stream, current_bucket_size, bucket_idx, phase, prev_idx,
                     bucket_predictions, output>>
  BY <1>1, TakingFacts
<1>3. batches \in Seq(Seq(U))
  BY StateFacts
<1> HIDE DEF a, U
<1>4. Exs(batches') = Exs(batches) \cup Ex(a)
  BY <1>1, <1>3, AppendExs
<1>5. Ex(minibatch') = {} /\ \A b : From(minibatch', b)
  BY <1>1, EmptyEx DEF From
<1>6. Rest' = Rest
  BY <1>1, <1>2, <1>4, <1>5 DEF Rest
<1>7. \A b : From(data, b) /\ From(minibatch, b) => From(data', b) /\ From(minibatch', b)
  BY <1>2, <1>5
<1>8. ASSUME NEW b, From(data, b), From(minibatch, b), \A k \in DOMAIN batches : From(batches[k], b)
      PROVE  \A k \in DOMAIN batches' : From(batches'[k], b)
  <2>1. From(a, b)
    BY <1>1, <1>2, <1>8
  <2>2. QED  BY <1>1, <1>3, <1>8, <2>1, MoreFrom
<1>9. QED  BY <1>2, <1>6, <1>7, <1>8, CutAlign

LEMMA OverflowAlign ==
  ASSUME NEW o, Iterator(o)!BatchingAssumption, Iterator(o)!TypeOK, PhaseInv,
         AlignInv(o), NEW x, Iterator(o)!OverflowBatch(x)
  PROVE  AlignInv(o)'
<1> DEFINE U == Iterator(o)!Item
<1>1. Iterator(o)!Taking(x)
  BY OverflowTyped
<1>2. PICK a, c : IsCut(o, a, c, x, Iterator(o)!Overflow(Append(minibatch, x)))
  BY CutFacts
<1>3. /\ a \in Seq(U) /\ batches' = Append(batches, a) /\ minibatch' = c
      /\ Ex(a) \cup Ex(c) = Ex(minibatch) \cup {x.example}
      /\ \A b : From(minibatch, b) /\ x.example = b + x.index + 1 =>
           From(a, b) /\ From(c, b)
  BY <1>2 DEF IsCut
<1>4. /\ Ex(data) = {x.example} \cup Ex(data')
      /\ \A b : From(data, b) => From(data', b) /\ x.example = b + x.index + 1
      /\ phase = "batching" /\ Left' = Left
      /\ UNCHANGED <<stream, current_bucket_size, bucket_idx, phase, prev_idx,
                     bucket_predictions, output>>
  BY <1>1, TakingFacts
<1>5. batches \in Seq(Seq(U))
  BY StateFacts
<1> HIDE DEF U
<1>6. Exs(batches') = Exs(batches) \cup Ex(a) /\ Ex(minibatch') = Ex(c)
  BY <1>3, <1>5, AppendExs
<1>7. Rest' = Rest
  BY <1>3, <1>4, <1>6 DEF Rest
<1>8. \A b : From(data, b) /\ From(minibatch, b) => From(data', b) /\ From(minibatch', b)
  BY <1>3, <1>4
<1>9. ASSUME NEW b, From(data, b), From(minibatch, b), \A k \in DOMAIN batches : From(batches[k], b)
      PROVE  \A k \in DOMAIN batches' : From(batches'[k], b)
  <2>1. From(a, b)
    BY <1>3, <1>4, <1>9
  <2>2. QED  BY <1>3, <1>5, <1>9, <2>1, MoreFrom
<1>10. QED  BY <1>4, <1>7, <1>8, <1>9, CutAlign

LEMMA LastAlign ==
  ASSUME NEW o, Iterator(o)!BatchingAssumption, Iterator(o)!TypeOK, PhaseInv,
         AlignInv(o), Iterator(o)!LastBatch
  PROVE  AlignInv(o)'
<1> DEFINE U == Iterator(o)!Item
<1>1. /\ phase = "batching" /\ phase' = "consuming" /\ minibatch' = <<>>
      /\ batches' = IF minibatch = <<>> THEN batches ELSE Append(batches, minibatch)
      /\ UNCHANGED <<stream, data, current_bucket_size, bucket_idx, prev_idx,
                     bucket_predictions, output>>
  BY DEF Iterator!LastBatch, Iterator!source, Iterator!results
<1>2. Left' = Left
  BY LastTyped
<1>3. minibatch \in Seq(U) /\ batches \in Seq(Seq(U))
  BY StateFacts
<1> HIDE DEF U
<1>4. Exs(batches') = Exs(batches) \cup Ex(minibatch)
  <2>1. CASE minibatch = <<>>
    BY <1>1, <2>1, EmptyEx
  <2>2. CASE minibatch # <<>>
    BY <1>1, <1>3, <2>2, AppendExs
  <2>3. QED  BY <2>1, <2>2
<1>5. Ex(minibatch') = {} /\ \A b : From(minibatch', b)
  BY <1>1, EmptyEx DEF From
<1>6. Rest' = Rest
  BY <1>1, <1>4, <1>5 DEF Rest
<1>7. \A b : From(data, b) /\ From(minibatch, b) => From(data', b) /\ From(minibatch', b)
  BY <1>1, <1>5
<1>8. ASSUME NEW b, From(data, b), From(minibatch, b), \A k \in DOMAIN batches : From(batches[k], b)
      PROVE  \A k \in DOMAIN batches' : From(batches'[k], b)
  <2>1. CASE minibatch = <<>>
    BY <1>1, <1>8, <2>1
  <2>2. CASE minibatch # <<>>
    BY <1>1, <1>3, <1>8, <2>2, MoreFrom
  <2>3. QED  BY <2>1, <2>2
<1>9. QED  BY <1>1, <1>2, <1>6, <1>7, <1>8, CutAlign

------------------------------------------------------------------------------
(* While batches are consumed nothing else is left of the bucket.          *)
LEMMA ConsumingRest ==
  ASSUME PhaseInv, phase # "batching"
  PROVE  /\ data = <<>> /\ minibatch = <<>> /\ Rest = Exs(batches)
         /\ batches = <<>> => Rest = {}
<1>1. data = <<>> /\ minibatch = <<>>
  BY DEF PhaseInv
<1>2. Rest = Exs(batches)
  BY <1>1, EmptyEx DEF Rest
<1>3. QED  BY <1>1, <1>2, EmptyEx

LEMMA NextAlign ==
  ASSUME NEW o, Iterator(o)!BatchingAssumption, Iterator(o)!TypeOK, PhaseInv,
         AlignInv(o), Iterator(o)!NextBucket
  PROVE  AlignInv(o)'
<1>1. /\ phase = "consuming" /\ batches = <<>> /\ taken < Len(stream)
      /\ bucket_idx' = bucket_idx + 1 /\ phase' = "bucketing"
      /\ UNCHANGED <<stream, current_bucket_size, data, minibatch, batches,
                     prev_idx, bucket_predictions, output>>
  BY DEF Iterator!NextBucket, Iterator!cutting, Iterator!results
<1> SUFFICES ASSUME AlignCounts(o) PROVE (PlacesInv /\ CoverInv /\ FlushInv(o))'
  BY <1>1, SameCounts DEF AlignInv
<1>2. PlacesInv /\ CoverInv /\ FlushInv(o) /\ Options[o].task # "train"
  BY DEF AlignInv, AlignCounts
<1>3. data = <<>> /\ minibatch = <<>> /\ Rest = {} /\ Rest' = {}
  <2>1. data = <<>> /\ minibatch = <<>> /\ Rest = {}
    BY <1>1, ConsumingRest
  <2>2. Rest' = Rest
    BY <1>1 DEF Rest
  <2>3. QED  BY <2>1, <2>2
<1>4. Left' = Left
  BY NextTyped
<1> DEFINE n == Len(bucket_predictions)  m == Len(output)
<1>5. /\ Base \in Nat /\ m \in Nat /\ n \in Nat /\ Left \in Nat
      /\ prev_idx = bucket_idx => Base = m
      /\ prev_idx # bucket_idx => Base = m + n
      /\ bucket_idx \in Nat /\ prev_idx \in Nat
      /\ taken \in Nat /\ Len(stream) \in Nat /\ Left <= taken
      /\ Options[o].bucket_size \in Nat
      /\ bucket_predictions \in Seq(Iterator(o)!Item)
  BY BaseFacts, StateFacts, LeftFacts
<1>6. Base <= Left
  BY <1>2 DEF CoverInv
<1> HIDE DEF n, m
<1>7. Options[o].task = "predict" \/ Options[o].task = "score"
  BY <1>2, OptionFacts
<1>8. CASE prev_idx = bucket_idx
  <2>1. Ex(bucket_predictions) = m + 1 .. Left
    BY <1>2, <1>3, <1>8 DEF CoverInv, m
  <2>2. Left - m \in Nat /\ m + (Left - m) = Left
    BY <1>5, <1>6, <1>8
  <2>3. n = Left - m
    <3>1. Apart(bucket_predictions) /\ From(bucket_predictions, m)
      BY <1>2 DEF PlacesInv, m
    <3>2. Ex(bucket_predictions) = m + 1 .. m + (Left - m)
      BY <2>1, <2>2
    <3>3. Len(bucket_predictions) = Left - m
      BY <1>5, <2>2, <3>1, <3>2, InOrderFrom
    <3>4. QED  BY <3>3 DEF n
  <2>4. Options[o].task = "score"
    <3>1. ASSUME Options[o].task = "predict" PROVE FALSE
      <4>1. n < Options[o].bucket_size
        BY <1>2, <1>8, <3>1 DEF FlushInv, n
      <4>2. Left - Base = Options[o].bucket_size \/ Left = Len(stream)
        BY <1>1, <1>2, <1>8 DEF FlushInv
      <4>3. QED  BY <1>1, <1>5, <1>8, <2>3, <4>1, <4>2
    <3>2. QED  BY <1>7, <3>1
  <2>5. prev_idx' # bucket_idx' /\ prev_idx' + 1 = bucket_idx'
    BY <1>1, <1>5, <1>8
  <2>6. Base' = Left
    <3>1. Base' = m + n
      BY <1>1, <2>5 DEF Base, m, n
    <3>2. QED  BY <2>2, <2>3, <3>1
  <2>7. PlacesInv'
    BY <1>1, <1>2, <1>3 DEF PlacesInv, From
  <2>8. CoverInv'
    <3>1. Left + 1 .. Left = {}
      BY <1>5
    <3>2. QED  BY <1>1, <1>3, <1>4, <1>5, <2>1, <2>5, <2>6, <3>1 DEF CoverInv, m
  <2>9. FlushInv(o)'
    BY <1>1, <1>2, <1>4, <2>4, <2>5, <2>6 DEF FlushInv
  <2>10. QED  BY <2>7, <2>8, <2>9
<1>9. CASE prev_idx # bucket_idx
  <2>1. {} = Base + 1 .. Left
    BY <1>2, <1>3, <1>9 DEF CoverInv
  <2>2. Base = Left
    BY <1>5, <1>6, <2>1
  <2>3. Options[o].task = "predict"
    <3>1. ASSUME Options[o].task = "score" PROVE FALSE
      <4>1. Left > Base
        BY <1>1, <1>2, <3>1 DEF FlushInv
      <4>2. QED  BY <1>5, <2>2, <4>1
    <3>2. QED  BY <1>7, <3>1
  <2>4. bucket_predictions = <<>> /\ prev_idx = bucket_idx + 1
    BY <1>2, <1>9, <2>3 DEF FlushInv
  <2>5. prev_idx' = bucket_idx' /\ m = Left
    <3>1. n = 0
      BY <2>4 DEF n
    <3>2. QED  BY <1>1, <1>5, <1>9, <2>2, <2>4, <3>1
  <2>6. Base' = Left
    <3>1. Base' = m + 0
      BY <1>1, <2>5 DEF Base, m
    <3>2. QED  BY <1>5, <2>5, <3>1
  <2>7. PlacesInv'
    BY <1>1, <1>2, <1>3 DEF PlacesInv, From
  <2>8. CoverInv'
    <3>1. Left + 1 .. Left = {} /\ Ex(bucket_predictions') = {}
      BY <1>1, <1>5, <2>4, EmptyEx
    <3>2. QED  BY <1>1, <1>3, <1>4, <1>5, <2>5, <2>6, <3>1 DEF CoverInv, m
  <2>9. FlushInv(o)'
    <3>1. Len(bucket_predictions') = 0 /\ 0 < Options[o].bucket_size
      BY <1>1, <2>4, OptionFacts
    <3>2. QED  BY <1>1, <1>2, <1>4, <2>3, <2>4, <2>5, <2>6, <3>1 DEF FlushInv
  <2>10. QED  BY <2>7, <2>8, <2>9
<1>10. QED  BY <1>8, <1>9

LEMMA FinishAlign ==
  ASSUME NEW o, Iterator(o)!BatchingAssumption, Iterator(o)!TypeOK, PhaseInv,
         AlignInv(o), Iterator(o)!Finish
  PROVE  AlignInv(o)'
<1>1. /\ phase = "consuming" /\ batches = <<>> /\ taken = Len(stream)
      /\ phase' = "done"
      /\ output' = output \o Iterator(o)!InOrder(bucket_predictions)
      /\ bucket_predictions' = <<>>
      /\ UNCHANGED <<stream, current_bucket_size, bucket_idx, data, minibatch, batches,
                     prev_idx>>
  BY DEF Iterator!Finish, Iterator!source, Iterator!cutting
<1> SUFFICES ASSUME AlignCounts(o) PROVE (PlacesInv /\ CoverInv /\ FlushInv(o))'
  BY <1>1, SameCounts DEF AlignInv
<1>2. PlacesInv /\ CoverInv /\ FlushInv(o) /\ Options[o].task # "train"
  BY DEF AlignInv, AlignCounts
<1>3. data = <<>> /\ minibatch = <<>> /\ Rest = {} /\ Rest' = {}
  <2>1. data = <<>> /\ minibatch = <<>> /\ Rest = {}
    BY <1>1, ConsumingRest
  <2>2. Rest' = Rest
    BY <1>1 DEF Rest
  <2>3. QED  BY <2>1, <2>2
<1>4. Left' = Left
  BY FinishTyped
<1> DEFINE n == Len(bucket_predictions)  m == Len(output)
<1>5. /\ Base \in Nat /\ m \in Nat /\ n \in Nat /\ Left \in Nat
      /\ prev_idx = bucket_idx => Base = m
      /\ prev_idx # bucket_idx => Base = m + n
      /\ taken \in Nat /\ taken = Left + Len(bucket)
      /\ bucket_predictions \in Seq(Iterator(o)!Item)
  BY BaseFacts, StateFacts, LeftFacts
<1>6. Base <= Left
  BY <1>2 DEF CoverInv
<1>7. Left = Len(stream)
  <2>1. bucket = <<>>
    BY <1>1 DEF PhaseInv
  <2>2. Len(bucket) = 0
    BY <2>1
  <2>3. QED  BY <1>1, <1>5, <2>2
<1> HIDE DEF n
<1>8. Ex(bucket_predictions) = m + 1 .. Left
  <2>1. CASE prev_idx = bucket_idx
    BY <1>2, <1>3, <2>1 DEF CoverInv
  <2>2. CASE prev_idx # bucket_idx
    <3>1. {} = Base + 1 .. Left /\ Ex(bucket_predictions) = m + 1 .. Base
      BY <1>2, <1>3, <2>2 DEF CoverInv
    <3>2. Base = Left
      BY <1>5, <1>6, <3>1
    <3>3. QED  BY <3>1, <3>2
  <2>3. QED  BY <2>1, <2>2
<1>9. Left - m \in Nat /\ m + (Left - m) = Left
  BY <1>5, <1>6
<1>10. Len(output') = Left /\ \A i \in DOMAIN output' : output'[i] = i
  <2>1. /\ Apart(bucket_predictions) /\ From(bucket_predictions, Len(output))
        /\ \A i \in DOMAIN output : output[i] = i
    BY <1>2 DEF PlacesInv
  <2>2. Ex(bucket_predictions) = Len(output) + 1 .. Len(output) + (Left - m)
    BY <1>8, <1>9
  <2>3. Len(output') = Len(output) + (Left - m) /\ \A i \in DOMAIN output' : output'[i] = i
    BY <1>1, <1>5, <1>9, <2>1, <2>2, Continued
  <2>4. QED  BY <1>9, <2>3
<1>11. Base' = Left
  <2>1. Base' = Len(output') + (IF prev_idx' = bucket_idx' THEN 0 ELSE Len(bucket_predictions'))
    BY DEF Base
  <2>2. Len(bucket_predictions') = 0
    BY <1>1
  <2>3. QED  BY <1>5, <1>10, <2>1, <2>2
<1>12. Ex(bucket_predictions') = {} /\ Apart(bucket_predictions')
  BY <1>1, EmptyEx
<1>13. PlacesInv'
  BY <1>1, <1>2, <1>3, <1>10, <1>12 DEF PlacesInv, From
<1>14. CoverInv'
  <2>1. Left + 1 .. Left = {}
    BY <1>5
  <2>2. /\ Base' = Left /\ Left' = Left /\ Len(output') = Left /\ Rest' = {}
        /\ Ex(bucket_predictions') = {} /\ Left <= Left
    BY <1>3, <1>4, <1>5, <1>10, <1>11, <1>12
  <2>3. QED  BY <2>1, <2>2 DEF CoverInv
<1>15. FlushInv(o)'
  <2>1. Options[o].task = "score" => prev_idx = bucket_idx
    <3>1. ASSUME Options[o].task = "score", prev_idx # bucket_idx PROVE FALSE
      <4>1. Left > Base
        BY <1>1, <1>2, <3>1 DEF FlushInv
      <4>2. {} = Base + 1 .. Left
        BY <1>2, <1>3, <3>1 DEF CoverInv
      <4>3. QED  BY <1>5, <4>1, <4>2
    <3>2. QED  BY <3>1
  <2>2. Len(bucket_predictions') = 0 /\ 0 < Options[o].bucket_size
    BY <1>1, OptionFacts
  <2>3. QED  BY <1>1, <1>2, <1>4, <1>7, <1>10, <1>11, <2>1, <2>2 DEF FlushInv
<1>16. QED  BY <1>13, <1>14, <1>15

LEMMA ConcatFrom ==
  ASSUME NEW T, NEW s \in Seq(T), NEW t \in Seq(T), NEW b, From(s, b), From(t, b)
  PROVE  From(s \o t, b)
<1> DEFINE n == Len(s)
           m == Len(t)
           r == s \o t
<1>1. /\ n \in Nat /\ m \in Nat /\ DOMAIN s = 1 .. n /\ DOMAIN t = 1 .. m
      /\ DOMAIN r = 1 .. n + m
      /\ \A k \in 1 .. n : r[k] = s[k]
      /\ \A k \in n + 1 .. n + m : r[k] = t[k - n]
  <2>1. r \in Seq(T) /\ Len(r) = n + m
    BY ConcatFacts
  <2>2. n \in Nat /\ m \in Nat /\ DOMAIN s = 1 .. n /\ DOMAIN t = 1 .. m
    OBVIOUS
  <2>3. /\ \A k \in 1 .. n : r[k] = s[k]
        /\ \A k \in n + 1 .. n + m : r[k] = t[k - n]
    BY ConcatFacts
  <2> HIDE DEF r, n, m
  <2>4. DOMAIN r = 1 .. n + m
    BY <2>1, <2>2
  <2>5. QED  BY <2>2, <2>3, <2>4
<1> HIDE DEF n, m, r
<1>2. ASSUME NEW k \in 1 .. n + m PROVE r[k].example = b + r[k].index + 1
  <2>1. CASE k \in 1 .. n
    BY <1>1, <2>1 DEF From
  <2>2. CASE k \notin 1 .. n
    <3>1. k \in n + 1 .. n + m /\ k - n \in 1 .. m
      BY <1>1, <2>2
    <3>2. r[k] = t[k - n]
      BY <1>1, <3>1
    <3>3. QED  BY <1>1, <3>1, <3>2 DEF From
  <2>3. QED  BY <2>1, <2>2
<1>3. From(r, b)
  BY <1>1, <1>2 DEF From
<1>4. QED  BY <1>3 DEF r

(* What a consumer has, with the next batch.                               *)
LEMMA MoreResults ==
  ASSUME NEW o, Iterator(o)!BatchingAssumption, Iterator(o)!TypeOK, PhaseInv,
         ApartInv, PlacesInv, CoverInv,
         NEW k \in DOMAIN batches, Iterator(o)!Consume(k)
  PROVE  LET all == bucket_predictions \o batches[k]
         IN  /\ all \in Seq(Iterator(o)!Item)
             /\ Ex(all) = Ex(bucket_predictions) \cup Ex(batches[k]) /\ Apart(all)
             /\ Rest = Rest' \cup Ex(batches[k]) /\ Ex(all) \cap Rest' = {}
             /\ Ex(batches[k]) \cap Rest' = {} /\ Apart(batches[k])
             /\ prev_idx = bucket_idx => From(all, Len(output))
             /\ Rest' = {} => batches' = <<>>
             /\ From(batches[k], Base)
             /\ \A b : (\A i \in DOMAIN batches : From(batches[i], b)) =>
                         \A i \in DOMAIN batches' : From(batches'[i], b)
<1> DEFINE U == Iterator(o)!Item
           batch == batches[k]
           all == bucket_predictions \o batch
<1>1. /\ phase = "consuming" /\ batches' = Removed(batches, k)
      /\ batch \in Seq(U) /\ UNCHANGED <<phase, data, minibatch>>
  BY ConsumeFacts
<1>2. /\ batches \in Seq(Seq(U)) /\ bucket_predictions \in Seq(U)
  BY StateFacts
<1>3. AllApart(batches)
  BY DEF ApartInv
<1> HIDE DEF U
<1>4. /\ Exs(batches) = Exs(batches') \cup Ex(batch) /\ Apart(batch)
      /\ Exs(batches') \cap Ex(batch) = {} /\ batches' \in Seq(Seq(U))
      /\ \A i \in DOMAIN batches' : \E j \in DOMAIN batches : batches'[i] = batches[j]
  BY <1>1, <1>2, <1>3, WithoutExs
<1>5. Rest = Exs(batches) /\ data = <<>> /\ minibatch = <<>>
  BY <1>1, ConsumingRest
<1>6. Rest' = Exs(batches')
  BY <1>1, <1>5, EmptyEx DEF Rest
<1>7. /\ Ex(bucket_predictions) \cap Rest = {} /\ Apart(bucket_predictions)
      /\ From(bucket_predictions, Len(output))
      /\ \A i \in DOMAIN batches : From(batches[i], Base)
  BY DEF PlacesInv
<1>8. From(batch, Base)
  BY <1>7
<1> HIDE DEF batch
<1>9. /\ all \in Seq(U) /\ Ex(all) = Ex(bucket_predictions) \cup Ex(batch)
      /\ Apart(all) <=> /\ Apart(bucket_predictions) /\ Apart(batch)
                        /\ Ex(bucket_predictions) \cap Ex(batch) = {}
  BY <1>1, <1>2, ConcatEx
<1>10. prev_idx = bucket_idx => From(all, Len(output))
  <2>1. prev_idx = bucket_idx => Base = Len(output)
    BY BaseFacts
  <2>2. From(batch, Len(output)) => From(all, Len(output))
    BY <1>1, <1>2, <1>7, ConcatFrom
  <2>3. QED  BY <1>8, <2>1, <2>2
<1>11. Rest' = {} => batches' = <<>>
  <2>1. SUFFICES ASSUME batches' # <<>> PROVE Rest' # {}
    OBVIOUS
  <2>2. 1 \in DOMAIN batches' /\ batches'[1] \in Seq(U)
    BY <1>4, <2>1
  <2>3. batches'[1] # <<>>
    <3>1. PICK j \in DOMAIN batches : batches'[1] = batches[j]
      BY <1>4, <2>2
    <3>2. QED  BY <3>1 DEF PhaseInv
  <2>4. 1 \in DOMAIN batches'[1]
    BY <2>2, <2>3
  <2>5. batches'[1][1].example \in Ex(batches'[1])
    BY <2>4 DEF Ex
  <2>6. batches'[1][1].example \in Exs(batches')
    BY <2>2, <2>5 DEF Exs
  <2>7. QED  BY <1>6, <2>6
<1>12. \A b : (\A i \in DOMAIN batches : From(batches[i], b)) =>
                \A i \in DOMAIN batches' : From(batches'[i], b)
  BY <1>4
<1> HIDE DEF all
<1>13. /\ Rest = Rest' \cup Ex(batch) /\ Ex(batch) \cap Rest' = {}
       /\ Apart(all) /\ Ex(all) \cap Rest' = {}
  BY <1>4, <1>5, <1>6, <1>7, <1>9
<1>14. QED  BY <1>4, <1>8, <1>9, <1>10, <1>11, <1>12, <1>13 DEF all, batch, U

(* The results of a bucket are not complete: they wait.                    *)
LEMMA WaitAlign ==
  ASSUME NEW o, Iterator(o)!BatchingAssumption, Iterator(o)!TypeOK, PhaseInv,
         ApartInv, PlacesInv, CoverInv, FlushInv(o),
         NEW k \in DOMAIN batches, Iterator(o)!Consume(k),
         prev_idx = bucket_idx, prev_idx' = prev_idx, output' = output,
         bucket_predictions' = bucket_predictions \o batches[k],
         Options[o].task = "predict" => Len(bucket_predictions') < Options[o].bucket_size
  PROVE  (PlacesInv /\ CoverInv /\ FlushInv(o))'
<1>1. /\ phase = "consuming" /\ phase' = phase /\ Left' = Left
      /\ UNCHANGED <<stream, current_bucket_size, bucket_idx, data, minibatch>>
  BY ConsumeFacts
<1>2. /\ Ex(bucket_predictions') = Ex(bucket_predictions) \cup Ex(batches[k])
      /\ Apart(bucket_predictions')
      /\ Rest = Rest' \cup Ex(batches[k]) /\ Ex(bucket_predictions') \cap Rest' = {}
      /\ From(bucket_predictions', Len(output))
      /\ \A b : (\A i \in DOMAIN batches : From(batches[i], b)) =>
                  \A i \in DOMAIN batches' : From(batches'[i], b)
  BY MoreResults
<1>3. Base' = Base
  <2>1. Base = Len(output) + 0 /\ Base' = Len(output') + 0
    BY <1>1 DEF Base
  <2>2. QED  BY <2>1
<1>4. PlacesInv'
  BY <1>1, <1>2, <1>3 DEF PlacesInv
<1>5. CoverInv'
  BY <1>1, <1>2, <1>3 DEF CoverInv
<1>6. FlushInv(o)'
  BY <1>1, <1>3 DEF FlushInv
<1>7. QED  BY <1>4, <1>5, <1>6

(* _predict has the results of a whole bucket and puts them in order.      *)
LEMMA PredictFlush ==
  ASSUME NEW o, Iterator(o)!BatchingAssumption, Iterator(o)!TypeOK, PhaseInv,
         ApartInv, PlacesInv, CoverInv, FlushInv(o), Options[o].task = "predict",
         NEW k \in DOMAIN batches, Iterator(o)!Consume(k),
         prev_idx = bucket_idx, prev_idx' = bucket_idx + 1,
         Len(bucket_predictions \o batches[k]) >= Options[o].bucket_size,
         output' = output \o Iterator(o)!InOrder(bucket_predictions \o batches[k]),
         bucket_predictions' = <<>>
  PROVE  (PlacesInv /\ CoverInv /\ FlushInv(o))'
<1> DEFINE all == bucket_predictions \o batches[k]
           m == Len(output)
<1>1. /\ phase = "consuming" /\ phase' = phase /\ Left' = Left
      /\ UNCHANGED <<stream, current_bucket_size, bucket_idx, data, minibatch>>
  BY ConsumeFacts
<1>2. /\ all \in Seq(Iterator(o)!Item)
      /\ Ex(all) = Ex(bucket_predictions) \cup Ex(batches[k]) /\ Apart(all)
      /\ Rest = Rest' \cup Ex(batches[k]) /\ Ex(all) \cap Rest' = {}
      /\ From(all, m) /\ (Rest' = {} => batches' = <<>>)
  BY MoreResults
<1>3. /\ m \in Nat /\ Left \in Nat /\ Base = m /\ Base <= Left
      /\ Options[o].bucket_size \in Nat /\ bucket_idx \in Nat
  BY BaseFacts DEF CoverInv
<1>4. Left - Base <= Options[o].bucket_size
  BY <1>1 DEF FlushInv
<1> DEFINE n == Left - m
<1>5. n \in Nat /\ m + n = Left /\ Len(all) \in Nat
  BY <1>2, <1>3
<1>6. Len(all) >= n
  BY <1>3, <1>4, <1>5
<1>7. Ex(all) \cup Rest' = m + 1 .. m + n
  BY <1>2, <1>5 DEF CoverInv
<1>8. \A i \in DOMAIN output : output[i] = i
  BY DEF PlacesInv
<1>9. output' = output \o Iterator(o)!InOrder(all)
  OBVIOUS
<1> HIDE DEF all, n
<1>10. Ex(all) = m + 1 .. m + n
  <2>1. Ex(all) \subseteq m + 1 .. m + n
    BY <1>7
  <2>2. QED  BY <1>2, <1>3, <1>5, <1>6, <2>1, FullSet
<1>11. Rest' = {} /\ batches' = <<>>
  BY <1>2, <1>7, <1>10
<1>12. Len(output') = m + n /\ \A i \in DOMAIN output' : output'[i] = i
  BY <1>2, <1>5, <1>8, <1>9, <1>10, Continued DEF m
<1> HIDE DEF m
<1>13. prev_idx' # bucket_idx' /\ prev_idx' = bucket_idx' + 1
  BY <1>1, <1>3
<1>14. Base' = Left
  <2>1. Len(bucket_predictions') = 0
    OBVIOUS
  <2>2. Base' = Len(output') + Len(bucket_predictions')
    BY <1>13 DEF Base
  <2>3. QED  BY <1>3, <1>5, <1>12, <2>1, <2>2
<1>15. data' = <<>> /\ minibatch' = <<>>
  BY <1>1, ConsumingRest
<1>16. Ex(bucket_predictions') = {} /\ Apart(bucket_predictions')
  BY EmptyEx
<1>17. PlacesInv'
  BY <1>11, <1>12, <1>15, <1>16 DEF PlacesInv, From
<1>18. CoverInv'
  <2>1. Left + 1 .. Left = {} /\ Left <= Left
    BY <1>3
  <2>2. Left' = Left /\ Len(output') = Left
    BY <1>1, <1>5, <1>12
  <2>3. QED  BY <1>11, <1>13, <1>14, <1>16, <2>1, <2>2 DEF CoverInv
<1>19. FlushInv(o)'
  BY <1>1, <1>11, <1>13 DEF FlushInv
<1>20. QED  BY <1>17, <1>18, <1>19

(* _score has met the next bucket: it puts the results of the last one in  *)
(* order and keeps the batch.                                              *)
LEMMA ScoreFlush ==
  ASSUME NEW o, Iterator(o)!BatchingAssumption, Iterator(o)!TypeOK, PhaseInv,
         ApartInv, PlacesInv, CoverInv, FlushInv(o), Options[o].task = "score",
         NEW k \in DOMAIN batches, Iterator(o)!Consume(k),
         prev_idx # bucket_idx, prev_idx' = prev_idx + 1,
         output' = output \o Iterator(o)!InOrder(bucket_predictions),
         bucket_predictions' = batches[k]
  PROVE  (PlacesInv /\ CoverInv /\ FlushInv(o))'
<1> DEFINE m == Len(output)  n == Len(bucket_predictions)
<1>1. /\ phase = "consuming" /\ phase' = phase /\ Left' = Left
      /\ UNCHANGED <<stream, current_bucket_size, bucket_idx, data, minibatch>>
  BY ConsumeFacts
<1>2. /\ Rest = Rest' \cup Ex(batches[k]) /\ Ex(batches[k]) \cap Rest' = {}
      /\ Apart(batches[k]) /\ From(batches[k], Base)
      /\ \A b : (\A i \in DOMAIN batches : From(batches[i], b)) =>
                  \A i \in DOMAIN batches' : From(batches'[i], b)
  BY MoreResults
<1>3. /\ m \in Nat /\ n \in Nat /\ Left \in Nat /\ Base = m + n /\ Base <= Left
      /\ bucket_predictions \in Seq(Iterator(o)!Item)
  BY BaseFacts, StateFacts DEF CoverInv
<1>4. prev_idx' = bucket_idx'
  BY <1>1 DEF FlushInv
<1>5. Ex(bucket_predictions) = m + 1 .. m + n /\ Rest = Base + 1 .. Left
  BY <1>3 DEF CoverInv
<1>6. /\ Apart(bucket_predictions) /\ From(bucket_predictions, m)
      /\ \A i \in DOMAIN output : output[i] = i
      /\ \A i \in DOMAIN batches : From(batches[i], Base)
  BY DEF PlacesInv
<1>7. Len(output') = Base /\ \A i \in DOMAIN output' : output'[i] = i
  <2> HIDE DEF n
  <2>1. Len(output') = m + n /\ \A i \in DOMAIN output' : output'[i] = i
    BY <1>3, <1>5, <1>6, Continued
  <2>2. QED  BY <1>3, <2>1
<1> HIDE DEF m, n
<1>8. Base' = Base
  <2>1. Base' = Len(output') + 0
    BY <1>4 DEF Base
  <2>2. QED  BY <1>3, <1>7, <2>1
<1>9. data = <<>> /\ minibatch = <<>>
  BY <1>1, ConsumingRest
<1>10. PlacesInv'
  BY <1>1, <1>2, <1>6, <1>7, <1>8, <1>9 DEF PlacesInv, From
<1>11. CoverInv'
  BY <1>1, <1>2, <1>3, <1>4, <1>5, <1>7, <1>8 DEF CoverInv
<1>12. FlushInv(o)'
  BY <1>1, <1>4, <1>8 DEF FlushInv
<1>13. QED  BY <1>10, <1>11, <1>12

LEMMA ConsumeAlign ==
  ASSUME NEW o, Iterator(o)!BatchingAssumption, Iterator(o)!TypeOK, PhaseInv,
         ApartInv, AlignInv(o), NEW k \in DOMAIN batches, Iterator(o)!Consume(k)
  PROVE  AlignInv(o)'
<1> DEFINE all == bucket_predictions \o batches[k]
<1>1. /\ phase = "consuming" /\ stream' = stream /\ batches # <<>>
      /\ Options[o].task = "predict" => Iterator(o)!Predict(batches[k])
      /\ Options[o].task = "score" => Iterator(o)!Score(batches[k])
  BY ConsumeFacts
<1> SUFFICES ASSUME AlignCounts(o) PROVE (PlacesInv /\ CoverInv /\ FlushInv(o))'
  BY <1>1, SameCounts DEF AlignInv
<1>2. PlacesInv /\ CoverInv /\ FlushInv(o) /\ Options[o].task # "train"
  BY DEF AlignInv, AlignCounts
<1>3. bucket_idx \in Nat /\ Options[o].bucket_size \in Nat /\ Len(all) \in Nat
  <2>1. all \in Seq(Iterator(o)!Item)
    BY <1>2, MoreResults
  <2>2. QED  BY <2>1, BaseFacts
<1>4. CASE Options[o].task = "predict"
  <2>1. prev_idx = bucket_idx
    BY <1>1, <1>2, <1>4 DEF FlushInv
  <2>2. CASE Len(all) >= Options[o].bucket_size
    <3>1. /\ prev_idx' = bucket_idx + 1 /\ bucket_predictions' = <<>>
          /\ output' = output \o Iterator(o)!InOrder(all)
      BY <1>1, <1>3, <1>4, <2>1, <2>2 DEF Iterator!Predict
    <3>2. QED  BY <1>2, <1>4, <2>1, <2>2, <3>1, PredictFlush
  <2>3. CASE ~ (Len(all) >= Options[o].bucket_size)
    <3>1. prev_idx' = prev_idx /\ bucket_predictions' = all /\ output' = output
      BY <1>1, <1>4, <2>1, <2>3 DEF Iterator!Predict
    <3>2. Len(bucket_predictions') < Options[o].bucket_size
      BY <1>3, <2>3, <3>1
    <3>3. QED  BY <1>2, <2>1, <3>1, <3>2, WaitAlign
  <2>4. QED  BY <2>2, <2>3
<1>5. CASE Options[o].task = "score"
  <2>1. CASE prev_idx = bucket_idx
    <3>1. prev_idx' = prev_idx /\ bucket_predictions' = all /\ output' = output
      BY <1>1, <1>5, <2>1 DEF Iterator!Score
    <3>2. QED  BY <1>2, <1>5, <2>1, <3>1, WaitAlign
  <2>2. CASE prev_idx # bucket_idx
    <3>1. /\ prev_idx' = prev_idx + 1 /\ bucket_predictions' = batches[k]
          /\ output' = output \o Iterator(o)!InOrder(bucket_predictions)
      BY <1>1, <1>5, <2>2 DEF Iterator!Score
    <3>2. QED  BY <1>2, <1>5, <2>2, <3>1, ScoreFlush
  <2>3. QED  BY <2>1, <2>2
<1>6. QED  BY <1>2, <1>4, <1>5, OptionFacts

(* Every step of the iterator and of its consumer keeps the invariant.     *)
LEMMA ItemStep ==
  ASSUME NEW o, Iterator(o)!BatchingAssumption, IteratorInv(o), NEW x,
         \/ Iterator(o)!SkipDuplicate(x) \/ Iterator(o)!AddToBatch(x)
         \/ Iterator(o)!CompleteBatch(x) \/ Iterator(o)!OverflowBatch(x)
  PROVE  IteratorInv(o)'
<1> USE DEF IteratorInv
<1>1. CASE Iterator(o)!SkipDuplicate(x)
  <2>1. /\ Iterator(o)!TypeOK' /\ PhaseInv' /\ Iterator(o)!Taking(x)
        /\ UNCHANGED <<minibatch, seen, batches>> /\ Options[o].task = "train"
    BY <1>1, SkipTyped
  <2>2. UNCHANGED <<stream, consumed>>
    BY <2>1, TakingFacts
  <2>3. FitInv(o)' /\ TextInv(o)'
    BY <2>1, <2>2, SameFit, SameTexts
  <2>4. AlignInv(o)'
    BY <2>1 DEF AlignInv, AlignCounts
  <2>5. QED  BY <1>1, <2>1, <2>3, <2>4, SkipSets
<1>2. CASE Iterator(o)!AddToBatch(x)
  BY <1>2, AddFacts, AddSets, AddFit, AddTexts, AddAlign
<1>3. CASE Iterator(o)!CompleteBatch(x)
  BY <1>3, CompleteFacts, CompleteSets, CompleteFit, CompleteTexts, CompleteAlign
<1>4. CASE Iterator(o)!OverflowBatch(x)
  BY <1>4, OverflowTyped, OverflowSets, OverflowFit, OverflowTexts, OverflowAlign
<1>5. QED  BY <1>1, <1>2, <1>3, <1>4

LEMMA IteratorStep ==
  ASSUME NEW o, Iterator(o)!BatchingAssumption, IteratorInv(o), Iterator(o)!Next
  PROVE  IteratorInv(o)'
<1>1. CASE Iterator(o)!Collect
  <2>1. UNCHANGED <<stream, data, minibatch, seen, batches, consumed>>
    BY <1>1 DEF Iterator!Collect, Iterator!cutting
  <2>2. Iterator(o)!TypeOK' /\ PhaseInv' /\ Left' = Left
    BY <1>1, CollectTyped DEF IteratorInv
  <2>3. ApartInv' /\ LostInv(o)' /\ FitInv(o)' /\ TextInv(o)'
    BY <2>1, <2>2, SameSets, SameFit, SameTexts DEF IteratorInv
  <2>4. AlignInv(o)'
    BY <1>1, CollectAlign DEF IteratorInv
  <2>5. QED  BY <2>2, <2>3, <2>4 DEF IteratorInv
<1>2. CASE Iterator(o)!FillBucket
  <2>1. UNCHANGED <<stream, minibatch, seen, batches, consumed>>
    BY <1>2 DEF Iterator!FillBucket
  <2>2. FitInv(o)' /\ TextInv(o)'
    BY <2>1, SameFit, SameTexts DEF IteratorInv
  <2>3. Iterator(o)!TypeOK' /\ PhaseInv' /\ ApartInv' /\ LostInv(o)' /\ AlignInv(o)'
    BY <1>2, FillTyped, FillSets, FillAlign DEF IteratorInv
  <2>4. QED  BY <2>2, <2>3 DEF IteratorInv
<1>3. ASSUME NEW x \in Iterator(o)!Range(data),
             \/ Iterator(o)!SkipDuplicate(x) \/ Iterator(o)!AddToBatch(x)
             \/ Iterator(o)!CompleteBatch(x) \/ Iterator(o)!OverflowBatch(x)
      PROVE  IteratorInv(o)'
  BY <1>3, ItemStep
<1>4. CASE Iterator(o)!LastBatch
  BY <1>4, LastTyped, LastSets, LastFit, LastTexts, LastAlign DEF IteratorInv
<1>5. ASSUME NEW k \in DOMAIN batches, Iterator(o)!Consume(k)
      PROVE  IteratorInv(o)'
  BY <1>5, ConsumeTyped, ConsumeSets, ConsumeFit, ConsumeTexts, ConsumeAlign
     DEF IteratorInv
<1>6. CASE Iterator(o)!NextBucket
  <2>1. UNCHANGED <<stream, data, minibatch, seen, batches, consumed>>
    BY <1>6 DEF Iterator!NextBucket, Iterator!cutting
  <2>2. Iterator(o)!TypeOK' /\ PhaseInv' /\ Left' = Left
    BY <1>6, NextTyped DEF IteratorInv
  <2>3. ApartInv' /\ LostInv(o)' /\ FitInv(o)' /\ TextInv(o)'
    BY <2>1, <2>2, SameSets, SameFit, SameTexts DEF IteratorInv
  <2>4. AlignInv(o)'
    BY <1>6, NextAlign DEF IteratorInv
  <2>5. QED  BY <2>2, <2>3, <2>4 DEF IteratorInv
<1>7. CASE Iterator(o)!Finish
  <2>1. UNCHANGED <<stream, data, minibatch, seen, batches, consumed>>
    BY <1>7 DEF Iterator!Finish, Iterator!cutting, Iterator!source
  <2>2. Iterator(o)!TypeOK' /\ PhaseInv' /\ Left' = Left
    BY <1>7, FinishTyped DEF IteratorInv
  <2>3. ApartInv' /\ LostInv(o)' /\ FitInv(o)' /\ TextInv(o)'
    BY <2>1, <2>2, SameSets, SameFit, SameTexts DEF IteratorInv
  <2>4. AlignInv(o)'
    BY <1>7, FinishAlign DEF IteratorInv
  <2>5. QED  BY <2>2, <2>3, <2>4 DEF IteratorInv
<1>8. QED  BY <1>1, <1>2, <1>3, <1>4, <1>5, <1>6, <1>7 DEF Iterator!Next

LEMMA IteratorRests ==
  ASSUME NEW o, IteratorInv(o), UNCHANGED batching
  PROVE  IteratorInv(o)'
<1>1. UNCHANGED <<stream, phase, taken, current_bucket_size, bucket, bucket_idx, data,
                  minibatch, seen, batches, consumed, prev_idx, bucket_predictions,
                  output>>
  BY DEF batching
<1>2. Left' = Left /\ Base' = Base /\ Rest' = Rest
  BY <1>1 DEF Left, Base, Rest
<1>3. Iterator(o)!TypeOK' /\ PhaseInv'
  BY <1>1, <1>2, SameItem DEF IteratorInv, Iterator!TypeOK, PhaseInv
<1>4. ApartInv' /\ LostInv(o)' /\ FitInv(o)' /\ TextInv(o)'
  BY <1>1, <1>2, SameSets, SameFit, SameTexts DEF IteratorInv
<1>5. AlignInv(o)'
  BY <1>1, <1>2, SameCounts DEF IteratorInv, AlignInv, PlacesInv, CoverInv, FlushInv
<1>6. QED  BY <1>3, <1>4, <1>5 DEF IteratorInv

(* IteratorsInv is an invariant, whatever options the iterators have and   *)
(* whatever streams they read.                                             *)
THEOREM IteratorsInvariant ==
  PipelineSpec => []IteratorsInv
<1> USE OptionsAssumption
<1>1. PipelineInit => IteratorsInv
  <2>1. ASSUME NEW o \in DOMAIN Options, BatchingInit(o) PROVE IteratorsInv
    BY <2>1, InitIterator DEF BatchingInit, IteratorsInv
  <2>2. ShardingInit => IteratorsInv
    BY DEF ShardingInit, IteratorsInv
  <2>3. QED  BY <2>1, <2>2 DEF PipelineInit
<1>2. IteratorsInv /\ [PipelineNext]_<<part, options, vars, batching>> => IteratorsInv'
  <2> SUFFICES ASSUME IteratorsInv, [PipelineNext]_<<part, options, vars, batching>>
               PROVE  IteratorsInv'
    OBVIOUS
  <2>1. CASE ShardingNext
    BY <2>1 DEF ShardingNext, IteratorsInv
  <2>2. ASSUME NEW o \in DOMAIN Options, BatchingNext(o) PROVE IteratorsInv'
    <3>1. part = "batching" /\ options = o /\ options' = options /\ Iterator(o)!Next
      BY <2>2 DEF BatchingNext
    <3>2. IteratorInv(o)
      BY <3>1 DEF IteratorsInv
    <3>3. IteratorInv(o)'
      BY <3>1, <3>2, IteratorStep
    <3>4. QED  BY <3>1, <3>3 DEF IteratorsInv
  <2>3. CASE UNCHANGED <<part, options, vars, batching>>
    BY <2>3, IteratorRests DEF IteratorsInv
  <2>4. QED  BY <2>1, <2>2, <2>3 DEF PipelineNext
<1>3. QED  BY <1>1, <1>2, PTL DEF PipelineSpec

(* The batches that are consumed and those that wait, in one list.         *)
LEMMA EitherPart ==
  ASSUME NEW T, NEW f \in Seq(T), NEW g \in Seq(T), NEW k \in DOMAIN (f \o g)
  PROVE  \/ \E i \in DOMAIN f : (f \o g)[k] = f[i]
         \/ \E j \in DOMAIN g : (f \o g)[k] = g[j]
<1>1. /\ Len(f) \in Nat /\ Len(g) \in Nat /\ DOMAIN f = 1 .. Len(f) /\ DOMAIN g = 1 .. Len(g)
      /\ k \in 1 .. Len(f) + Len(g)
  OBVIOUS
<1>2. CASE k \in 1 .. Len(f)
  BY <1>1, <1>2, ConcatFacts
<1>3. CASE k \notin 1 .. Len(f)
  <2>1. k \in Len(f) + 1 .. Len(f) + Len(g) /\ k - Len(f) \in DOMAIN g
    BY <1>1, <1>3
  <2>2. (f \o g)[k] = g[k - Len(f)]
    BY <2>1, ConcatFacts
  <2>3. QED  BY <2>1, <2>2
<1>4. QED  BY <1>2, <1>3

LEMMA BatchFacts ==
  ASSUME NEW o, Iterator(o)!BatchingAssumption, Iterator(o)!TypeOK,
         NEW k \in DOMAIN (consumed \o batches)
  PROVE  /\ (consumed \o batches)[k] \in Seq(Iterator(o)!Item)
         /\ \/ \E i \in DOMAIN consumed : (consumed \o batches)[k] = consumed[i]
            \/ \E i \in DOMAIN batches : (consumed \o batches)[k] = batches[i]
<1> DEFINE U == Iterator(o)!Item
<1>1. consumed \in Seq(Seq(U)) /\ batches \in Seq(Seq(U))
  BY StateFacts
<1> HIDE DEF U
<1>2. consumed \o batches \in Seq(Seq(U))
  BY <1>1
<1>3. (consumed \o batches)[k] \in Seq(U)
  BY <1>2
<1>4. QED  BY <1>1, <1>3, EitherPart DEF U

LEMMA FitsAll ==
  ASSUME NEW o, Iterator(o)!BatchingAssumption, IteratorInv(o)
  PROVE  Iterator(o)!BatchesFit
<1> SUFFICES ASSUME NEW k \in DOMAIN (consumed \o batches),
                    Iterator(o)!Cost((consumed \o batches)[k]) > Options[o].batch_size
             PROVE  Len((consumed \o batches)[k]) <= Options[o].batch_size_multiple
  BY DEF Iterator!BatchesFit
<1> DEFINE b == (consumed \o batches)[k]
<1>1. /\ b \in Seq(Iterator(o)!Item)
      /\ \/ \E i \in DOMAIN consumed : b = consumed[i]
         \/ \E i \in DOMAIN batches : b = batches[i]
  BY BatchFacts DEF IteratorInv
<1>2. Iterator(o)!Cost(b) > Options[o].batch_size
  OBVIOUS
<1> HIDE DEF b
<1>3. Fits(o, b)
  BY <1>1 DEF IteratorInv, FitInv
<1>4. Options[o].batch_size \in Nat /\ Options[o].batch_size_multiple \in Nat
  BY OptionFacts
<1>5. CASE b = <<>>
  BY <1>4, <1>5 DEF b
<1>6. CASE b # <<>>
  <2>1. Iterator(o)!Cost(b) \in Nat
    BY <1>1, <1>6, CostTyped DEF IteratorInv
  <2>2. Len(b) <= Options[o].batch_size_multiple
    BY <1>2, <1>3, <1>4, <2>1 DEF Fits
  <2>3. QED  BY <2>2 DEF b
<1>7. QED  BY <1>5, <1>6

LEMMA NoTextsTwice ==
  ASSUME NEW o, Iterator(o)!BatchingAssumption, IteratorInv(o)
  PROVE  Iterator(o)!NoDuplicatesInBatch
<1> SUFFICES ASSUME TextsCount(o), NEW k \in DOMAIN (consumed \o batches)
             PROVE  NoTextTwice((consumed \o batches)[k])
  BY DEF Iterator!NoDuplicatesInBatch, TextsCount, NoTextTwice, Iterator!Text
<1>1. \/ \E i \in DOMAIN consumed : (consumed \o batches)[k] = consumed[i]
      \/ \E i \in DOMAIN batches : (consumed \o batches)[k] = batches[i]
  BY BatchFacts DEF IteratorInv
<1>2. QED  BY <1>1 DEF IteratorInv, TextInv, TextsCount

LEMMA OutputAligned ==
  ASSUME NEW o, IteratorInv(o)
  PROVE  Iterator(o)!OutputIsAligned
<1> SUFFICES ASSUME AlignCounts(o)
             PROVE  /\ \A n \in DOMAIN output : output[n] = n
                    /\ phase = "done" => Len(output) = Len(stream)
                    /\ phase # "failed"
  BY DEF Iterator!OutputIsAligned, AlignCounts
<1>1. PlacesInv /\ FlushInv(o)
  BY DEF IteratorInv, AlignInv
<1>2. QED  BY <1>1 DEF PlacesInv, FlushInv

(* All the lists of items that there are.                                  *)
LEMMA FlightFacts ==
  ASSUME NEW o, Iterator(o)!BatchingAssumption, IteratorInv(o)
  PROVE  /\ Iterator(o)!InFlight \in Seq(Seq(Iterator(o)!Item))
         /\ AllApart(Iterator(o)!InFlight) /\ Exs(Iterator(o)!InFlight) = Held
<1> DEFINE U == Iterator(o)!Item
           two == <<minibatch, data>>
           f == consumed \o batches
<1>1. /\ consumed \in Seq(Seq(U)) /\ batches \in Seq(Seq(U))
      /\ minibatch \in Seq(U) /\ data \in Seq(U)
  BY StateFacts DEF IteratorInv
<1>2. /\ Apart(data) /\ Apart(minibatch) /\ AllApart(batches) /\ AllApart(consumed)
      /\ Ex(data) \cap Ex(minibatch) = {}
      /\ (Ex(data) \cup Ex(minibatch)) \cap Exs(batches) = {}
      /\ (Ex(data) \cup Ex(minibatch) \cup Exs(batches)) \cap Exs(consumed) = {}
  BY DEF IteratorInv, ApartInv
<1>3. Iterator(o)!InFlight = f \o two
  BY DEF Iterator!InFlight
<1> HIDE DEF U
<1>4. /\ two \in Seq(Seq(U)) /\ DOMAIN two = {1, 2}
      /\ two[1] = minibatch /\ two[2] = data
  BY <1>1
<1> HIDE DEF two
<1>5. Exs(two) = Ex(minibatch) \cup Ex(data)
  <2>1. Ex(two[1]) \subseteq Exs(two) /\ Ex(two[2]) \subseteq Exs(two)
    BY <1>4, ExsHas
  <2>2. \A k \in DOMAIN two : Ex(two[k]) \subseteq Ex(minibatch) \cup Ex(data)
    BY <1>4
  <2>3. Exs(two) \subseteq Ex(minibatch) \cup Ex(data)
    BY <2>2, ExsWithin
  <2>4. QED  BY <1>4, <2>1, <2>3
<1>6. AllApart(two)
  <2>1. \A k \in DOMAIN two : Apart(two[k])
    BY <1>2, <1>4
  <2>2. ASSUME NEW k \in DOMAIN two, NEW l \in DOMAIN two, k # l
        PROVE  Ex(two[k]) \cap Ex(two[l]) = {}
    BY <1>2, <1>4, <2>2
  <2>3. QED  BY <2>1, <2>2 DEF AllApart
<1>7. f \in Seq(Seq(U)) /\ Exs(f) = Exs(consumed) \cup Exs(batches) /\ AllApart(f)
  <2>1. Exs(consumed) \cap Exs(batches) = {}
    BY <1>2
  <2>2. QED  BY <1>1, <1>2, <2>1, ConcatExs
<1> HIDE DEF f
<1>8. /\ f \o two \in Seq(Seq(U)) /\ Exs(f \o two) = Exs(f) \cup Exs(two)
      /\ AllApart(f \o two)
  <2>1. Exs(f) \cap Exs(two) = {}
    BY <1>2, <1>5, <1>7
  <2>2. QED  BY <1>4, <1>6, <1>7, <2>1, ConcatExs
<1>9. Exs(f \o two) = Held
  BY <1>5, <1>7, <1>8 DEF Held
<1>10. QED  BY <1>3, <1>8, <1>9 DEF U

LEMMA OneOccurrence ==
  ASSUME NEW o, Iterator(o)!BatchingAssumption, IteratorInv(o), NEW n
  PROVE  /\ Cardinality(Iterator(o)!Occurrences(n)) <= 1
         /\ Iterator(o)!Occurrences(n) = {} <=> n \notin Held
<1> DEFINE I == Iterator(o)!InFlight
           O == Iterator(o)!Occurrences(n)
<1>1. AllApart(I) /\ Exs(I) = Held
  BY FlightFacts
<1>2. O = {p \in UNION {{k} \X DOMAIN I[k] : k \in DOMAIN I} : I[p[1]][p[2]].example = n}
  BY DEF Iterator!Occurrences
<1> HIDE DEF I, O
<1>3. ASSUME NEW p \in O
      PROVE  /\ p = <<p[1], p[2]>> /\ p[1] \in DOMAIN I /\ p[2] \in DOMAIN I[p[1]]
             /\ I[p[1]][p[2]].example = n /\ n \in Ex(I[p[1]])
  <2>1. PICK k \in DOMAIN I : p \in {k} \X DOMAIN I[k]
    BY <1>2
  <2>2. p = <<p[1], p[2]>> /\ p[1] = k /\ p[2] \in DOMAIN I[k]
    BY <2>1
  <2>3. I[p[1]][p[2]].example = n
    BY <1>2
  <2>4. QED  BY <2>2, <2>3 DEF Ex
<1>4. ASSUME NEW p \in O, NEW q \in O PROVE p = q
  <2>1. /\ p = <<p[1], p[2]>> /\ p[1] \in DOMAIN I /\ p[2] \in DOMAIN I[p[1]]
        /\ I[p[1]][p[2]].example = n /\ n \in Ex(I[p[1]])
    BY <1>3
  <2>2. /\ q = <<q[1], q[2]>> /\ q[1] \in DOMAIN I /\ q[2] \in DOMAIN I[q[1]]
        /\ I[q[1]][q[2]].example = n /\ n \in Ex(I[q[1]])
    BY <1>3
  <2>3. p[1] = q[1]
    BY <1>1, <2>1, <2>2 DEF AllApart
  <2>4. p[2] = q[2]
    BY <1>1, <2>1, <2>2, <2>3 DEF AllApart, Apart
  <2>5. QED  BY <2>1, <2>2, <2>3, <2>4
<1>5. Cardinality(O) <= 1
  <2>1. CASE O = {}
    <3>1. Cardinality(O) = 0
      BY <2>1, FS_EmptySet
    <3>2. QED  BY <3>1
  <2>2. CASE O # {}
    <3>1. PICK p \in O : TRUE
      BY <2>2
    <3>2. O = {p}
      BY <1>4, <3>1
    <3>3. Cardinality(O) = 1
      BY <3>2, FS_Singleton
    <3>4. QED  BY <3>3
  <2>3. QED  BY <2>1, <2>2
<1>6. ASSUME n \in Held PROVE O # {}
  <2>1. PICK k \in DOMAIN I : n \in Ex(I[k])
    BY <1>1, <1>6 DEF Exs
  <2>2. PICK i \in DOMAIN I[k] : I[k][i].example = n
    BY <2>1 DEF Ex
  <2>3. <<k, i>> \in {k} \X DOMAIN I[k]
    OBVIOUS
  <2>4. <<k, i>> \in UNION {{j} \X DOMAIN I[j] : j \in DOMAIN I}
    BY <2>3
  <2>5. <<k, i>> \in O
    BY <1>2, <2>2, <2>4
  <2>6. QED  BY <2>5
<1>7. ASSUME O # {} PROVE n \in Held
  <2>1. PICK p \in O : TRUE
    BY <1>7
  <2>2. p[1] \in DOMAIN I /\ n \in Ex(I[p[1]])
    BY <1>3
  <2>3. QED  BY <1>1, <2>2 DEF Exs
<1>8. QED  BY <1>5, <1>6, <1>7 DEF O

LEMMA NothingLost ==
  ASSUME NEW o, Iterator(o)!BatchingAssumption, IteratorInv(o)
  PROVE  Iterator(o)!NothingLostOrRepeated
<1> SUFFICES ASSUME NEW n \in 1 .. (taken - Len(bucket))
             PROVE  /\ Iterator(o)!Cardinality(Iterator(o)!Occurrences(n)) <= 1
                    /\ Iterator(o)!Occurrences(n) = {} =>
                         \/ stream[n].len = 0
                         \/ Options[o].task = "train"
                              /\ \E m \in (1 .. taken) \ {n} :
                                    /\ stream[m].text = stream[n].text
                                    /\ Iterator(o)!Occurrences(m) # {}
  BY DEF Iterator!NothingLostOrRepeated
<1>1. n \in 1 .. Left
  BY DEF Left
<1>2. Cardinality(Iterator(o)!Occurrences(n)) <= 1
  BY OneOccurrence
<1>3. Iterator(o)!Cardinality(Iterator(o)!Occurrences(n))
        = Cardinality(Iterator(o)!Occurrences(n))
  BY DEF Iterator!Cardinality, Cardinality
<1>4. ASSUME Iterator(o)!Occurrences(n) = {}, stream[n].len # 0
      PROVE  /\ Options[o].task = "train"
             /\ \E m \in (1 .. taken) \ {n} :
                   /\ stream[m].text = stream[n].text
                   /\ Iterator(o)!Occurrences(m) # {}
  <2>1. n \notin Held
    BY <1>4, OneOccurrence
  <2>2. LeftOut(o, n)
    BY <1>1, <2>1 DEF IteratorInv, LostInv
  <2>3. PICK m \in Held : stream[n].text = stream[m].text
    BY <1>4, <2>2 DEF LeftOut, SameText
  <2>4. Options[o].task = "train"
    BY <1>4, <2>2 DEF LeftOut
  <2>5. m \in 1 .. taken
    <3>1. m \in 1 .. Left
      BY DEF IteratorInv, ApartInv
    <3>2. Left \in Nat /\ taken \in Nat /\ Left <= taken
      BY LeftFacts, StateFacts DEF IteratorInv
    <3>3. QED  BY <3>1, <3>2
  <2>6. m # n
    BY <2>1
  <2>7. Iterator(o)!Occurrences(m) # {}
    BY OneOccurrence
  <2>8. QED  BY <2>3, <2>4, <2>5, <2>6, <2>7
<1>5. QED  BY <1>2, <1>3, <1>4

(* In every state of every iterator an example that was taken is in one    *)
(* batch and only one, or was left out for a reason; no batch is larger    *)
(* than it may be and none trains a text twice (batch_iter).               *)
THEOREM BatchesAreRight ==
  PipelineSpec => []EveryExampleInOneBatch
<1>1. IteratorsInv => EveryExampleInOneBatch
  <2> SUFFICES ASSUME IteratorsInv, part = "batching", NEW o \in DOMAIN Options, options = o
               PROVE  /\ Iterator(o)!TypeOK /\ Iterator(o)!NothingLostOrRepeated
                      /\ Iterator(o)!BatchesFit /\ Iterator(o)!NoDuplicatesInBatch
    BY DEF EveryExampleInOneBatch, OfBatching
  <2>1. IteratorInv(o)
    BY DEF IteratorsInv
  <2>2. Iterator(o)!BatchingAssumption
    BY OptionsAssumption
  <2>3. QED  BY <2>1, <2>2, NothingLost, FitsAll, NoTextsTwice DEF IteratorInv
<1>2. QED  BY <1>1, IteratorsInvariant, PTL

(* Output n of _predict and of _score is the result of input n, however    *)
(* the bucket was sorted and cut, and in the end there is one for each.    *)
THEOREM OutputsAreInOrder ==
  PipelineSpec => []OutputIsAligned
<1>1. IteratorsInv => OutputIsAligned
  <2> SUFFICES ASSUME IteratorsInv, part = "batching", NEW o \in DOMAIN Options, options = o
               PROVE  Iterator(o)!OutputIsAligned
    BY DEF OutputIsAligned, OfBatching
  <2>1. IteratorInv(o)
    BY DEF IteratorsInv
  <2>2. QED  BY <2>1, OutputAligned
<1>2. QED  BY <1>1, IteratorsInvariant, PTL
==============================================================================
