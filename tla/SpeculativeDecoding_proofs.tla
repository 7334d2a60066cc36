---------------------- MODULE SpeculativeDecoding_proofs ----------------------
(***************************************************************************)
(* Proofs about SpeculativeDecoding for every vocabulary, model, prompt,   *)
(* length limit, number of drafts and kind of cache: the inductive         *)
(* invariant, the safety properties that follow from it, and that          *)
(* speculative decoding implements GreedyDecoding.                         *)
(***************************************************************************)
EXTENDS SpeculativeDecoding, TLAPS

------------------------------------------------------------------------------
(* Facts about sequences.                                                  *)

(* Two texts that agree on their first n tokens have the same prefix, so   *)
(* the model predicts the same from both.                                  *)
LEMMA PrefixEqual ==
  ASSUME NEW S, NEW R, NEW s \in Seq(S), NEW t \in Seq(R), NEW n \in Nat,
         n <= Len(s), n <= Len(t), \A i \in 1 .. n : s[i] = t[i]
  PROVE  SubSeq(s, 1, n) = SubSeq(t, 1, n)
OBVIOUS

(* What a prefix is.                                                       *)
LEMMA PrefixFacts ==
  ASSUME NEW S, NEW s \in Seq(S), NEW n \in Nat, n <= Len(s)
  PROVE  /\ SubSeq(s, 1, n) \in Seq(S)
         /\ Len(SubSeq(s, 1, n)) = n
         /\ \A i \in 1 .. n : SubSeq(s, 1, n)[i] = s[i]
OBVIOUS

(* What a concatenation is.                                                *)
LEMMA ConcatFacts ==
  ASSUME NEW S, NEW s \in Seq(S), NEW t \in Seq(S)
  PROVE  /\ s \o t \in Seq(S)
         /\ Len(s \o t) = Len(s) + Len(t)
         /\ \A i \in 1 .. Len(s) : (s \o t)[i] = s[i]
         /\ \A i \in 1 .. Len(t) : (s \o t)[Len(s) + i] = t[i]
OBVIOUS

(* A sequence is determined by its length and its elements.                *)
LEMMA SameSequence ==
  ASSUME NEW S, NEW R, NEW s \in Seq(S), NEW t \in Seq(R),
         Len(s) = Len(t), \A i \in 1 .. Len(s) : s[i] = t[i]
  PROVE  s = t
OBVIOUS

(* Appending one token is concatenating a block of one.                    *)
LEMMA AppendIsBlock ==
  ASSUME NEW S, NEW s \in Seq(S), NEW e \in S
  PROVE  /\ Append(s, e) = s \o <<e>>
         /\ <<e>> \in Seq(S) /\ Len(<<e>>) = 1 /\ <<e>>[1] = e
         /\ SubSeq(<<e>>, 1, 1) = <<e>>
<1>1. Append(s, e) = s \o <<e>>
  OBVIOUS
<1>2. <<e>> \in Seq(S) /\ Len(<<e>>) = 1 /\ <<e>>[1] = e
  OBVIOUS
<1>3. SubSeq(<<e>>, 1, 1) = <<e>>
  <2>1. \A u \in Seq(S) : SubSeq(u, 1, Len(u)) = u
    OBVIOUS
  <2> QED BY <1>2, <2>1
<1> QED BY <1>1, <1>2, <1>3

(* A tail of a concatenation that begins inside its first part.            *)
LEMMA TailOfConcat ==
  ASSUME NEW S, NEW s \in Seq(S), NEW t \in Seq(S), NEW p \in Nat, p <= Len(s)
  PROVE  /\ SubSeq(s \o t, p + 1, Len(s \o t)) = SubSeq(s, p + 1, Len(s)) \o t
         /\ SubSeq(s \o t, 1, Len(s)) = s
<1>1. SubSeq(s \o t, p + 1, Len(s \o t)) = SubSeq(s, p + 1, Len(s)) \o t
  <2> DEFINE a == SubSeq(s \o t, p + 1, Len(s \o t))
             h == SubSeq(s, p + 1, Len(s))
  <2>1. a \in Seq(S) /\ Len(a) = Len(s) - p + Len(t)
        /\ \A i \in 1 .. Len(a) : a[i] = (s \o t)[p + i]
    BY ConcatFacts
  <2>2. h \in Seq(S) /\ Len(h) = Len(s) - p /\ \A i \in 1 .. Len(h) : h[i] = s[p + i]
    OBVIOUS
  <2>3. h \o t \in Seq(S) /\ Len(h \o t) = Len(a)
    BY <2>1, <2>2
  <2>4. \A i \in 1 .. Len(a) : a[i] = (h \o t)[i]
    BY <2>1, <2>2
  <2> HIDE DEF a, h
  <2>5. a = h \o t
    BY <2>1, <2>3, <2>4, SameSequence
  <2> QED BY <2>5 DEF a, h
<1>2. SubSeq(s \o t, 1, Len(s)) = s
  OBVIOUS
<1> QED BY <1>1, <1>2

------------------------------------------------------------------------------
(* Facts about the caches.                                                 *)

(* _extend_cache keeps what the cells hold, and when it is asked for       *)
(* threshold tokens of room and adds at least as many there is room.       *)
LEMMA ExtendedFacts ==
  ASSUME NEW cells \in Cells, NEW used \in Nat, used <= Len(cells),
         NEW threshold \in Nat, NEW addzeros \in Nat
  PROVE  LET e == Extended(cells, used, threshold, addzeros) IN
         /\ e \in Cells
         /\ Len(e) >= Len(cells)
         /\ \A j \in 1 .. Len(cells) : e[j] = cells[j]
         /\ ~Dynamic => e = cells
         /\ Dynamic /\ addzeros >= threshold => Len(e) - used >= threshold
<1> DEFINE z == [i \in 1 .. addzeros |-> Blank]
<1>1. z \in Seq(Tokens \cup {Blank}) /\ Len(z) = addzeros
  OBVIOUS
<1>2. /\ cells \o z \in Cells
      /\ Len(cells \o z) = Len(cells) + addzeros
      /\ \A j \in 1 .. Len(cells) : (cells \o z)[j] = cells[j]
  BY <1>1, ConcatFacts DEF Cells
<1> HIDE DEF z
<1>3. Extended(cells, used, threshold, addzeros) =
        IF Dynamic /\ Len(cells) - used < threshold THEN cells \o z ELSE cells
  BY DEF Extended, z
<1>4. Len(cells) \in Nat
  BY DEF Cells
<1> QED BY <1>2, <1>3, <1>4

(* A pass writes its chunk behind the used cells and nothing else.         *)
LEMMA WrittenFacts ==
  ASSUME NEW cells \in Cells, NEW used \in Nat, NEW chunk \in Seq(Tokens),
         used + Len(chunk) <= Len(cells)
  PROVE  LET w == Written(cells, used, chunk) IN
         /\ w \in Cells
         /\ Len(w) = Len(cells)
         /\ \A j \in 1 .. used : w[j] = cells[j]
         /\ \A j \in 1 .. Len(chunk) : w[used + j] = chunk[j]
BY DEF Written, Cells

(* After a pass over a chunk, when the cells in use hold pre, the cells up *)
(* to the i-th token of the chunk hold pre and the chunk up to there.      *)
LEMMA PassFacts ==
  ASSUME NEW cells \in Cells, NEW pre \in Seq(Tokens), NEW chunk \in Seq(Tokens),
         Len(pre) + Len(chunk) <= Len(cells),
         \A j \in 1 .. Len(pre) : cells[j] = pre[j]
  PROVE  LET w == Written(cells, Len(pre), chunk) IN
         /\ w \in Cells
         /\ Len(w) = Len(cells)
         /\ \A i \in 0 .. Len(chunk) : SubSeq(w, 1, Len(pre) + i) = pre \o SubSeq(chunk, 1, i)
<1> DEFINE w == Written(cells, Len(pre), chunk)
<1>1. Len(pre) \in Nat /\ Len(chunk) \in Nat
  OBVIOUS
<1>2. /\ w \in Cells /\ Len(w) = Len(cells)
      /\ \A j \in 1 .. Len(pre) : w[j] = cells[j]
      /\ \A j \in 1 .. Len(chunk) : w[Len(pre) + j] = chunk[j]
  BY <1>1, WrittenFacts
<1> HIDE DEF w
<1>3. ASSUME NEW i \in 0 .. Len(chunk)
      PROVE  SubSeq(w, 1, Len(pre) + i) = pre \o SubSeq(chunk, 1, i)
  <2> DEFINE c == SubSeq(chunk, 1, i)
             n == Len(pre) + i
  <2>1. c \in Seq(Tokens) /\ Len(c) = i /\ \A j \in 1 .. i : c[j] = chunk[j]
    BY <1>1, PrefixFacts
  <2>2. n \in Nat /\ n <= Len(w) /\ i \in Nat
    BY <1>1, <1>2 DEF Cells
  <2> HIDE DEF c, n
  <2>3. /\ pre \o c \in Seq(Tokens) /\ Len(pre \o c) = n
        /\ \A j \in 1 .. Len(pre) : (pre \o c)[j] = pre[j]
        /\ \A j \in 1 .. i : (pre \o c)[Len(pre) + j] = c[j]
    <3>1. /\ pre \o c \in Seq(Tokens) /\ Len(pre \o c) = Len(pre) + Len(c)
          /\ \A j \in 1 .. Len(pre) : (pre \o c)[j] = pre[j]
          /\ \A j \in 1 .. Len(c) : (pre \o c)[Len(pre) + j] = c[j]
      <4>1. c \in Seq(Tokens)
        BY <2>1
      <4> QED BY <4>1, ConcatFacts
    <3> QED BY <3>1, <2>1 DEF n
  <2>4. ASSUME NEW j \in 1 .. n PROVE w[j] = (pre \o c)[j]
    <3>1. CASE j <= Len(pre)
      BY <3>1, <1>1, <1>2, <2>2, <2>3
    <3>2. CASE j > Len(pre)
      <4> DEFINE k == j - Len(pre)
      <4>1. k \in 1 .. i /\ j = Len(pre) + k /\ k \in 1 .. Len(chunk)
        BY <3>2, <1>1 DEF n
      <4> HIDE DEF k
      <4> QED BY <4>1, <1>2, <2>1, <2>3
    <3>3. j <= Len(pre) \/ j > Len(pre)
      BY <1>1, <2>2
    <3> QED BY <3>1, <3>2, <3>3, Zenon
  <2>5. SubSeq(w, 1, n) = SubSeq(pre \o c, 1, n)
    BY <1>2, <2>2, <2>3, <2>4, PrefixEqual DEF Cells
  <2>6. SubSeq(pre \o c, 1, n) = pre \o c
    BY <2>3
  <2> QED BY <2>5, <2>6 DEF c, n
<1> QED BY <1>2, <1>3 DEF w

(* The text but its last token, followed by a chunk that starts with that  *)
(* token, is the text followed by the rest of the chunk.                   *)
LEMMA SeedFacts ==
  ASSUME NEW t \in Seq(Tokens), Len(t) >= 1, NEW d \in Seq(Tokens)
  PROVE  LET pre == SubSeq(t, 1, Len(t) - 1)
             chunk == <<t[Len(t)]>> \o d IN
         /\ pre \in Seq(Tokens) /\ Len(pre) = Len(t) - 1
         /\ chunk \in Seq(Tokens) /\ Len(chunk) = Len(d) + 1
         /\ \A i \in 1 .. Len(d) + 1 :
              pre \o SubSeq(chunk, 1, i) = SubSeq(t \o d, 1, Len(t) + i - 1)
<1> DEFINE pre == SubSeq(t, 1, Len(t) - 1)
           seed == <<t[Len(t)]>>
           chunk == seed \o d
           u == t \o d
<1>1. /\ pre \in Seq(Tokens) /\ Len(pre) = Len(t) - 1
      /\ \A j \in 1 .. Len(t) - 1 : pre[j] = t[j]
  <2>1. Len(t) - 1 \in Nat /\ Len(t) - 1 <= Len(t)
    OBVIOUS
  <2> QED BY <2>1, PrefixFacts
<1>2. seed \in Seq(Tokens) /\ Len(seed) = 1 /\ seed[1] = t[Len(t)]
  OBVIOUS
<1> HIDE DEF seed
<1>3. /\ chunk \in Seq(Tokens) /\ Len(chunk) = Len(d) + 1
      /\ chunk[1] = t[Len(t)]
      /\ \A j \in 1 .. Len(d) : chunk[1 + j] = d[j]
  BY <1>2, ConcatFacts
<1>4. /\ u \in Seq(Tokens) /\ Len(u) = Len(t) + Len(d)
      /\ \A j \in 1 .. Len(t) : u[j] = t[j]
      /\ \A j \in 1 .. Len(d) : u[Len(t) + j] = d[j]
  BY ConcatFacts
<1>5. Len(t) \in Nat /\ Len(d) \in Nat
  OBVIOUS
<1> HIDE DEF pre, chunk, u
<1>6. ASSUME NEW i \in 1 .. Len(d) + 1
      PROVE  pre \o SubSeq(chunk, 1, i) = SubSeq(u, 1, Len(t) + i - 1)
  <2> DEFINE c == SubSeq(chunk, 1, i)
             n == Len(t) + i - 1
  <2>1. c \in Seq(Tokens) /\ Len(c) = i /\ \A j \in 1 .. i : c[j] = chunk[j]
    BY <1>3, <1>5, PrefixFacts
  <2>2. n \in Nat /\ n <= Len(u) /\ n = Len(pre) + i
    BY <1>1, <1>4, <1>5
  <2> HIDE DEF c, n
  <2>3. /\ pre \o c \in Seq(Tokens) /\ Len(pre \o c) = n
        /\ \A j \in 1 .. Len(pre) : (pre \o c)[j] = pre[j]
        /\ \A j \in 1 .. i : (pre \o c)[Len(pre) + j] = c[j]
    <3>1. /\ pre \o c \in Seq(Tokens) /\ Len(pre \o c) = Len(pre) + Len(c)
          /\ \A j \in 1 .. Len(pre) : (pre \o c)[j] = pre[j]
          /\ \A j \in 1 .. Len(c) : (pre \o c)[Len(pre) + j] = c[j]
      <4>1. pre \in Seq(Tokens) /\ c \in Seq(Tokens)
        BY <1>1, <2>1
      <4> QED BY <4>1, ConcatFacts
    <3> QED BY <3>1, <2>1, <2>2
  <2>4. ASSUME NEW j \in 1 .. n PROVE (pre \o c)[j] = u[j]
    <3>1. CASE j < Len(t)
      <4>1. j \in 1 .. Len(t) - 1 /\ j \in 1 .. Len(pre) /\ j \in 1 .. Len(t)
        BY <3>1, <1>1, <1>5, <2>2
      <4> QED BY <4>1, <1>1, <1>4, <2>3
    <3>2. CASE j = Len(t)
      <4>1. j = Len(pre) + 1 /\ 1 \in 1 .. i /\ j \in 1 .. Len(t)
        BY <3>2, <1>1, <1>5 DEF n
      <4> QED BY <4>1, <3>2, <1>3, <1>4, <2>1, <2>3
    <3>3. CASE j > Len(t)
      <4> DEFINE k == j - Len(t)
      <4>1. /\ k \in 1 .. Len(d) /\ j = Len(t) + k
            /\ j = Len(pre) + (1 + k) /\ 1 + k \in 1 .. i
        BY <3>3, <1>1, <1>5 DEF n
      <4> HIDE DEF k
      <4> QED BY <4>1, <1>3, <1>4, <2>1, <2>3
    <3>4. j < Len(t) \/ j = Len(t) \/ j > Len(t)
      BY <1>5, <2>2
    <3> QED BY <3>1, <3>2, <3>3, <3>4, Zenon
  <2>5. SubSeq(u, 1, n) = SubSeq(pre \o c, 1, n)
    BY <1>4, <2>2, <2>3, <2>4, PrefixEqual
  <2>6. SubSeq(pre \o c, 1, n) = pre \o c
    BY <2>3
  <2> QED BY <2>5, <2>6 DEF c, n
<1> QED BY <1>1, <1>3, <1>6 DEF pre, chunk, u, seed

(* A pass that stays inside the cache attends to all the cells below it.   *)
LEMMA VisibleFacts ==
  ASSUME NEW cells \in Cells, NEW n \in Nat, n <= Len(cells)
  PROVE  Visible(cells, n) = SubSeq(cells, 1, n)
BY DEF Visible, Smaller

(* The model, shown a cache and a state that describe the same text,       *)
(* predicts the argmax of that text.                                       *)
LEMMA PredictFacts ==
  ASSUME NEW cells, NEW state, NEW t \in Predict(cells, state), cells = state
  PROVE  t \in Tokens /\ t = Argmax(weights, state)
BY DEF Predict

(* A text whose generated tokens are the model's own and end nothing; a    *)
(* block of tokens each of which the model predicts behind the text; and   *)
(* a block in which at most the last token ends the sequence.              *)
GreedySoFar(w, t, p) == \A i \in p + 1 .. Len(t) :
    t[i] = Argmax(w, SubSeq(t, 1, i - 1)) /\ t[i] \notin Eos
Follows(w, t, s) == \A i \in 1 .. Len(s) :
    s[i] = Argmax(w, SubSeq(t \o s, 1, Len(t) + i - 1))
EndsNoEarlier(s) == \A i \in 1 .. Len(s) - 1 : s[i] \notin Eos

(* A block of predictions, each following from the text before it, carries *)
(* a greedy text on to a greedy text.                                      *)
LEMMA GreedyGrowth ==
  ASSUME NEW w, NEW t \in Seq(Tokens), NEW p \in Nat, p <= Len(t),
         NEW s \in Seq(Tokens), Len(s) >= 1,
         GreedySoFar(w, t, p), Follows(w, t, s), EndsNoEarlier(s)
  PROVE  LET u == t \o s IN
         /\ \A i \in p + 1 .. Len(u) : u[i] = Argmax(w, SubSeq(u, 1, i - 1))
         /\ \A i \in p + 1 .. Len(u) - 1 : u[i] \notin Eos
<1> USE DEF GreedySoFar, Follows, EndsNoEarlier
<1> DEFINE u == t \o s
<1>1. /\ u \in Seq(Tokens) /\ Len(u) = Len(t) + Len(s)
      /\ \A i \in 1 .. Len(t) : u[i] = t[i]
      /\ \A i \in 1 .. Len(s) : u[Len(t) + i] = s[i]
  BY ConcatFacts
<1>a. Len(t) \in Nat /\ Len(s) \in Nat
  OBVIOUS
<1> HIDE DEF u
<1>2. ASSUME NEW i \in p + 1 .. Len(u)
      PROVE  /\ u[i] = Argmax(w, SubSeq(u, 1, i - 1))
             /\ i < Len(u) => u[i] \notin Eos
  <2>1. CASE i <= Len(t)
    <3>1. i \in p + 1 .. Len(t) /\ i - 1 \in Nat /\ i - 1 <= Len(t) /\ i - 1 <= Len(u)
      BY <2>1, <1>1, <1>a
    <3>2. SubSeq(u, 1, i - 1) = SubSeq(t, 1, i - 1)
      BY <3>1, <1>1, PrefixEqual
    <3>3. i \in 1 .. Len(t)
      BY <3>1
    <3> QED BY <3>1, <3>2, <3>3, <1>1
  <2>2. CASE i > Len(t)
    <3> DEFINE k == i - Len(t)
    <3>1. k \in 1 .. Len(s) /\ i = Len(t) + k /\ i - 1 = Len(t) + k - 1
          /\ (i < Len(u) => k \in 1 .. Len(s) - 1)
      BY <2>2, <1>1, <1>a
    <3> QED BY <3>1, <1>1 DEF u
  <2> QED BY <2>1, <2>2, <1>1, <1>a
<1> QED BY <1>1, <1>2, <1>a DEF u

------------------------------------------------------------------------------
(* What each action that generates tokens generates.                       *)

(* The text grows from old, greedily, and the request goes on exactly when *)
(* it is not finished.                                                     *)
Emits(old, p) ==
    /\ text' \in Seq(Tokens)
    /\ Len(text') > Len(old)
    /\ SubSeq(text', 1, Len(old)) = old
    /\ \A i \in p + 1 .. Len(text') : text'[i] = Argmax(weights, SubSeq(text', 1, i - 1))
    /\ \A i \in p + 1 .. Len(text') - 1 : text'[i] \notin Eos
    /\ Len(text') - p <= MaxLength
    /\ streamed' = SubSeq(text', p + 1, Len(text'))
    /\ pc' = IF Finished(text', p) THEN "done" ELSE "loop"
    /\ weights' = weights

(* A greedy text and a block of predictions that follow from it.           *)
LEMMA BlockEmits ==
  ASSUME NEW old \in Seq(Tokens), NEW p \in Nat, p <= Len(old),
         NEW s \in Seq(Tokens), Len(s) >= 1, Len(old) + Len(s) - p <= MaxLength,
         GreedySoFar(weights, old, p), Follows(weights, old, s), EndsNoEarlier(s),
         text' = old \o s,
         streamed' = SubSeq(old, p + 1, Len(old)) \o s,
         pc' = IF Finished(text', p) THEN "done" ELSE "loop",
         weights' = weights
  PROVE  Emits(old, p)
<1> DEFINE u == old \o s
<1>1. /\ \A i \in p + 1 .. Len(u) : u[i] = Argmax(weights, SubSeq(u, 1, i - 1))
      /\ \A i \in p + 1 .. Len(u) - 1 : u[i] \notin Eos
  BY GreedyGrowth
<1>2. /\ SubSeq(u, p + 1, Len(u)) = SubSeq(old, p + 1, Len(old)) \o s
      /\ SubSeq(u, 1, Len(old)) = old
  BY TailOfConcat
<1>3. Len(old) \in Nat /\ Len(s) \in Nat
  OBVIOUS
<1>4. text' = u /\ u = old \o s
  OBVIOUS
<1>5. /\ u \in Seq(Tokens)
      /\ Len(u) > Len(old)
      /\ Len(u) - p <= MaxLength
  BY <1>3, ConcatFacts
<1> HIDE DEF u
<1>6. streamed' = SubSeq(u, p + 1, Len(u))
  BY <1>2
<1>7. /\ text' \in Seq(Tokens)
      /\ Len(text') > Len(old)
      /\ SubSeq(text', 1, Len(old)) = old
      /\ Len(text') - p <= MaxLength
      /\ streamed' = SubSeq(text', p + 1, Len(text'))
  BY <1>2, <1>4, <1>5, <1>6, Zenon
<1>8. /\ \A i \in p + 1 .. Len(text') : text'[i] = Argmax(weights, SubSeq(text', 1, i - 1))
      /\ \A i \in p + 1 .. Len(text') - 1 : text'[i] \notin Eos
  BY <1>1, <1>4, Zenon
<1>9. /\ pc' = IF Finished(text', p) THEN "done" ELSE "loop"
      /\ weights' = weights
  OBVIOUS
<1> QED BY <1>7, <1>8, <1>9, Zenon DEF Emits

(* A greedy text and the one token a pass over it predicts.                *)
LEMMA OneTokenEmits ==
  ASSUME NEW old \in Seq(Tokens), NEW p \in Nat, p <= Len(old), Len(old) - p < MaxLength,
         GreedySoFar(weights, old, p), NEW t \in Tokens, t = Argmax(weights, old),
         text' = Append(old, t),
         streamed' = Append(SubSeq(old, p + 1, Len(old)), t),
         pc' = IF Finished(text', p) THEN "done" ELSE "loop",
         weights' = weights
  PROVE  Emits(old, p)
<1> DEFINE s == <<t>>
<1>1. s \in Seq(Tokens) /\ Len(s) = 1 /\ s[1] = t /\ text' = old \o s
  BY AppendIsBlock
<1>2. SubSeq(old \o s, 1, Len(old)) = old
  BY <1>1, TailOfConcat
<1>3. SubSeq(old, p + 1, Len(old)) \in Seq(Tokens) /\ Len(old) \in Nat /\ MaxLength \in Nat
  BY SpecAssumption
<1>4. streamed' = SubSeq(old, p + 1, Len(old)) \o s
  BY <1>3, AppendIsBlock
<1> HIDE DEF s
<1>5. EndsNoEarlier(s)
  BY <1>1 DEF EndsNoEarlier
<1>6. Follows(weights, old, s)
  <2> SUFFICES ASSUME NEW i \in 1 .. Len(s)
               PROVE  s[i] = Argmax(weights, SubSeq(old \o s, 1, Len(old) + i - 1))
    BY DEF Follows
  <2>1. i = 1 /\ Len(old) + i - 1 = Len(old)
    BY <1>1, <1>3
  <2>2. SubSeq(old \o s, 1, Len(old) + i - 1) = old
    BY <2>1, <1>2, Zenon
  <2>3. s[i] = t
    BY <2>1, <1>1
  <2> QED BY <2>2, <2>3, Zenon
<1>7. Len(old) + Len(s) - p <= MaxLength /\ Len(s) >= 1
  BY <1>1, <1>3
<1> QED BY <1>1, <1>4, <1>5, <1>6, <1>7, BlockEmits

(* When the request goes on, the text part of the invariant holds again.   *)
LEMMA EmitsTextInv ==
  ASSUME NEW old \in Seq(Tokens), NEW p \in Nat, Emits(old, p), p <= Len(old),
         plen' = p, p > 0, p + MaxLength <= KvMax,
         pc' = "loop" => hidden' = Len(text') - 2
  PROVE  TextInv'
<1> SUFFICES ASSUME Active' PROVE TextInv'
  BY DEF TextInv
<1>1. pc' = "loop" /\ ~Finished(text', p)
  BY DEF Emits, Active
<1>2. text'[Len(text')] \notin Eos /\ Len(text') - p # MaxLength
  BY <1>1 DEF Finished
<1>3. Len(text') \in Nat /\ Len(old) \in Nat /\ MaxLength \in Nat
  BY SpecAssumption DEF Emits
<1>4. p < Len(text') /\ Len(text') - p < MaxLength
  BY <1>2, <1>3 DEF Emits
<1>5. ASSUME NEW i \in p + 1 .. Len(text')
      PROVE  /\ text'[i] = Argmax(weights', SubSeq(text', 1, i - 1))
             /\ text'[i] \notin Eos
  BY <1>2, <1>3 DEF Emits
<1>6. streamed' = SubSeq(text', p + 1, Len(text'))
  BY DEF Emits
<1>7. hidden' = Len(text') - 2
  BY <1>1
<1> QED BY <1>4, <1>5, <1>6, <1>7 DEF TextInv

------------------------------------------------------------------------------
(* The steps.  One lemma per action: the inductive invariant holds again,  *)
(* and what the action emits is greedy.                                    *)

(* The MTP head's records are records of its type.                         *)
LEMMA MtpTypes ==
  /\ NoMtp \in MtpType
  /\ \A p \in Prompts : PrimedMtp(p) \in MtpType
<1>1. NoMtp \in MtpType
  BY DEF NoMtp, MtpType
<1>2. ASSUME NEW p \in Prompts PROVE PrimedMtp(p) \in MtpType
  <2>1. Len(p) - 1 \in Nat /\ Len(p) - 1 + MaxLength + 2 \in Nat
    BY SpecAssumption
  <2> QED BY <2>1 DEF NoMtp, MtpType, PrimedMtp
<1> QED BY <1>1, <1>2

(* The invariant holds before the first request.                           *)
LEMMA InitInv == Init => IInv
<1> SUFFICES ASSUME Init PROVE IInv
  OBVIOUS
<1>1. TypeOK
  <2>1. mtp \in MtpType
    BY MtpTypes DEF Init
  <2>2. <<>> \in Seq(Tokens) /\ <<>> \in Cells
    BY DEF Cells
  <2>3. useSpec \in BOOLEAN
    BY Zenon DEF Init
  <2> QED BY <2>1, <2>2, <2>3 DEF Init, TypeOK
<1>2. TextInv /\ CacheInv /\ ChunkInv
  BY DEF Init, Active, TextInv, CacheInv, ChunkInv
<1>3. MtpInv
  BY DEF Init, NoMtp, MtpInv
<1> QED BY <1>1, <1>2, <1>3 DEF IInv

(* A step that ends the request releases the caches and leaves nothing to  *)
(* be said about them.                                                     *)
LEMMA EndedInv ==
  ASSUME TypeOK, pc' \in {"done", "failed"}, ReleaseCaches,
         weights' = weights, useSpec' \in BOOLEAN, plen' \in Nat, text' \in Seq(Tokens),
         streamed' \in Seq(Tokens), hidden' \in Nat, drafts' \in Seq(Tokens),
         predicted' \in Seq(Tokens)
  PROVE  IInv'
<1>1. ~Active' /\ pc' \notin {"loop", "drafted", "verified"}
  BY DEF Active
<1>2. mtp' = NoMtp /\ kv' = <<>> /\ seen' = 0 /\ rec' = <<>>
  BY DEF ReleaseCaches
<1>3. TypeOK'
  <2>1. <<>> \in Seq(Tokens) /\ <<>> \in Cells
    BY DEF Cells
  <2> QED BY <1>2, <2>1, MtpTypes DEF TypeOK
<1>4. TextInv' /\ CacheInv' /\ ChunkInv'
  BY <1>1 DEF TextInv, CacheInv, ChunkInv
<1>5. MtpInv'
  BY <1>2 DEF MtpInv, NoMtp
<1> QED BY <1>3, <1>4, <1>5 DEF IInv

(* The prefill pass emits the first token.                                 *)
LEMMA PrefillStep ==
  ASSUME IInv, Prefill
  PROVE  /\ IInv'
         /\ \E p \in Prompts : plen' = Len(p) /\ Emits(p, Len(p))
<1>0. TypeOK
  BY DEF IInv
<1>1. PICK p \in Prompts, u \in BOOLEAN, t \in Tokens :
         /\ t \in Predict(Visible(PrefillCells(p), Len(p)), p)
         /\ useSpec' = u
         /\ plen' = Len(p)
         /\ text' = Append(p, t)
         /\ streamed' = <<t>>
         /\ hidden' = Len(p) - 1
         /\ pc' = IF Finished(text', plen') THEN "done" ELSE "loop"
         /\ pc' = "done" => ReleaseCaches
         /\ pc' = "loop" =>
              /\ kv' = IF u THEN PrefillCells(p)
                            ELSE Extended(PrefillCells(p), Len(p), 1, AddZeros)
              /\ seen' = Len(p)
              /\ rec' = p
              /\ mtp' = IF u /\ Recurrent THEN PrimedMtp(p) ELSE NoMtp
  BY DEF Prefill
<1>2. /\ p \in Seq(Tokens) /\ Len(p) \in Nat \ {0}
      /\ Len(p) + MaxLength <= KvMax
      /\ MaxLength \in Nat \ {0} /\ KvMax \in Nat /\ AddZeros \in Nat \ {0}
  BY SpecAssumption
<1>3. drafts' = <<>> /\ predicted' = <<>> /\ weights' = weights
  BY DEF Prefill
<1> DEFINE size == IF Dynamic THEN Len(p) ELSE KvMax
           blank == [i \in 1 .. size |-> Blank]
           cells == PrefillCells(p)
<1>4. blank \in Cells /\ Len(blank) = size /\ size \in Nat /\ Len(p) <= size
  BY <1>2 DEF Cells
<1>5. /\ cells \in Cells /\ Len(cells) = size
      /\ \A j \in 1 .. Len(p) : cells[j] = p[j]
  <2> HIDE DEF blank, size
  <2>1. cells = Written(blank, 0, p)
    BY DEF PrefillCells, blank, size
  <2>2. /\ Written(blank, 0, p) \in Cells /\ Len(Written(blank, 0, p)) = Len(blank)
        /\ \A j \in 1 .. Len(p) : Written(blank, 0, p)[0 + j] = p[j]
    BY <1>2, <1>4, WrittenFacts
  <2> QED BY <2>1, <2>2, <1>2, <1>4
<1> HIDE DEF cells, blank
<1>6. t = Argmax(weights, p)
  <2>1. SubSeq(cells, 1, Len(p)) = SubSeq(p, 1, Len(p))
    BY <1>2, <1>4, <1>5, PrefixEqual DEF Cells
  <2>2. SubSeq(p, 1, Len(p)) = p
    BY <1>2
  <2>3. Visible(cells, Len(p)) = SubSeq(cells, 1, Len(p))
    BY <1>2, <1>4, <1>5, VisibleFacts
  <2> QED BY <1>1, <2>1, <2>2, <2>3 DEF Predict, cells
<1>7. Emits(p, Len(p))
  <2>1. streamed' = Append(SubSeq(p, Len(p) + 1, Len(p)), t)
    BY <1>1, <1>2
  <2>2. GreedySoFar(weights, p, Len(p))
    BY <1>2 DEF GreedySoFar
  <2>3. Len(p) - Len(p) < MaxLength /\ Len(p) <= Len(p) /\ Len(p) \in Nat
    BY <1>2
  <2>4. pc' = IF Finished(text', Len(p)) THEN "done" ELSE "loop"
    BY <1>1
  <2> QED BY <1>1, <1>2, <1>3, <1>6, <2>1, <2>2, <2>3, <2>4, OneTokenEmits
<1>8. /\ text' \in Seq(Tokens) /\ Len(text') = Len(p) + 1
      /\ \A j \in 1 .. Len(p) : text'[j] = p[j]
      /\ SubSeq(text', 1, Len(p)) = p
      /\ streamed' \in Seq(Tokens)
  BY <1>1, <1>2
<1>9. CASE pc' = "done"
  <2>0. ReleaseCaches /\ drafts' \in Seq(Tokens) /\ predicted' \in Seq(Tokens)
        /\ plen' \in Nat /\ useSpec' \in BOOLEAN /\ hidden' \in Nat
    BY <1>1, <1>2, <1>3, <1>9
  <2>1. IInv'
    BY <2>0, <1>3, <1>8, <1>9, EndedInv, <1>0
  <2> QED BY <2>1, <1>1, <1>7
<1>10. CASE pc' = "loop"
  <2>1. TextInv'
    BY <1>1, <1>2, <1>7, <1>8, EmitsTextInv
  <2>2. /\ kv' \in Cells /\ Len(kv') >= size
        /\ ~Dynamic => kv' = cells
        /\ \A j \in 1 .. Len(p) : kv'[j] = p[j]
        /\ ~u => Len(kv') > Len(p)
    <3>1. /\ Extended(cells, Len(p), 1, AddZeros) \in Cells
          /\ Len(Extended(cells, Len(p), 1, AddZeros)) >= Len(cells)
          /\ \A j \in 1 .. Len(cells) : Extended(cells, Len(p), 1, AddZeros)[j] = cells[j]
          /\ ~Dynamic => Extended(cells, Len(p), 1, AddZeros) = cells
          /\ Dynamic => Len(Extended(cells, Len(p), 1, AddZeros)) - Len(p) >= 1
      <4>1. cells \in Cells /\ Len(p) \in Nat /\ Len(p) <= Len(cells)
        BY <1>2, <1>4, <1>5
      <4>2. 1 \in Nat /\ AddZeros \in Nat /\ AddZeros >= 1
        BY <1>2
      <4> QED BY <4>1, <4>2, ExtendedFacts
    <3>2. kv' = IF u THEN cells ELSE Extended(cells, Len(p), 1, AddZeros)
      BY <1>1, <1>10 DEF cells
    <3>3. Len(Extended(cells, Len(p), 1, AddZeros)) \in Nat /\ Len(cells) \in Nat
      BY <3>1, <1>5 DEF Cells
    <3>4. \A j \in 1 .. Len(p) : j \in 1 .. Len(cells)
      BY <1>2, <1>4, <1>5
    <3>5. CASE u
      BY <3>2, <3>5, <1>4, <1>5
    <3>6. CASE ~u
      BY <3>1, <3>2, <3>3, <3>4, <3>6, <1>2, <1>4, <1>5
    <3> QED BY <3>5, <3>6
  <2>3. seen' = Len(p) /\ rec' = p /\ mtp' = IF u /\ Recurrent THEN PrimedMtp(p) ELSE NoMtp
    BY <1>1, <1>10
  <2>4. TypeOK'
    <3>1. mtp' \in MtpType
      BY <2>3, MtpTypes
    <3>2. /\ weights' \in Weights /\ useSpec' \in BOOLEAN /\ plen' \in Nat
          /\ seen' \in Nat /\ rec' \in Seq(Tokens) /\ hidden' \in Nat
          /\ drafts' \in Seq(Tokens) /\ predicted' \in Seq(Tokens)
      BY <1>0, <1>1, <1>2, <1>3, <2>3 DEF TypeOK
    <3> QED BY <3>1, <3>2, <1>8, <1>10, <2>2 DEF TypeOK
  <2>5. CacheInv'
    BY <1>1, <1>2, <1>4, <1>5, <1>8, <1>10, <2>2, <2>3 DEF CacheInv, Active, Cells
  <2>6. ChunkInv'
    BY <1>10 DEF ChunkInv
  <2>7. MtpInv'
    BY <1>1, <1>2, <1>8, <1>10, <2>3 DEF MtpInv, Active, NoMtp, PrimedMtp, FirstPosition, FirstWidth
  <2> QED BY <2>1, <2>4, <2>5, <2>6, <2>7, <1>1, <1>7 DEF IInv
<1> QED BY <1>1, <1>9, <1>10

(* Room for k more tokens: while the text and the tokens still allowed fit *)
(* the cache, extending it by enough makes room for the next pass, and the *)
(* cells in use still hold the text.                                       *)
LEMMA RoomFacts ==
  ASSUME IInv, pc \in {"loop", "drafted"}, NEW k \in Nat, NEW z \in Nat, z >= k,
         Len(text) + k <= plen + MaxLength
  PROVE  LET room == Extended(kv, seen, k, z) IN
         /\ room \in Cells
         /\ seen + k <= Len(room)
         /\ Len(room) >= Len(kv)
         /\ ~Dynamic => Len(room) = KvMax
         /\ \A j \in 1 .. seen : room[j] = text[j]
<1> DEFINE room == Extended(kv, seen, k, z)
<1>1. /\ kv \in Cells /\ seen \in Nat /\ text \in Seq(Tokens) /\ plen \in Nat
      /\ MaxLength \in Nat /\ KvMax \in Nat
  BY SpecAssumption DEF IInv, TypeOK
<1>2. /\ seen = Len(text) - 1 /\ seen <= Len(kv)
      /\ ~Dynamic => Len(kv) = KvMax
      /\ \A j \in 1 .. seen : kv[j] = text[j]
      /\ plen + MaxLength <= KvMax
  BY DEF IInv, TextInv, CacheInv, Active
<1>3. /\ room \in Cells /\ Len(room) >= Len(kv)
      /\ \A j \in 1 .. Len(kv) : room[j] = kv[j]
      /\ ~Dynamic => room = kv
      /\ Dynamic => Len(room) - seen >= k
  BY <1>1, <1>2, ExtendedFacts
<1> HIDE DEF room
<1>4. Len(room) \in Nat /\ Len(kv) \in Nat /\ Len(text) \in Nat
  BY <1>1, <1>3 DEF Cells
<1>5. seen + k <= Len(room)
  BY <1>1, <1>2, <1>3, <1>4
<1>6. \A j \in 1 .. seen : room[j] = text[j]
  BY <1>1, <1>2, <1>3, <1>4
<1> QED BY <1>2, <1>3, <1>5, <1>6 DEF room

(* What the invariant says of the text while a request is active.          *)
LEMMA ActiveFacts ==
  ASSUME IInv, Active
  PROVE  /\ text \in Seq(Tokens) /\ plen \in Nat /\ MaxLength \in Nat /\ KvMax \in Nat
         /\ Len(text) \in Nat
         /\ plen > 0 /\ plen < Len(text) /\ Len(text) - plen < MaxLength
         /\ plen + MaxLength <= KvMax
         /\ GreedySoFar(weights, text, plen)
         /\ streamed = SubSeq(text, plen + 1, Len(text))
         /\ hidden = Len(text) - 2
         /\ Seed \in Tokens
<1>1. /\ text \in Seq(Tokens) /\ plen \in Nat /\ MaxLength \in Nat /\ KvMax \in Nat
  BY SpecAssumption DEF IInv, TypeOK
<1>2. /\ plen > 0 /\ plen < Len(text) /\ Len(text) - plen < MaxLength
      /\ plen + MaxLength <= KvMax
      /\ GreedySoFar(weights, text, plen)
      /\ streamed = SubSeq(text, plen + 1, Len(text))
      /\ hidden = Len(text) - 2
  BY DEF IInv, TextInv, GreedySoFar
<1>3. Len(text) \in Nat
  BY <1>1
<1>4. Seed \in Tokens
  BY <1>1, <1>2, <1>3 DEF Seed
<1> QED BY <1>1, <1>2, <1>3, <1>4

(* Decoding one token.                                                     *)
LEMMA DecodeOneStep ==
  ASSUME IInv, DecodeOne
  PROVE  /\ IInv'
         /\ Active /\ UNCHANGED plen /\ Emits(text, plen)
<1> DEFINE room == IF useSpec THEN Extended(kv, seen, 1, AddZeros) ELSE kv
           cells == Written(room, seen, <<Seed>>)
           pre == SubSeq(text, 1, Len(text) - 1)
<1>0. pc = "loop" /\ Active /\ TypeOK
  BY DEF DecodeOne, Active, IInv
<1>1. /\ text \in Seq(Tokens) /\ plen \in Nat /\ MaxLength \in Nat /\ KvMax \in Nat
      /\ Len(text) \in Nat
      /\ plen > 0 /\ plen < Len(text) /\ Len(text) - plen < MaxLength
      /\ plen + MaxLength <= KvMax
      /\ GreedySoFar(weights, text, plen)
      /\ streamed = SubSeq(text, plen + 1, Len(text))
      /\ hidden = Len(text) - 2
      /\ Seed \in Tokens
  BY <1>0, ActiveFacts
<1>2. /\ seen = Len(text) - 1 /\ seen <= Len(kv) /\ seen \in Nat /\ kv \in Cells
      /\ ~Dynamic => Len(kv) = KvMax
      /\ \A j \in 1 .. seen : kv[j] = text[j]
      /\ rec = pre
      /\ ~useSpec => seen < Len(kv)
  BY <1>0 DEF IInv, CacheInv, TypeOK
<1>3. PICK t \in Predict(Visible(cells, seen + 1), Append(rec, Seed)) :
         /\ text' = Append(text, t)
         /\ streamed' = Append(streamed, t)
         /\ pc' = IF Finished(text', plen) THEN "done" ELSE "loop"
         /\ pc' = "done" => ReleaseCaches
         /\ pc' = "loop" =>
              /\ kv' = IF useSpec THEN cells ELSE Extended(cells, seen + 1, 1, AddZeros)
              /\ seen' = seen + 1
              /\ rec' = Append(rec, Seed)
              /\ mtp' = mtp
  BY DEF DecodeOne
<1>4. /\ hidden' = hidden + 1
      /\ useSpec => Remaining <= 1
      /\ weights' = weights /\ useSpec' = useSpec /\ plen' = plen
      /\ drafts' = drafts /\ predicted' = predicted
  BY DEF DecodeOne
<1>5. /\ room \in Cells /\ seen + 1 <= Len(room) /\ Len(room) >= Len(kv)
      /\ ~Dynamic => Len(room) = KvMax
      /\ \A j \in 1 .. seen : room[j] = text[j]
  <2>1. /\ Extended(kv, seen, 1, AddZeros) \in Cells
        /\ seen + 1 <= Len(Extended(kv, seen, 1, AddZeros))
        /\ Len(Extended(kv, seen, 1, AddZeros)) >= Len(kv)
        /\ ~Dynamic => Len(Extended(kv, seen, 1, AddZeros)) = KvMax
        /\ \A j \in 1 .. seen : Extended(kv, seen, 1, AddZeros)[j] = text[j]
    <3>1. AddZeros \in Nat /\ AddZeros >= 1 /\ Len(text) + 1 <= plen + MaxLength /\ 1 \in Nat
      BY <1>1, SpecAssumption
    <3> QED BY <1>0, <3>1, RoomFacts
  <2>2. CASE useSpec
    BY <2>1, <2>2
  <2>3. CASE ~useSpec
    <3>1. Len(kv) \in Nat
      BY <1>2 DEF Cells
    <3> QED BY <1>2, <2>3, <3>1
  <2> QED BY <2>2, <2>3
<1> HIDE DEF room
<1>6. /\ pre \in Seq(Tokens) /\ Len(pre) = seen /\ Append(pre, Seed) = text
      /\ \A j \in 1 .. seen : pre[j] = text[j]
  BY <1>1, <1>2 DEF Seed
<1> HIDE DEF pre
<1>7. <<Seed>> \in Seq(Tokens) /\ Len(<<Seed>>) = 1 /\ SubSeq(<<Seed>>, 1, 1) = <<Seed>>
  BY <1>1, AppendIsBlock
<1>8. /\ cells \in Cells /\ Len(cells) = Len(room)
      /\ SubSeq(cells, 1, seen + 1) = pre \o SubSeq(<<Seed>>, 1, 1)
  <2>1. Len(pre) + Len(<<Seed>>) <= Len(room) /\ 1 \in 0 .. Len(<<Seed>>)
    BY <1>5, <1>6, <1>7
  <2>2. \A j \in 1 .. Len(pre) : room[j] = pre[j]
    BY <1>5, <1>6
  <2>3. LET w == Written(room, Len(pre), <<Seed>>) IN
        /\ w \in Cells /\ Len(w) = Len(room)
        /\ \A i \in 0 .. Len(<<Seed>>) :
             SubSeq(w, 1, Len(pre) + i) = pre \o SubSeq(<<Seed>>, 1, i)
    BY <1>5, <1>6, <1>7, <2>1, <2>2, PassFacts
  <2> QED BY <2>1, <2>3, <1>6
<1> HIDE DEF cells
<1>9. /\ Visible(cells, seen + 1) = text /\ SubSeq(cells, 1, seen + 1) = text
      /\ Append(rec, Seed) = text
  <2>1. Visible(cells, seen + 1) = SubSeq(cells, 1, seen + 1)
    BY <1>2, <1>5, <1>8, VisibleFacts
  <2> QED BY <2>1, <1>1, <1>2, <1>6, <1>7, <1>8, AppendIsBlock
<1>10. t \in Tokens /\ t = Argmax(weights, text)
  BY <1>3, <1>9 DEF Predict, cells
<1>11. Emits(text, plen)
  <2>1. streamed' = Append(SubSeq(text, plen + 1, Len(text)), t)
    BY <1>1, <1>3
  <2>2. plen <= Len(text)
    BY <1>1
  <2> QED BY <1>1, <1>3, <1>4, <1>10, <2>1, <2>2, OneTokenEmits
<1>12. /\ text' \in Seq(Tokens) /\ Len(text') = Len(text) + 1
       /\ SubSeq(text', 1, Len(text)) = text
       /\ \A j \in 1 .. Len(text) : text'[j] = text[j]
       /\ streamed' \in Seq(Tokens)
  BY <1>1, <1>3, <1>10
<1>13. /\ drafts' \in Seq(Tokens) /\ predicted' \in Seq(Tokens) /\ hidden' \in Nat
       /\ useSpec' \in BOOLEAN /\ plen' \in Nat
  BY <1>0, <1>1, <1>4 DEF TypeOK
<1>14. CASE pc' = "done"
  <2>1. IInv'
    BY <1>0, <1>3, <1>4, <1>12, <1>13, <1>14, EndedInv
  <2> QED BY <2>1, <1>0, <1>4, <1>11
<1>15. CASE pc' = "loop"
  <2>1. TextInv'
    <3>1. hidden' = Len(text') - 2
      BY <1>1, <1>4, <1>12
    <3> QED BY <3>1, <1>1, <1>4, <1>11, EmitsTextInv
  <2>2. ~useSpec
    <3>1. ~Finished(text', plen)
      BY <1>3, <1>15
    <3>2. Len(text') - plen # MaxLength
      BY <3>1 DEF Finished
    <3>3. Len(text) + 1 - plen # MaxLength
      BY <3>2, <1>1, <1>12
    <3>4. ~(Remaining <= 1)
      BY <3>3, <1>1 DEF Remaining
    <3> QED BY <3>4, <1>4
  <2>3. /\ kv' = Extended(cells, seen + 1, 1, AddZeros)
        /\ seen' = seen + 1 /\ rec' = text /\ mtp' = mtp
    BY <1>3, <1>9, <1>15, <2>2
  <2>4. /\ Extended(cells, seen + 1, 1, AddZeros) \in Cells
        /\ Len(Extended(cells, seen + 1, 1, AddZeros)) >= Len(cells)
        /\ \A j \in 1 .. Len(cells) : Extended(cells, seen + 1, 1, AddZeros)[j] = cells[j]
        /\ ~Dynamic => Extended(cells, seen + 1, 1, AddZeros) = cells
        /\ Dynamic => Len(Extended(cells, seen + 1, 1, AddZeros)) - (seen + 1) >= 1
    <3>1. AddZeros \in Nat /\ AddZeros >= 1 /\ 1 \in Nat
      BY SpecAssumption
    <3>2. seen + 1 \in Nat /\ seen + 1 <= Len(cells)
      BY <1>2, <1>5, <1>8
    <3> QED BY <3>1, <3>2, <1>8, ExtendedFacts
  <2>5. \A j \in 1 .. Len(text) : cells[j] = text[j]
    <3>1. /\ cells \in Seq(Tokens \cup {Blank}) /\ seen + 1 \in Nat
          /\ seen + 1 <= Len(cells) /\ seen + 1 = Len(text)
      BY <1>1, <1>2, <1>5, <1>8 DEF Cells
    <3>2. \A j \in 1 .. seen + 1 : SubSeq(cells, 1, seen + 1)[j] = cells[j]
      BY <3>1, PrefixFacts
    <3> QED BY <3>1, <3>2, <1>9
  <2>6. Len(cells) \in Nat /\ Len(kv') \in Nat
    BY <1>8, <2>3, <2>4 DEF Cells
  <2>7. /\ ~Dynamic => Len(kv') = KvMax
        /\ seen' = Len(text') - 1 /\ seen' < Len(kv')
        /\ \A j \in 1 .. seen' : kv'[j] = text'[j]
        /\ rec' = SubSeq(text', 1, seen')
    BY <1>1, <1>2, <1>5, <1>8, <1>12, <2>1, <2>3, <2>4, <2>5, <2>6, SpecAssumption DEF TextInv
  <2>8. CacheInv'
    BY <1>15, <2>6, <2>7, <1>1, <1>2, <2>3 DEF CacheInv
  <2>9. TypeOK'
    BY <1>0, <1>1, <1>2, <1>4, <1>12, <1>13, <1>15, <2>3, <2>4 DEF TypeOK
  <2>10. ChunkInv'
    BY <1>15 DEF ChunkInv
  <2>11. MtpInv'
    BY <2>2, <2>3, <1>0 DEF IInv, MtpInv
  <2> QED BY <2>1, <2>8, <2>9, <2>10, <2>11, <1>0, <1>4, <1>11 DEF IInv
<1> QED BY <1>3, <1>14, <1>15

(* Drafting: between one token and one less than the request may still     *)
(* generate, and the head's cache ends at the verified text.               *)
LEMMA DraftStep ==
  ASSUME IInv, Draft
  PROVE  IInv'
<1>0. pc = "loop" /\ pc' = "drafted" /\ Active /\ Active' /\ useSpec
      /\ TypeOK /\ TextInv /\ CacheInv /\ MtpInv
  BY DEF Draft, Active, IInv
<1>1. /\ text \in Seq(Tokens) /\ plen \in Nat /\ MaxLength \in Nat /\ Len(text) \in Nat
      /\ plen < Len(text) /\ Len(text) - plen < MaxLength
  BY <1>0, ActiveFacts
<1>2. /\ weights' = weights /\ useSpec' = useSpec /\ plen' = plen /\ text' = text
      /\ streamed' = streamed /\ kv' = kv /\ seen' = seen /\ rec' = rec
      /\ hidden' = hidden /\ predicted' = predicted
  BY DEF Draft
<1>3. DraftCount \in 1 .. Remaining - 1
  <2>1. Remaining \in Int /\ Remaining > 1 /\ NumDraft \in Nat \ {0} /\ NumHeads \in Nat \ {0}
    BY <1>1, SpecAssumption DEF Draft, Remaining
  <2> QED BY <2>1 DEF DraftCount, Smaller
<1>4. drafts' \in Seq(Tokens) /\ Len(drafts') = DraftCount
  <2>1. drafts' \in [1 .. DraftCount -> Tokens] /\ DraftCount \in Nat
    BY <1>3 DEF Draft
  <2> QED BY <2>1
<1>5. Remaining' = Remaining
  BY <1>2 DEF Remaining
<1>6. mtp \in MtpType /\ mtp.len \in Nat /\ FirstWidth \in Nat
  BY <1>0 DEF TypeOK, MtpType, FirstWidth
<1>7. /\ mtp' \in MtpType /\ mtp'.on = mtp.on
      /\ mtp.on => /\ mtp'.cap = mtp.cap /\ mtp'.start = mtp.len /\ mtp'.first = FirstWidth
  <2>1. CASE mtp.on
    <3>1. mtp' = DraftedMtp
      BY <2>1 DEF Draft
    <3>2. mtp.cap \in Nat
      BY <1>6 DEF MtpType
    <3> QED BY <3>1, <3>2, <2>1, <1>6 DEF MtpType, DraftedMtp
  <2>2. CASE ~mtp.on
    <3>1. mtp' = mtp
      BY <2>2 DEF Draft
    <3> QED BY <3>1, <2>2, <1>6
  <2> QED BY <2>1, <2>2
<1>8. TypeOK'
  <2>1. drafts' \in Seq(Tokens) /\ mtp' \in MtpType /\ pc' = "drafted"
    BY <1>0, <1>4, <1>7
  <2> QED BY <2>1, <1>0, <1>2 DEF TypeOK
<1>9. TextInv'
  BY <1>0, <1>2 DEF TextInv
<1>10. CacheInv'
  BY <1>0, <1>2 DEF CacheInv
<1>11. ChunkInv'
  BY <1>0, <1>2, <1>3, <1>4, <1>5 DEF ChunkInv
<1>12. MtpInv'
  <2> SUFFICES ASSUME mtp'.on PROVE MtpInv'
    BY DEF MtpInv
  <2>1. /\ mtp.on /\ mtp'.cap = mtp.cap /\ mtp'.start = mtp.len
        /\ mtp'.first = FirstWidth
    BY <1>7
  <2>2. /\ mtp.cap = plen + MaxLength + 1
        /\ mtp.len = FirstPosition
        /\ FirstPosition + FirstWidth = Len(text) - 1
    BY <1>0, <2>1 DEF MtpInv
  <2>3. mtp'.start + mtp'.first = Len(text') - 1
    BY <1>2, <2>1, <2>2
  <2>4. mtp'.cap = plen' + MaxLength + 1
    BY <1>2, <2>1, <2>2
  <2>5. useSpec' /\ Active' /\ pc' # "loop"
    BY <1>0, <1>2
  <2> QED BY <2>3, <2>4, <2>5 DEF MtpInv
<1> QED BY <1>8, <1>9, <1>10, <1>11, <1>12 DEF IInv

(* Verifying: the chunk fits the cache, the cells hold the text and the    *)
(* drafts, and every position predicts what the tokens before it entail.   *)
LEMMA VerifyStep ==
  ASSUME IInv, Verify
  PROVE  IInv'
<1> DEFINE k == Len(Chunk)
           z == Larger(AddZeros, Len(Chunk))
           room == Extended(kv, seen, Len(Chunk), z)
           pre == SubSeq(text, 1, Len(text) - 1)
           u == text \o drafts
<1>0. pc = "drafted" /\ pc' = "verified" /\ Active /\ Active' /\ useSpec
      /\ TypeOK /\ TextInv /\ CacheInv /\ ChunkInv /\ MtpInv
  BY DEF Verify, Active, IInv, ChunkInv
<1>1. /\ text \in Seq(Tokens) /\ plen \in Nat /\ MaxLength \in Nat /\ KvMax \in Nat
      /\ Len(text) \in Nat /\ plen > 0
      /\ plen < Len(text) /\ Len(text) - plen < MaxLength
      /\ plen + MaxLength <= KvMax
      /\ Seed \in Tokens
  BY <1>0, ActiveFacts
<1>2. /\ weights' = weights /\ useSpec' = useSpec /\ plen' = plen /\ text' = text
      /\ streamed' = streamed /\ rec' = rec /\ hidden' = hidden /\ drafts' = drafts
      /\ mtp' = mtp /\ seen' = seen + Len(Chunk)
  BY DEF Verify
<1>3. /\ seen = Len(text) - 1 /\ seen <= Len(kv) /\ seen \in Nat /\ kv \in Cells
      /\ rec = pre
  BY <1>0 DEF CacheInv, TypeOK
<1>4. /\ drafts \in Seq(Tokens) /\ Len(drafts) \in Nat /\ Len(drafts) \in 1 .. Remaining - 1
      /\ Len(drafts) + Len(text) + 1 <= plen + MaxLength
  <2>1. drafts \in Seq(Tokens) /\ Len(drafts) \in 1 .. Remaining - 1
    BY <1>0 DEF TypeOK, ChunkInv
  <2>2. Len(drafts) \in Nat
    BY <2>1
  <2>3. Len(drafts) <= MaxLength - (Len(text) - plen) - 1
    BY <2>1, <2>2, <1>1 DEF Remaining
  <2> QED BY <2>1, <2>2, <2>3, <1>1
<1>5. /\ pre \in Seq(Tokens) /\ Len(pre) = seen
      /\ Chunk \in Seq(Tokens) /\ Len(Chunk) = Len(drafts) + 1
      /\ \A i \in 1 .. Len(drafts) + 1 :
           pre \o SubSeq(Chunk, 1, i) = SubSeq(u, 1, Len(text) + i - 1)
  <2>1. Len(text) >= 1
    BY <1>1
  <2> QED BY <1>1, <1>3, <1>4, <2>1, SeedFacts DEF Chunk, Seed
<1>6. /\ room \in Cells /\ seen + Len(Chunk) <= Len(room)
      /\ ~Dynamic => Len(room) = KvMax
      /\ \A j \in 1 .. seen : room[j] = text[j]
  <2>1. Len(Chunk) \in Nat /\ z \in Nat /\ z >= Len(Chunk)
    BY <1>4, <1>5, SpecAssumption DEF Larger
  <2>2. Len(text) + Len(Chunk) <= plen + MaxLength
    BY <1>1, <1>4, <1>5
  <2> HIDE DEF z
  <2> QED BY <1>0, <2>1, <2>2, RoomFacts
<1>7. kv' = Written(room, seen, Chunk)
  BY DEF Verify
<1> HIDE DEF room
<1>8. \A j \in 1 .. seen : pre[j] = text[j]
  BY <1>1, <1>3
<1> HIDE DEF pre
<1>9. /\ kv' \in Cells /\ Len(kv') = Len(room)
      /\ \A i \in 0 .. Len(Chunk) : SubSeq(kv', 1, seen + i) = pre \o SubSeq(Chunk, 1, i)
  <2>1. Len(pre) + Len(Chunk) <= Len(room)
    BY <1>5, <1>6
  <2>2. \A j \in 1 .. Len(pre) : room[j] = pre[j]
    BY <1>5, <1>6, <1>8
  <2>3. LET w == Written(room, Len(pre), Chunk) IN
        /\ w \in Cells /\ Len(w) = Len(room)
        /\ \A i \in 0 .. Len(Chunk) : SubSeq(w, 1, Len(pre) + i) = pre \o SubSeq(Chunk, 1, i)
    BY <1>5, <1>6, <2>1, <2>2, PassFacts
  <2> QED BY <2>3, <1>5, <1>7
<1>10. /\ u \in Seq(Tokens) /\ Len(u) = Len(text) + Len(drafts)
       /\ \A j \in 1 .. Len(text) : u[j] = text[j]
  BY <1>1, <1>4, ConcatFacts
<1> HIDE DEF u
<1>11. \A i \in 1 .. Len(Chunk) :
         /\ SubSeq(kv', 1, seen + i) = SubSeq(u, 1, Len(text) + i - 1)
         /\ rec \o SubSeq(Chunk, 1, i) = SubSeq(u, 1, Len(text) + i - 1)
  <2> SUFFICES ASSUME NEW i \in 1 .. Len(Chunk)
               PROVE  /\ SubSeq(kv', 1, seen + i) = SubSeq(u, 1, Len(text) + i - 1)
                      /\ rec \o SubSeq(Chunk, 1, i) = SubSeq(u, 1, Len(text) + i - 1)
    OBVIOUS
  <2>1. i \in 0 .. Len(Chunk) /\ i \in 1 .. Len(drafts) + 1
    BY <1>4, <1>5
  <2>2. pre \o SubSeq(Chunk, 1, i) = SubSeq(u, 1, Len(text) + i - 1)
    BY <1>5, <2>1
  <2>3. SubSeq(kv', 1, seen + i) = pre \o SubSeq(Chunk, 1, i)
    BY <1>9, <2>1
  <2> QED BY <1>3, <2>2, <2>3
<1>12. /\ seen' = Len(u) /\ seen' \in Nat /\ seen' <= Len(kv')
       /\ \A j \in 1 .. seen' : kv'[j] = u[j]
  <2>1. seen' = Len(text) + Len(drafts)
    BY <1>1, <1>2, <1>3, <1>4, <1>5
  <2>2. seen' = Len(u) /\ seen' \in Nat /\ seen' <= Len(kv')
    BY <2>1, <1>1, <1>2, <1>4, <1>6, <1>9, <1>10
  <2>3. SubSeq(kv', 1, seen') = SubSeq(u, 1, seen')
    <3>1. Len(Chunk) \in 1 .. Len(Chunk) /\ Len(text) + Len(Chunk) - 1 = seen'
      BY <2>1, <1>1, <1>4, <1>5
    <3> QED BY <3>1, <1>2, <1>11
  <2>4. /\ \A j \in 1 .. seen' : SubSeq(kv', 1, seen')[j] = kv'[j]
        /\ \A j \in 1 .. seen' : SubSeq(u, 1, seen')[j] = u[j]
    BY <2>2, <1>9, <1>10, PrefixFacts DEF Cells
  <2> QED BY <2>2, <2>3, <2>4
<1>13. /\ predicted' \in Seq(Tokens) /\ Len(predicted') = Len(drafts) + 1
       /\ \A i \in 1 .. Len(predicted') :
            predicted'[i] = Argmax(weights, SubSeq(u, 1, Len(text) + i - 1))
  <2>1. predicted' \in [1 .. Len(Chunk) -> Tokens] /\ Len(Chunk) \in Nat
    BY <1>4, <1>5 DEF Verify
  <2>2. predicted' \in Seq(Tokens) /\ Len(predicted') = Len(Chunk)
    BY <2>1
  <2>3. \A i \in 1 .. Len(Chunk) :
          predicted'[i] \in Predict(Visible(kv', seen + i), rec \o SubSeq(Chunk, 1, i))
    BY DEF Verify
  <2>4. ASSUME NEW i \in 1 .. Len(Chunk)
        PROVE  predicted'[i] = Argmax(weights, SubSeq(u, 1, Len(text) + i - 1))
    <3>0. Visible(kv', seen + i) = SubSeq(kv', 1, seen + i)
      BY <2>1, <1>3, <1>6, <1>9, VisibleFacts
    <3>1. predicted'[i] \in Predict(SubSeq(kv', 1, seen + i), rec \o SubSeq(Chunk, 1, i))
      BY <2>3, <3>0
    <3>2. /\ SubSeq(kv', 1, seen + i) = SubSeq(u, 1, Len(text) + i - 1)
          /\ rec \o SubSeq(Chunk, 1, i) = SubSeq(u, 1, Len(text) + i - 1)
      BY <1>11
    <3> QED BY <3>1, <3>2, PredictFacts
  <2> QED BY <2>2, <2>4, <1>5
<1>14. Remaining' = Remaining
  BY <1>2 DEF Remaining
<1>15. TypeOK'
  BY <1>0, <1>2, <1>4, <1>9, <1>12, <1>13 DEF TypeOK
<1>16. TextInv'
  BY <1>0, <1>2 DEF TextInv
<1>17. CacheInv'
  BY <1>0, <1>6, <1>9 DEF CacheInv
<1>18. ChunkInv'
  <2>1. (text \o drafts)' = u
    BY <1>2 DEF u
  <2>2. rec' = SubSeq(text', 1, Len(text') - 1)
    BY <1>2, <1>3 DEF pre
  <2>3. useSpec' /\ Len(drafts') \in 1 .. Remaining' - 1
    BY <1>0, <1>2, <1>4, <1>14
  <2>4. /\ Len(predicted') = Len(drafts') + 1
        /\ seen' = Len(text') + Len(drafts')
        /\ seen' <= Len(kv')
    BY <1>2, <1>10, <1>12, <1>13
  <2>5. /\ \A j \in 1 .. seen' : kv'[j] = (text \o drafts)'[j]
        /\ \A i \in 1 .. Len(predicted') :
             predicted'[i] = Argmax(weights', SubSeq((text \o drafts)', 1, Len(text') + i - 1))
    BY <1>2, <1>12, <1>13, <2>1
  <2> QED BY <1>0, <2>2, <2>3, <2>4, <2>5 DEF ChunkInv
<1>19. MtpInv'
  BY <1>0, <1>2 DEF MtpInv
<1> QED BY <1>15, <1>16, <1>17, <1>18, <1>19 DEF IInv

(* Accepting: the tokens kept are what the model predicts one by one, and  *)
(* when the request goes on all accepted drafts are kept, so the rewound   *)
(* caches describe the new text.                                           *)
LEMMA CommitStep ==
  ASSUME IInv, Commit
  PROVE  /\ IInv'
         /\ Active /\ UNCHANGED plen /\ Emits(text, plen)
<1> DEFINE u == text \o drafts
           pre == SubSeq(text, 1, Len(text) - 1)
<1>0. pc = "verified" /\ Active /\ useSpec
      /\ TypeOK /\ TextInv /\ CacheInv /\ ChunkInv /\ MtpInv
  BY DEF Commit, Active, IInv, ChunkInv
<1>1. /\ text \in Seq(Tokens) /\ plen \in Nat /\ MaxLength \in Nat /\ KvMax \in Nat
      /\ Len(text) \in Nat /\ plen > 0
      /\ plen < Len(text) /\ Len(text) - plen < MaxLength
      /\ plen + MaxLength <= KvMax
      /\ GreedySoFar(weights, text, plen)
      /\ streamed = SubSeq(text, plen + 1, Len(text))
      /\ hidden = Len(text) - 2
      /\ Seed \in Tokens
  BY <1>0, ActiveFacts
<1>a. PICK a \in 0 .. Len(drafts) :
         \E c \in 1 .. a + 1 : Accepted(a) /\ Kept(c, a) /\ Keep(c, a)
  BY DEF Commit
<1>c. PICK c \in 1 .. a + 1 : Accepted(a) /\ Kept(c, a) /\ Keep(c, a)
  BY <1>a
<1>2. /\ text' = text \o SubSeq(predicted, 1, c)
      /\ streamed' = streamed \o SubSeq(predicted, 1, c)
      /\ hidden' = hidden + c
      /\ pc' = IF Finished(text', plen) THEN "done" ELSE "loop"
      /\ pc' = "done" => ReleaseCaches
      /\ pc' = "loop" =>
           /\ kv' = kv
           /\ seen' = seen - (Len(drafts) - a)
           /\ rec' = rec \o SubSeq(Chunk, 1, a + 1)
           /\ mtp' = IF mtp.on THEN CommittedMtp(c) ELSE mtp
  BY <1>c DEF Keep
<1>3. /\ weights' = weights /\ useSpec' = useSpec /\ plen' = plen
      /\ drafts' = <<>> /\ predicted' = <<>>
  BY DEF Commit
<1> DEFINE s == SubSeq(predicted, 1, c)
<1>4. /\ drafts \in Seq(Tokens) /\ Len(drafts) \in Nat /\ Len(drafts) >= 1
      /\ Len(text) + Len(drafts) + 1 <= plen + MaxLength
  <2>1. drafts \in Seq(Tokens) /\ Len(drafts) \in 1 .. Remaining - 1
    BY <1>0 DEF TypeOK, ChunkInv
  <2>2. Len(drafts) \in Nat
    BY <2>1
  <2>3. Len(drafts) <= MaxLength - (Len(text) - plen) - 1 /\ Len(drafts) >= 1
    BY <2>1, <2>2, <1>1 DEF Remaining
  <2> QED BY <2>1, <2>2, <2>3, <1>1
<1>5. /\ predicted \in Seq(Tokens) /\ Len(predicted) = Len(drafts) + 1
      /\ seen = Len(text) + Len(drafts) /\ seen <= Len(kv) /\ kv \in Cells
      /\ rec = pre
      /\ \A j \in 1 .. seen : kv[j] = u[j]
      /\ \A i \in 1 .. Len(predicted) :
           predicted[i] = Argmax(weights, SubSeq(u, 1, Len(text) + i - 1))
      /\ ~Dynamic => Len(kv) = KvMax
  BY <1>0 DEF TypeOK, ChunkInv, CacheInv
<1>6. /\ a \in Nat /\ a <= Len(drafts) /\ c \in Nat /\ 1 <= c /\ c <= a + 1
      /\ c <= Len(predicted)
      /\ \A j \in 1 .. a : predicted[j] = drafts[j]
      /\ \A j \in 1 .. c - 1 : predicted[j] \notin Eos
      /\ c < a + 1 => predicted[c] \in Eos
  <2>1. a \in Nat /\ a <= Len(drafts)
    BY <1>4
  <2>2. c \in Nat /\ 1 <= c /\ c <= a + 1 /\ c <= Len(predicted)
    BY <2>1, <1>4, <1>5
  <2>3. /\ \A j \in 1 .. a : predicted[j] = drafts[j]
        /\ \A j \in 1 .. c - 1 : predicted[j] \notin Eos
        /\ c < a + 1 => predicted[c] \in Eos
    BY <1>c DEF Accepted, Kept
  <2> QED BY <2>1, <2>2, <2>3
<1>7. s \in Seq(Tokens) /\ Len(s) = c /\ \A j \in 1 .. c : s[j] = predicted[j]
  BY <1>5, <1>6, PrefixFacts
<1> HIDE DEF s
<1>8. /\ text' = text \o s /\ streamed' = streamed \o s
  BY <1>2 DEF s
<1>9. /\ u \in Seq(Tokens) /\ Len(u) = Len(text) + Len(drafts)
      /\ \A j \in 1 .. Len(text) : u[j] = text[j]
      /\ \A j \in 1 .. Len(drafts) : u[Len(text) + j] = drafts[j]
  BY <1>1, <1>4, ConcatFacts
<1>10. /\ text' \in Seq(Tokens) /\ Len(text') = Len(text) + c
       /\ \A j \in 1 .. Len(text) : text'[j] = text[j]
       /\ \A j \in 1 .. c : text'[Len(text) + j] = s[j]
  <2>1. /\ text \o s \in Seq(Tokens) /\ Len(text \o s) = Len(text) + Len(s)
        /\ \A j \in 1 .. Len(text) : (text \o s)[j] = text[j]
        /\ \A j \in 1 .. Len(s) : (text \o s)[Len(text) + j] = s[j]
    <3>1. text \in Seq(Tokens) /\ s \in Seq(Tokens)
      BY <1>1, <1>7
    <3> QED BY <3>1, ConcatFacts
  <2> QED BY <2>1, <1>7, <1>8
<1> HIDE DEF u
<1>11. \A j \in 1 .. Len(text) + c - 1 : text'[j] = u[j]
  <2> SUFFICES ASSUME NEW j \in 1 .. Len(text) + c - 1 PROVE text'[j] = u[j]
    OBVIOUS
  <2>1. CASE j <= Len(text)
    BY <2>1, <1>1, <1>9, <1>10
  <2>2. CASE j > Len(text)
    <3> DEFINE i == j - Len(text)
    <3>1. /\ i \in 1 .. a /\ i \in 1 .. c /\ i \in 1 .. Len(drafts)
          /\ j = Len(text) + i
      BY <2>2, <1>1, <1>4, <1>6
    <3> HIDE DEF i
    <3>2. text'[j] = s[i] /\ s[i] = predicted[i]
      BY <3>1, <1>7, <1>10
    <3>3. predicted[i] = drafts[i] /\ u[j] = drafts[i]
      BY <3>1, <1>6, <1>9
    <3> QED BY <3>2, <3>3
  <2>3. j <= Len(text) \/ j > Len(text)
    BY <1>1, <1>6
  <2> QED BY <2>1, <2>2, <2>3, Zenon
<1>12. Emits(text, plen)
  <2>1. Follows(weights, text, s)
    <3> SUFFICES ASSUME NEW i \in 1 .. Len(s)
                 PROVE  s[i] = Argmax(weights, SubSeq(text \o s, 1, Len(text) + i - 1))
      BY DEF Follows
    <3> DEFINE n == Len(text) + i - 1
    <3>1. i \in 1 .. c /\ i \in 1 .. Len(predicted)
      BY <1>5, <1>6, <1>7
    <3>2. /\ n \in Nat /\ n <= Len(text') /\ n <= Len(u)
          /\ \A j \in 1 .. n : j \in 1 .. Len(text) + c - 1
      <4>1. n \in Nat /\ n <= Len(text) + c - 1
        BY <3>1, <1>1, <1>6
      <4> HIDE DEF n
      <4>2. n <= Len(text') /\ n <= Len(u)
        <5>1. /\ Len(text') = Len(text) + c /\ Len(u) = Len(text) + Len(drafts)
              /\ c \in Nat /\ c <= Len(drafts) + 1
          BY <1>4, <1>6, <1>9, <1>10
        <5> QED BY <5>1, <4>1, <1>1, <1>4
      <4>3. Len(text) + c - 1 \in Int
        BY <1>1, <1>6
      <4>4. ASSUME NEW j \in 1 .. n PROVE j \in 1 .. Len(text) + c - 1
        BY <4>1, <4>3
      <4> QED BY <4>1, <4>2, <4>4
    <3> HIDE DEF n
    <3>3. SubSeq(text', 1, n) = SubSeq(u, 1, n)
      BY <3>2, <1>9, <1>10, <1>11, PrefixEqual
    <3>4. s[i] = Argmax(weights, SubSeq(u, 1, n))
      BY <3>1, <1>5, <1>7 DEF n
    <3> QED BY <3>3, <3>4, <1>8 DEF n
  <2>2. EndsNoEarlier(s)
    BY <1>6, <1>7 DEF EndsNoEarlier
  <2>3. /\ Len(s) >= 1 /\ Len(text) + Len(s) - plen <= MaxLength /\ plen <= Len(text)
    BY <1>1, <1>4, <1>6, <1>7
  <2>4. streamed' = SubSeq(text, plen + 1, Len(text)) \o s
    BY <1>1, <1>8
  <2> QED BY <1>1, <1>2, <1>3, <1>7, <1>8, <2>1, <2>2, <2>3, <2>4, BlockEmits
<1>13. /\ <<>> \in Seq(Tokens) /\ streamed' \in Seq(Tokens)
       /\ hidden' = Len(text') - 2 /\ hidden' \in Nat
       /\ drafts' \in Seq(Tokens) /\ predicted' \in Seq(Tokens) /\ plen' \in Nat
  <2>1. streamed \in Seq(Tokens) /\ hidden \in Nat
    BY <1>0 DEF TypeOK
  <2>2. streamed' \in Seq(Tokens)
    BY <2>1, <1>7, <1>8
  <2>3. hidden' = Len(text') - 2 /\ hidden' \in Nat
    <3>1. Len(text') = Len(text) + c /\ c \in Nat
      BY <1>6, <1>10
    <3>2. hidden' = hidden + c
      BY <1>2
    <3> QED BY <3>1, <3>2, <2>1, <1>1
  <2>4. <<>> \in Seq(Tokens)
    OBVIOUS
  <2> QED BY <2>2, <2>3, <2>4, <1>1, <1>3
<1>14. useSpec' \in BOOLEAN
  BY <1>0, <1>3, Zenon DEF TypeOK
<1>15. CASE pc' = "done"
  <2>1. IInv'
    BY <1>0, <1>2, <1>3, <1>10, <1>13, <1>14, <1>15, EndedInv
  <2> QED BY <2>1, <1>0, <1>3, <1>12
<1>16. CASE pc' = "loop"
  <2>1. TextInv'
    BY <1>1, <1>3, <1>12, <1>13, EmitsTextInv
  <2>2. c = a + 1
    <3>1. ~Finished(text', plen)
      BY <1>2, <1>16
    <3>2. text'[Len(text')] \notin Eos
      BY <3>1 DEF Finished
    <3>3. text'[Len(text')] = predicted[c]
      <4>1. c \in 1 .. c
        BY <1>6
      <4> QED BY <4>1, <1>7, <1>10
    <3> QED BY <3>2, <3>3, <1>6
  <2>3. /\ kv' = kv /\ seen' = seen - (Len(drafts) - a)
        /\ rec' = rec \o SubSeq(Chunk, 1, a + 1)
        /\ mtp' = IF mtp.on THEN CommittedMtp(c) ELSE mtp
    BY <1>2, <1>16
  <2>4. /\ seen' = Len(text') - 1 /\ seen' = Len(text) + c - 1 /\ seen' \in Nat
        /\ seen' <= seen /\ seen' <= Len(kv)
    <3>1. Len(kv) \in Nat
      BY <1>5 DEF Cells
    <3>2. seen' = Len(text) + a
      BY <2>3, <1>1, <1>4, <1>5, <1>6
    <3>3. Len(text') = Len(text) + c
      BY <1>10
    <3> QED BY <3>1, <3>2, <3>3, <2>2, <1>1, <1>4, <1>5, <1>6
  <2>5. \A j \in 1 .. seen' : kv'[j] = text'[j]
    <3>1. \A j \in 1 .. seen' : j \in 1 .. seen /\ j \in 1 .. Len(text) + c - 1
      <4>1. seen \in Nat /\ c \in Nat
        BY <1>1, <1>4, <1>5, <1>6
      <4> QED BY <4>1, <2>4, <1>1
    <3> QED BY <3>1, <2>3, <1>5, <1>11
  <2>6. rec' = SubSeq(text', 1, seen') /\ rec' \in Seq(Tokens)
    <3>1. pre \o SubSeq(Chunk, 1, a + 1) = SubSeq(u, 1, Len(text) + (a + 1) - 1)
      <4>1. Len(text) >= 1 /\ a + 1 \in 1 .. Len(drafts) + 1
        BY <1>1, <1>4, <1>6
      <4> QED BY <4>1, <1>1, <1>4, SeedFacts DEF Chunk, Seed, u
    <3>2. Len(text) + (a + 1) - 1 = seen' /\ seen' <= Len(u) /\ seen' <= Len(text')
      BY <2>2, <2>4, <1>1, <1>4, <1>6, <1>9, <1>10
    <3>3. SubSeq(u, 1, seen') = SubSeq(text', 1, seen')
      BY <2>4, <3>2, <1>9, <1>10, <1>11, PrefixEqual
    <3>4. SubSeq(text', 1, seen') \in Seq(Tokens)
      BY <2>4, <3>2, <1>10, PrefixFacts
    <3>5. rec' = SubSeq(u, 1, seen')
      BY <3>1, <3>2, <2>3, <1>5
    <3> QED BY <3>3, <3>4, <3>5
  <2>7. /\ mtp' \in MtpType
        /\ mtp'.on => /\ mtp.on /\ mtp'.cap = mtp.cap /\ mtp'.len = mtp.start + mtp.first
                      /\ mtp'.pos = hidden + 1 /\ mtp'.width = c
    <3>1. CASE mtp.on
      <4>1. mtp' = CommittedMtp(c)
        BY <2>3, <3>1
      <4>2. /\ mtp.start + mtp.first \in Nat /\ mtp.cap \in Nat /\ mtp.start \in Nat
            /\ mtp.first \in Nat
        BY <1>0 DEF TypeOK, MtpType
      <4>3. hidden + 1 \in Int /\ c \in Nat
        BY <1>1, <1>6
      <4> QED BY <4>1, <4>2, <4>3, <3>1 DEF CommittedMtp, MtpType
    <3>2. CASE ~mtp.on
      <4>1. mtp' = mtp
        BY <2>3, <3>2
      <4> QED BY <4>1, <3>2, <1>0 DEF TypeOK
    <3> QED BY <3>1, <3>2
  <2>8. TypeOK'
    BY <1>0, <1>3, <1>5, <1>10, <1>13, <1>14, <1>16, <2>3, <2>4, <2>6, <2>7 DEF TypeOK
  <2>9. CacheInv'
    BY <1>0, <1>3, <1>5, <1>16, <2>3, <2>4, <2>5, <2>6 DEF CacheInv
  <2>10. ChunkInv'
    BY <1>16 DEF ChunkInv
  <2>11. MtpInv'
    <3> SUFFICES ASSUME mtp'.on PROVE MtpInv'
      BY DEF MtpInv
    <3>1. /\ mtp.on /\ mtp'.cap = mtp.cap /\ mtp'.len = mtp.start + mtp.first
          /\ mtp'.pos = hidden + 1 /\ mtp'.width = c
      BY <2>7
    <3>2. mtp.cap = plen + MaxLength + 1 /\ mtp.start + mtp.first = Len(text) - 1
      BY <1>0, <3>1 DEF MtpInv
    <3>3. mtp'.pos >= 0
      BY <3>1, <1>1
    <3>4. FirstPosition' = hidden + 1 /\ FirstWidth' = c
      BY <3>1, <3>3 DEF FirstPosition, FirstWidth
    <3>5. mtp'.len = FirstPosition' /\ FirstPosition' + FirstWidth' = Len(text') - 1
      BY <3>1, <3>2, <3>4, <1>1, <1>6, <1>10
    <3>6. mtp'.cap = plen' + MaxLength + 1 /\ Active' /\ useSpec'
      BY <3>1, <3>2, <1>0, <1>3, <1>16 DEF Active
    <3> QED BY <3>5, <3>6, <1>16 DEF MtpInv
  <2> QED BY <2>1, <2>8, <2>9, <2>10, <2>11, <1>0, <1>3, <1>12 DEF IInv
<1> QED BY <1>2, <1>15, <1>16

(* An exception releases the caches.                                       *)
LEMMA FailStep ==
  ASSUME IInv, Fail
  PROVE  IInv'
<1>1. /\ pc' = "failed" /\ ReleaseCaches /\ TypeOK
      /\ drafts' = <<>> /\ predicted' = <<>>
      /\ weights' = weights /\ useSpec' = useSpec /\ plen' = plen /\ text' = text
      /\ streamed' = streamed /\ hidden' = hidden
  BY DEF Fail, IInv
<1>2. useSpec' \in BOOLEAN
  BY <1>1, Zenon DEF TypeOK
<1>3. /\ plen' \in Nat /\ text' \in Seq(Tokens) /\ streamed' \in Seq(Tokens)
      /\ hidden' \in Nat /\ drafts' \in Seq(Tokens) /\ predicted' \in Seq(Tokens)
  BY <1>1 DEF TypeOK
<1> QED BY <1>1, <1>2, <1>3, EndedInv

------------------------------------------------------------------------------
(* The theorems.                                                           *)

(* Every step keeps the inductive invariant.                               *)
LEMMA StepInv == IInv /\ [Next]_vars => IInv'
<1> SUFFICES ASSUME IInv, [Next]_vars PROVE IInv'
  OBVIOUS
<1>1. CASE Prefill
  BY <1>1, PrefillStep
<1>2. CASE DecodeOne
  BY <1>2, DecodeOneStep
<1>3. CASE Draft
  BY <1>3, DraftStep
<1>4. CASE Verify
  BY <1>4, VerifyStep
<1>5. CASE Commit
  BY <1>5, CommitStep
<1>6. CASE Fail
  BY <1>6, FailStep
<1>7. CASE UNCHANGED vars
  BY <1>7 DEF vars, IInv, TypeOK, TextInv, CacheInv, ChunkInv, MtpInv, Active, Remaining,
     FirstPosition, FirstWidth
<1> QED BY <1>1, <1>2, <1>3, <1>4, <1>5, <1>6, <1>7 DEF Next

(* The inductive invariant holds in every reachable state.                 *)
THEOREM Invariant == Spec => []IInv
BY InitInv, StepInv, PTL DEF Spec

(* Type correctness.                                                       *)
THEOREM TypeCorrect == Spec => []TypeOK
<1>1. IInv => TypeOK
  BY DEF IInv
<1> QED BY <1>1, Invariant, PTL

(* Before every pass the attention cache and the recurrent state describe  *)
(* the text up to its last token, whatever was drafted, rejected and       *)
(* rewound before.                                                         *)
THEOREM CachesCorrect == Spec => []CachesDescribeText
<1>1. IInv => CachesDescribeText
  <2> SUFFICES ASSUME IInv, pc = "loop"
               PROVE  SubSeq(kv, 1, seen) = Consumed /\ rec = Consumed
    BY DEF CachesDescribeText
  <2>1. text \in Seq(Tokens) /\ Len(text) \in Nat /\ plen \in Nat /\ plen < Len(text)
    BY ActiveFacts DEF Active
  <2>2. /\ seen = Len(text) - 1 /\ seen <= Len(kv) /\ kv \in Cells
        /\ \A j \in 1 .. seen : kv[j] = text[j]
        /\ rec = SubSeq(text, 1, seen)
    BY DEF IInv, TypeOK, CacheInv
  <2>3. seen \in Nat /\ seen <= Len(text)
    BY <2>1, <2>2
  <2>4. SubSeq(kv, 1, seen) = SubSeq(text, 1, seen)
    BY <2>1, <2>2, <2>3, PrefixEqual DEF Cells
  <2> QED BY <2>2, <2>4 DEF Consumed
<1> QED BY <1>1, Invariant, PTL

(* No pass writes outside the attention cache or the MTP cache.            *)
THEOREM WritesInside == Spec => []WritesStayInside
<1>1. IInv => WritesStayInside
  <2> SUFFICES ASSUME IInv PROVE WritesStayInside
    OBVIOUS
  <2>1. Active => seen <= Len(kv)
    BY DEF IInv, CacheInv, ChunkInv, Active
  <2>2. ASSUME pc = "drafted", mtp.on
        PROVE  mtp.start + mtp.first + Len(drafts) - 1 <= mtp.cap
    <3>1. /\ Len(text) \in Nat /\ plen \in Nat /\ MaxLength \in Nat
          /\ plen < Len(text) /\ Len(text) - plen < MaxLength
      BY <2>2, ActiveFacts DEF Active
    <3>2. mtp.cap = plen + MaxLength + 1 /\ mtp.start + mtp.first = Len(text) - 1
      BY <2>2 DEF IInv, MtpInv
    <3>3. Len(drafts) \in Nat /\ Len(drafts) <= MaxLength - (Len(text) - plen) - 1
      <4>1. drafts \in Seq(Tokens) /\ Len(drafts) \in 1 .. Remaining - 1
        BY <2>2 DEF IInv, TypeOK, ChunkInv
      <4>2. Len(drafts) \in Nat
        BY <4>1
      <4> QED BY <4>1, <4>2, <3>1 DEF Remaining
    <3> QED BY <3>1, <3>2, <3>3
  <2> QED BY <2>1, <2>2 DEF WritesStayInside
<1> QED BY <1>1, Invariant, PTL

(* The MTP head never meets a prefix length that does not match, and its   *)
(* next block ends where the hidden state was taken.                       *)
THEOREM MtpCorrect == Spec => []MtpInStep
<1>1. IInv => MtpInStep
  BY DEF IInv, MtpInStep, MtpInv, CacheInv
<1> QED BY <1>1, Invariant, PTL

(* What a step emits is a step of greedy decoding.                         *)
LEMMA EmitsIsGreedy ==
  ASSUME NEW old, NEW p, Emits(old, p)
  PROVE  Greedy!Emit(old, p)
<1>1. /\ text' \in Seq(Tokens)
      /\ Greedy!Extends(text', old)
      /\ Greedy!IsGreedy(weights, text', p)
      /\ streamed' = Greedy!Output(text', p)
  BY DEF Emits, Greedy!Extends, Greedy!IsGreedy, Greedy!Output, Greedy!Generated
<1>2. (IF Active THEN "running" ELSE pc)' =
        IF Greedy!Complete(text', p) THEN "done" ELSE "running"
  <2>1. Finished(text', p) <=> Greedy!Complete(text', p)
    BY DEF Finished, Greedy!Complete, Greedy!Generated
  <2>2. pc' = IF Finished(text', p) THEN "done" ELSE "loop"
    BY DEF Emits
  <2> QED BY <2>1, <2>2 DEF Active
<1> QED BY <1>1, <1>2 DEF Greedy!Emit

(* Speculative decoding implements greedy decoding: drafting and verifying *)
(* are invisible, and everything else is a step of GreedyDecoding.         *)
THEOREM Refinement == Spec => ImplementsGreedy
<1>1. Init => Greedy!Init
  BY DEF Init, Greedy!Init, Active
<1>2. IInv /\ [Next]_vars => [Greedy!Next]_(Greedy!vars)
  <2> SUFFICES ASSUME IInv, [Next]_vars PROVE [Greedy!Next]_(Greedy!vars)
    OBVIOUS
  <2> DEFINE status == IF Active THEN "running" ELSE pc
  <2>1. CASE Prefill
    <3>1. status # "running"
      BY <2>1 DEF Prefill, IInv, TypeOK
    <3>2. PICK p \in Prompts : plen' = Len(p) /\ Emits(p, Len(p))
      BY <2>1, PrefillStep
    <3>3. Greedy!Emit(p, Len(p))
      BY <3>2, EmitsIsGreedy
    <3>4. weights' = weights
      BY <2>1 DEF Prefill
    <3> QED BY <3>1, <3>2, <3>3, <3>4 DEF Greedy!Next, Greedy!Start
  <2>2. ASSUME Active, UNCHANGED plen, Emits(text, plen)
        PROVE  Greedy!Next
    <3>1. Greedy!Emit(text, plen)
      BY <2>2, EmitsIsGreedy
    <3>2. weights' = weights
      BY <2>2 DEF Emits
    <3> QED BY <2>2, <3>1, <3>2 DEF Greedy!Next, Greedy!Continue
  <2>3. CASE DecodeOne
    BY <2>2, <2>3, DecodeOneStep
  <2>4. CASE Commit
    BY <2>2, <2>4, CommitStep
  <2>5. CASE Draft
    BY <2>5 DEF Draft, Greedy!vars, Active
  <2>6. CASE Verify
    BY <2>6 DEF Verify, Greedy!vars, Active
  <2>7. CASE Fail
    BY <2>7 DEF Fail, Greedy!Next, Greedy!Fail, Active
  <2>8. CASE UNCHANGED vars
    BY <2>8 DEF vars, Greedy!vars, Active
  <2> QED BY <2>1, <2>3, <2>4, <2>5, <2>6, <2>7, <2>8 DEF Next
<1> QED BY <1>1, <1>2, Invariant, PTL DEF Spec, ImplementsGreedy, Greedy!Spec
==============================================================================
