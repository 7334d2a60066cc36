--------------------------- MODULE Filtering_proofs ---------------------------
(***************************************************************************)
(* What Kept returns, for any sequence and any set, and what FlattenSeq    *)
(* joins.  Both are defined by recursion, so these proofs need induction;  *)
(* it is taken from the fact that < is well-founded on Nat, in the form of *)
(* the least number of a set.                                              *)
(***************************************************************************)
EXTENDS Filtering, SequencesExt, WellFoundedInduction, TLAPS

Below == {p \in Nat \X Nat : p[1] < p[2]}

(* Every set of naturals that is not empty has a least element.            *)
LEMMA LeastNumber ==
  ASSUME NEW T \in SUBSET Nat, T # {}
  PROVE  \E n \in T : \A k \in T : n <= k
<1>1. Below = OpToRel(<, Nat)
  BY DEF Below, OpToRel
<1>2. IsWellFoundedOn(Below, Nat)
  BY <1>1, NatLessThanWellFounded
<1>3. PICK n \in T : \A k \in T : ~ <<k, n>> \in Below
  BY <1>2, WFMin
<1>4. ASSUME NEW k \in T, k < n PROVE FALSE
  <2>1. <<k, n>> \in Below
    BY <1>4 DEF Below
  <2>2. QED  BY <2>1, <1>3
<1>5. QED  BY <1>4

(* A set with 0 in it that is closed under +1 holds every natural.         *)
LEMMA Induction ==
  ASSUME NEW P \in SUBSET Nat, 0 \in P, \A n \in P : n + 1 \in P
  PROVE  P = Nat
<1> SUFFICES ASSUME Nat \ P # {} PROVE FALSE
  OBVIOUS
<1>1. PICK n \in Nat \ P : \A k \in Nat \ P : n <= k
  BY LeastNumber
<1>2. n - 1 \in P
  BY <1>1
<1>3. QED  BY <1>2

------------------------------------------------------------------------------
(* One step of the recursion, and a function that follows it up to n.      *)
StepOf(s, S, before, n) == IF s[n] \in S THEN Append(before, s[n]) ELSE before
Follows(f, s, S, n) ==
    f = [i \in 0 .. n |-> IF i = 0 THEN <<>>
                          ELSE IF s[i] \in S THEN Append(f[i - 1], s[i])
                                             ELSE f[i - 1]]

(* The recursion of Kept has a solution of every length.                   *)
LEMMA SolutionExists ==
  ASSUME NEW s, NEW S, NEW n \in Nat
  PROVE  \E f : Follows(f, s, S, n)
<1> DEFINE P == {k \in Nat : \E f : Follows(f, s, S, k)}
<1>1. 0 \in P
  <2>1. Follows([i \in 0 .. 0 |-> <<>>], s, S, 0)
    BY DEF Follows
  <2>2. QED  BY <2>1
<1>2. ASSUME NEW k \in P PROVE k + 1 \in P
  <2>1. PICK f : Follows(f, s, S, k)
    OBVIOUS
  <2> DEFINE g == [i \in 0 .. k + 1 |-> IF i <= k THEN f[i]
                                        ELSE StepOf(s, S, f[k], k + 1)]
  <2>2. ASSUME NEW i \in 0 .. k + 1
        PROVE  g[i] = IF i = 0 THEN <<>>
                      ELSE IF s[i] \in S THEN Append(g[i - 1], s[i]) ELSE g[i - 1]
    <3>1. CASE i <= k
      <4> i \in 0 .. k
        BY <3>1
      <4>1. g[i] = f[i] /\ (i # 0 => g[i - 1] = f[i - 1])
        BY <3>1
      <4>2. f[i] = IF i = 0 THEN <<>>
                   ELSE IF s[i] \in S THEN Append(f[i - 1], s[i]) ELSE f[i - 1]
        <5> DEFINE h == f
        <5>1. h = [j \in 0 .. k |-> IF j = 0 THEN <<>>
                                    ELSE IF s[j] \in S THEN Append(f[j - 1], s[j])
                                                       ELSE f[j - 1]]
          BY <2>1 DEF Follows
        <5> HIDE DEF h
        <5>2. h[i] = IF i = 0 THEN <<>>
                     ELSE IF s[i] \in S THEN Append(f[i - 1], s[i]) ELSE f[i - 1]
          BY <5>1
        <5>3. QED  BY <5>2 DEF h
      <4>3. QED  BY <4>1, <4>2
    <3>2. CASE i = k + 1
      BY <3>2 DEF StepOf
    <3>3. QED  BY <3>1, <3>2
  <2>3. Follows(g, s, S, k + 1)
    BY <2>2 DEF Follows
  <2>4. QED  BY <2>3
<1> HIDE DEF P
<1>3. P = Nat
  BY <1>1, <1>2, Induction DEF P
<1>4. QED  BY <1>3 DEF P

(* Kept is where a function that follows the recursion ends.               *)
LEMMA KeptFollows ==
  ASSUME NEW s, NEW S, Len(s) \in Nat
  PROVE  \E f : Follows(f, s, S, Len(s)) /\ Kept(s, S) = f[Len(s)]
<1> DEFINE f == CHOOSE h : Follows(h, s, S, Len(s))
<1>1. Follows(f, s, S, Len(s))
  BY SolutionExists
<1>2. Kept(s, S) = f[Len(s)]
  BY DEF Kept, Follows
<1>3. QED  BY <1>1, <1>2

(* What Kept returns are elements of the sequence that belong to the set,   *)
(* all of them, and in their order: place says where each one was.          *)
IsPlacement(place, s, r, S, m, n) ==
    /\ place \in [1 .. m -> 1 .. n]
    /\ \A i \in 1 .. m : r[i] = s[place[i]] /\ s[place[i]] \in S
    /\ \A i, j \in 1 .. m : i < j => place[i] < place[j]
    /\ \A k \in 1 .. n : s[k] \in S => \E i \in 1 .. m : place[i] = k

LEMMA KeptPlaces ==
  ASSUME NEW T, NEW s \in Seq(T), NEW S
  PROVE  /\ Kept(s, S) \in Seq(T)
         /\ \E place : IsPlacement(place, s, Kept(s, S), S, Len(Kept(s, S)), Len(s))
<1> Len(s) \in Nat
  OBVIOUS
<1>1. PICK f : Follows(f, s, S, Len(s)) /\ Kept(s, S) = f[Len(s)]
  BY KeptFollows
<1> DEFINE Good(n) == /\ f[n] \in Seq(T)
                      /\ \E place : IsPlacement(place, s, f[n], S, Len(f[n]), n)
           P == {n \in Nat : n <= Len(s) => Good(n)}
<1>2. /\ f[0] = <<>>
      /\ \A n \in 1 .. Len(s) :
           f[n] = IF s[n] \in S THEN Append(f[n - 1], s[n]) ELSE f[n - 1]
  <2> DEFINE h == f
  <2>1. h = [n \in 0 .. Len(s) |-> IF n = 0 THEN <<>>
               ELSE IF s[n] \in S THEN Append(f[n - 1], s[n]) ELSE f[n - 1]]
    BY <1>1 DEF Follows
  <2> HIDE DEF h
  <2>2. h[0] = <<>>
    BY <2>1
  <2>3. \A n \in 1 .. Len(s) :
          h[n] = IF s[n] \in S THEN Append(f[n - 1], s[n]) ELSE f[n - 1]
    BY <2>1
  <2>4. QED  BY <2>2, <2>3 DEF h
<1>3. 0 \in P
  <2>1. IsPlacement(<<>>, s, <<>>, S, 0, 0)
    BY DEF IsPlacement
  <2>2. Len(f[0]) = 0 /\ f[0] = <<>>
    BY <1>2
  <2>3. Good(0)
    BY <2>1, <2>2
  <2>4. QED  BY <2>3
<1>4. ASSUME NEW n \in P, n + 1 <= Len(s) PROVE Good(n + 1)
  <2>1. f[n] \in Seq(T) /\ n \in Nat /\ s[n + 1] \in T
    BY <1>4
  <2>2. PICK place : IsPlacement(place, s, f[n], S, Len(f[n]), n)
    BY <1>4
  <2>3. CASE s[n + 1] \notin S
    <3>1. f[n + 1] = f[n]
      BY <1>2, <1>4, <2>1, <2>3
    <3>2. IsPlacement(place, s, f[n], S, Len(f[n]), n + 1)
      BY <2>1, <2>2, <2>3 DEF IsPlacement
    <3>3. QED  BY <3>1, <3>2, <2>1
  <2>4. CASE s[n + 1] \in S
    <3> DEFINE m == Len(f[n])
               q == [i \in 1 .. m + 1 |-> IF i <= m THEN place[i] ELSE n + 1]
    <3>1. f[n + 1] = Append(f[n], s[n + 1])
      <4>1. n + 1 \in 1 .. Len(s) /\ (n + 1) - 1 = n
        BY <1>4, <2>1
      <4>2. QED  BY <4>1, <1>2, <2>4
    <3>2. /\ m \in Nat /\ f[n + 1] \in Seq(T) /\ Len(f[n + 1]) = m + 1
          /\ \A i \in 1 .. m : f[n + 1][i] = f[n][i]
          /\ f[n + 1][m + 1] = s[n + 1]
      BY <2>1, <3>1
    <3> HIDE DEF m
    <3>3. place \in [1 .. m -> 1 .. n]
      BY <2>2 DEF IsPlacement, m
    <3>4. q \in [1 .. m + 1 -> 1 .. n + 1]
      BY <3>2, <3>3, <2>1
    <3>5. \A i \in 1 .. m + 1 : f[n + 1][i] = s[q[i]] /\ s[q[i]] \in S
      BY <3>2, <3>3, <2>2, <2>4 DEF IsPlacement, m
    <3>6. ASSUME NEW i \in 1 .. m + 1, NEW j \in 1 .. m + 1, i < j
          PROVE  q[i] < q[j]
      <4>1. i \in 1 .. m /\ q[i] = place[i] /\ place[i] \in 1 .. n
        BY <3>6, <3>2, <3>3
      <4>2. CASE j = m + 1
        BY <4>1, <4>2, <3>2, <2>1
      <4>3. CASE j # m + 1
        BY <4>1, <4>3, <3>6, <3>2, <2>2 DEF IsPlacement, m
      <4>4. QED  BY <4>2, <4>3
    <3>7. \A k \in 1 .. n + 1 : s[k] \in S => \E i \in 1 .. m + 1 : q[i] = k
      <4> SUFFICES ASSUME NEW k \in 1 .. n + 1, s[k] \in S
                   PROVE  \E i \in 1 .. m + 1 : q[i] = k
        OBVIOUS
      <4>1. CASE k = n + 1
        <5>1. q[m + 1] = k /\ m + 1 \in 1 .. m + 1
          BY <4>1, <3>2
        <5>2. QED  BY <5>1
      <4>2. CASE k # n + 1
        <5>1. PICK i \in 1 .. m : place[i] = k
          BY <4>2, <2>1, <2>2 DEF IsPlacement, m
        <5>2. q[i] = k /\ i \in 1 .. m + 1
          BY <5>1, <3>2
        <5>3. QED  BY <5>2
      <4>3. QED  BY <4>1, <4>2
    <3>8. IsPlacement(q, s, f[n + 1], S, m + 1, n + 1)
      BY <3>4, <3>5, <3>6, <3>7 DEF IsPlacement
    <3>9. QED  BY <3>2, <3>8
  <2>5. QED  BY <2>3, <2>4
<1>5. ASSUME NEW n \in P PROVE n + 1 \in P
  <2>1. n + 1 \in Nat
    OBVIOUS
  <2>2. CASE n + 1 <= Len(s)
    <3>1. Good(n + 1)
      BY <2>2, <1>4
    <3> HIDE DEF Good
    <3>2. QED  BY <3>1, <2>1
  <2>3. CASE ~ (n + 1 <= Len(s))
    <3> HIDE DEF Good
    <3>1. QED  BY <2>1, <2>3
  <2>4. QED  BY <2>2, <2>3
<1> HIDE DEF P
<1>6. P = Nat
  BY <1>3, <1>5, Induction DEF P
<1>7. Good(Len(s))
  BY <1>6 DEF P
<1>8. QED  BY <1>1, <1>7

(* The elements of what is kept.                                           *)
LEMMA KeptElements ==
  ASSUME NEW T, NEW s \in Seq(T), NEW S
  PROVE  /\ Kept(s, S) \in Seq(T)
         /\ ToSet(Kept(s, S)) = ToSet(s) \cap S
<1>1. PICK place : IsPlacement(place, s, Kept(s, S), S, Len(Kept(s, S)), Len(s))
  BY KeptPlaces
<1>2. Kept(s, S) \in Seq(T)
  BY KeptPlaces
<1>3. \A x \in ToSet(Kept(s, S)) : x \in ToSet(s) \cap S
  BY <1>1, <1>2 DEF IsPlacement, ToSet
<1>4. \A x \in ToSet(s) \cap S : x \in ToSet(Kept(s, S))
  BY <1>1, <1>2 DEF IsPlacement, ToSet
<1>5. QED  BY <1>2, <1>3, <1>4

(* Only what S says of the elements of the sequence matters.               *)
LEMMA KeptAgree ==
  ASSUME NEW T, NEW s \in Seq(T), NEW S, NEW R,
         \A x \in ToSet(s) : x \in S <=> x \in R
  PROVE  Kept(s, S) = Kept(s, R)
<1> Len(s) \in Nat
  OBVIOUS
<1>1. PICK f : Follows(f, s, S, Len(s)) /\ Kept(s, S) = f[Len(s)]
  BY KeptFollows
<1>2. PICK g : Follows(g, s, R, Len(s)) /\ Kept(s, R) = g[Len(s)]
  BY KeptFollows
<1>3. ASSUME NEW h, NEW Q, Follows(h, s, Q, Len(s))
      PROVE  /\ h[0] = <<>>
             /\ \A n \in 1 .. Len(s) : h[n] = IF s[n] \in Q THEN Append(h[n - 1], s[n])
                                                            ELSE h[n - 1]
  <2> DEFINE k == h
  <2>1. k = [n \in 0 .. Len(s) |-> IF n = 0 THEN <<>>
               ELSE IF s[n] \in Q THEN Append(h[n - 1], s[n]) ELSE h[n - 1]]
    BY <1>3 DEF Follows
  <2> HIDE DEF k
  <2>2. k[0] = <<>>
    BY <2>1
  <2>3. \A n \in 1 .. Len(s) : k[n] = IF s[n] \in Q THEN Append(h[n - 1], s[n]) ELSE h[n - 1]
    BY <2>1
  <2>4. QED  BY <2>2, <2>3 DEF k
<1> DEFINE P == {n \in Nat : n <= Len(s) => f[n] = g[n]}
<1>4. 0 \in P
  BY <1>1, <1>2, <1>3
<1>5. ASSUME NEW n \in P PROVE n + 1 \in P
  <2> SUFFICES ASSUME n + 1 <= Len(s) PROVE f[n + 1] = g[n + 1]
    OBVIOUS
  <2>1. n + 1 \in 1 .. Len(s) /\ (n + 1) - 1 = n /\ f[n] = g[n]
    OBVIOUS
  <2>2. s[n + 1] \in S <=> s[n + 1] \in R
    BY <2>1 DEF ToSet
  <2>3. f[n + 1] = IF s[n + 1] \in S THEN Append(f[n], s[n + 1]) ELSE f[n]
    BY <1>1, <1>3, <2>1
  <2>4. g[n + 1] = IF s[n + 1] \in R THEN Append(g[n], s[n + 1]) ELSE g[n]
    BY <1>2, <1>3, <2>1
  <2>5. QED  BY <2>1, <2>2, <2>3, <2>4
<1> HIDE DEF P
<1>6. P = Nat
  BY <1>4, <1>5, Induction DEF P
<1>7. QED  BY <1>1, <1>2, <1>6 DEF P

------------------------------------------------------------------------------
(* FlattenSeq joins its parts: another recursion, and the function that     *)
(* follows it up to part n.                                                *)
Joins(f, s, n) == f = [i \in 1 .. n |-> IF i = 1 THEN s[i] ELSE f[i - 1] \o s[i]]

LEMMA JoinExists ==
  ASSUME NEW s, NEW n \in Nat
  PROVE  \E f : Joins(f, s, n)
<1> DEFINE P == {k \in Nat : \E f : Joins(f, s, k)}
<1>1. 0 \in P
  <2>1. Joins([i \in 1 .. 0 |-> <<>>], s, 0)
    BY DEF Joins
  <2>2. QED  BY <2>1
<1>2. ASSUME NEW k \in P PROVE k + 1 \in P
  <2>1. PICK f : Joins(f, s, k)
    OBVIOUS
  <2> DEFINE g == [i \in 1 .. k + 1 |-> IF i <= k THEN f[i]
                                        ELSE IF i = 1 THEN s[i] ELSE f[k] \o s[i]]
  <2>2. ASSUME NEW i \in 1 .. k + 1
        PROVE  g[i] = IF i = 1 THEN s[i] ELSE g[i - 1] \o s[i]
    <3>1. CASE i <= k
      <4>1. g[i] = f[i] /\ (i # 1 => g[i - 1] = f[i - 1])
        BY <3>1
      <4>2. f[i] = IF i = 1 THEN s[i] ELSE f[i - 1] \o s[i]
        <5> DEFINE h == f
        <5>1. h = [j \in 1 .. k |-> IF j = 1 THEN s[j] ELSE f[j - 1] \o s[j]]
          BY <2>1 DEF Joins
        <5> HIDE DEF h
        <5>2. h[i] = IF i = 1 THEN s[i] ELSE f[i - 1] \o s[i]
          BY <3>1, <5>1
        <5>3. QED  BY <5>2 DEF h
      <4>3. QED  BY <4>1, <4>2
    <3>2. CASE i = k + 1
      <4>1. g[i] = IF i = 1 THEN s[i] ELSE f[k] \o s[i]
        BY <3>2
      <4>2. i # 1 => g[i - 1] = f[k]
        BY <3>2
      <4>3. QED  BY <4>1, <4>2
    <3>3. QED  BY <3>1, <3>2
  <2>3. Joins(g, s, k + 1)
    BY <2>2 DEF Joins
  <2>4. QED  BY <2>3
<1> HIDE DEF P
<1>3. P = Nat
  BY <1>1, <1>2, Induction DEF P
<1>4. QED  BY <1>3 DEF P

LEMMA JoinFollows ==
  ASSUME NEW s, Len(s) \in Nat \ {0}
  PROVE  \E f : /\ \A i \in 1 .. Len(s) : f[i] = IF i = 1 THEN s[i] ELSE f[i - 1] \o s[i]
                /\ FlattenSeq(s) = f[Len(s)]
<1> DEFINE f == CHOOSE h : Joins(h, s, Len(s))
<1>1. Joins(f, s, Len(s))
  BY JoinExists
<1>2. FlattenSeq(s) = f[Len(s)]
  BY DEF FlattenSeq, Joins
<1> HIDE DEF f
<1> DEFINE h == f
<1>3. h = [i \in 1 .. Len(s) |-> IF i = 1 THEN s[i] ELSE f[i - 1] \o s[i]]
  BY <1>1 DEF Joins
<1> HIDE DEF h
<1>4. \A i \in 1 .. Len(s) : h[i] = IF i = 1 THEN s[i] ELSE f[i - 1] \o s[i]
  BY <1>3
<1>5. QED  BY <1>2, <1>4 DEF h

LEMMA ConcatFacts ==
  ASSUME NEW T, NEW a \in Seq(T), NEW b \in Seq(T)
  PROVE  /\ Len(a) \in Nat /\ Len(b) \in Nat
         /\ a \o b \in Seq(T) /\ Len(a \o b) = Len(a) + Len(b)
         /\ \A p \in 1 .. Len(a) : (a \o b)[p] = a[p]
         /\ \A p \in Len(a) + 1 .. Len(a) + Len(b) : (a \o b)[p] = b[p - Len(a)]
OBVIOUS

(* Place p of r, which joins the first m parts of s, holds element off[p]   *)
(* of part[p]: parts in their order, each in its own, and nothing left out. *)
IsLayout(part, off, r, s, m) ==
    /\ part \in [1 .. Len(r) -> 1 .. m] /\ off \in [1 .. Len(r) -> Nat]
    /\ \A p \in 1 .. Len(r) : /\ off[p] \in 1 .. Len(s[part[p]])
                              /\ r[p] = s[part[p]][off[p]]
    /\ \A p, q \in 1 .. Len(r) :
         p < q => part[p] < part[q] \/ (part[p] = part[q] /\ off[p] < off[q])
    /\ \A i \in 1 .. m : \A k \in 1 .. Len(s[i]) :
         \E p \in 1 .. Len(r) : part[p] = i /\ off[p] = k

LEMMA JoinPlaces ==
  ASSUME NEW T, NEW s \in Seq(Seq(T)), Len(s) # 0
  PROVE  /\ FlattenSeq(s) \in Seq(T)
         /\ \E part, off : IsLayout(part, off, FlattenSeq(s), s, Len(s))
<1>1. Len(s) \in Nat \ {0} /\ \A i \in 1 .. Len(s) : s[i] \in Seq(T)
  OBVIOUS
<1>2. PICK f : /\ \A i \in 1 .. Len(s) : f[i] = IF i = 1 THEN s[i] ELSE f[i - 1] \o s[i]
               /\ FlattenSeq(s) = f[Len(s)]
  BY <1>1, JoinFollows
<1> DEFINE Good(n) == f[n] \in Seq(T) /\ \E part, off : IsLayout(part, off, f[n], s, n)
           P == {n \in Nat : 1 <= n /\ n <= Len(s) => Good(n)}
<1>3. 0 \in P
  OBVIOUS
<1>4. ASSUME 1 <= Len(s) PROVE Good(1)
  <2>1. f[1] = s[1] /\ s[1] \in Seq(T)
    BY <1>1, <1>2
  <2> DEFINE part == [p \in 1 .. Len(s[1]) |-> 1]
             off == [p \in 1 .. Len(s[1]) |-> p]
  <2>2. IsLayout(part, off, s[1], s, 1)
    BY <2>1 DEF IsLayout
  <2>3. QED  BY <2>1, <2>2
<1>5. ASSUME NEW n \in Nat \ {0}, n + 1 <= Len(s), Good(n) PROVE Good(n + 1)
  <2>1. f[n + 1] = f[n] \o s[n + 1] /\ f[n] \in Seq(T) /\ s[n + 1] \in Seq(T)
    <3>1. n + 1 \in 1 .. Len(s) /\ n + 1 # 1 /\ (n + 1) - 1 = n
      BY <1>1, <1>5
    <3>2. f[n + 1] = f[n] \o s[n + 1]
      BY <1>2, <3>1
    <3>3. QED  BY <1>1, <1>5, <3>1, <3>2
  <2>2. PICK part, off : IsLayout(part, off, f[n], s, n)
    BY <1>5
  <2> DEFINE m == Len(f[n])
             l == Len(s[n + 1])
             r == f[n + 1]
             x == [p \in 1 .. m + l |-> IF p <= m THEN part[p] ELSE n + 1]
             y == [p \in 1 .. m + l |-> IF p <= m THEN off[p] ELSE p - m]
  <2>3. /\ m \in Nat /\ l \in Nat /\ r \in Seq(T) /\ Len(r) = m + l
        /\ \A p \in 1 .. m : r[p] = f[n][p]
        /\ \A p \in m + 1 .. m + l : r[p] = s[n + 1][p - m]
    <3>1. r = f[n] \o s[n + 1]
      BY <2>1
    <3> DEFINE a == f[n]
               b == s[n + 1]
    <3>2. a \in Seq(T) /\ b \in Seq(T)
      BY <2>1
    <3> HIDE DEF a, b
    <3>3. /\ Len(a) \in Nat /\ Len(b) \in Nat
          /\ a \o b \in Seq(T) /\ Len(a \o b) = Len(a) + Len(b)
          /\ \A p \in 1 .. Len(a) : (a \o b)[p] = a[p]
          /\ \A p \in Len(a) + 1 .. Len(a) + Len(b) : (a \o b)[p] = b[p - Len(a)]
      BY <3>2, ConcatFacts
    <3>4. r = a \o b /\ m = Len(a) /\ l = Len(b)
      BY <3>1 DEF a, b
    <3> HIDE DEF r, m, l
    <3>5. QED  BY <3>3, <3>4 DEF a, b
  <2>4. /\ part \in [1 .. m -> 1 .. n] /\ off \in [1 .. m -> Nat]
        /\ \A p \in 1 .. m : off[p] \in 1 .. Len(s[part[p]]) /\ f[n][p] = s[part[p]][off[p]]
        /\ \A p, q \in 1 .. m :
             p < q => part[p] < part[q] \/ (part[p] = part[q] /\ off[p] < off[q])
        /\ \A i \in 1 .. n : \A k \in 1 .. Len(s[i]) :
             \E p \in 1 .. m : part[p] = i /\ off[p] = k
    BY <2>2 DEF IsLayout
  <2> HIDE DEF m, l, r
  <2>5. x \in [1 .. m + l -> 1 .. n + 1] /\ y \in [1 .. m + l -> Nat]
    BY <2>3, <2>4
  <2>6. ASSUME NEW p \in 1 .. m + l
        PROVE  y[p] \in 1 .. Len(s[x[p]]) /\ r[p] = s[x[p]][y[p]]
    <3>1. CASE p <= m
      BY <2>3, <2>4, <3>1
    <3>2. CASE ~(p <= m)
      BY <2>3, <3>2 DEF l
    <3>3. QED  BY <3>1, <3>2
  <2>7. ASSUME NEW p \in 1 .. m + l, NEW q \in 1 .. m + l, p < q
        PROVE  x[p] < x[q] \/ (x[p] = x[q] /\ y[p] < y[q])
    BY <2>3, <2>4, <2>7
  <2>8. ASSUME NEW i \in 1 .. n + 1, NEW k \in 1 .. Len(s[i])
        PROVE  \E p \in 1 .. m + l : x[p] = i /\ y[p] = k
    <3>1. CASE i = n + 1
      <4>1. k + m \in 1 .. m + l /\ x[k + m] = i /\ y[k + m] = k
        BY <2>3, <3>1 DEF l
      <4>2. QED  BY <4>1
    <3>2. CASE i # n + 1
      <4>1. PICK p \in 1 .. m : part[p] = i /\ off[p] = k
        BY <2>4, <3>2
      <4>2. p \in 1 .. m + l /\ x[p] = i /\ y[p] = k
        BY <2>3, <4>1
      <4>3. QED  BY <4>2
    <3>3. QED  BY <3>1, <3>2
  <2>9. IsLayout(x, y, r, s, n + 1)
    <3> HIDE DEF x, y
    <3>1. QED  BY <2>3, <2>5, <2>6, <2>7, <2>8 DEF IsLayout
  <2>10. QED  BY <2>3, <2>9 DEF r
<1> HIDE DEF Good
<1>6. ASSUME NEW n \in P PROVE n + 1 \in P
  <2>1. CASE n = 0
    BY <1>4, <2>1
  <2>2. CASE n # 0
    BY <1>5, <2>2
  <2>3. QED  BY <2>1, <2>2
<1> HIDE DEF P
<1>7. P = Nat
  BY <1>3, <1>6, Induction DEF P
<1>8. Good(Len(s))
  BY <1>1, <1>7 DEF P
<1>9. QED  BY <1>2, <1>8 DEF Good

(* Joined is FlattenSeq.                                                    *)
LEMMA JoinedPlaces ==
  ASSUME NEW T, NEW s \in Seq(Seq(T)), Len(s) # 0
  PROVE  /\ Joined(s) \in Seq(T)
         /\ \E part, off : IsLayout(part, off, Joined(s), s, Len(s))
<1>1. Joined(s) = FlattenSeq(s)
  BY DEF Joined, FlattenSeq
<1>2. QED  BY <1>1, JoinPlaces
=============================================================================
