--------------------------- MODULE Streaming_proofs ---------------------------
(***************************************************************************)
(* Proofs about Streaming for any number of streams, any vocabulary, any   *)
(* length and any tokenizer.                                               *)
(***************************************************************************)
EXTENDS Streaming, TLAPS

(* A tokenizer makes a text of any list of ids.                            *)
Decodes == \A a \in Seq(Tokens) : Decode(a) \in Seq(Chars)

------------------------------------------------------------------------------
(* Sequences.                                                              *)

(* Appending adds one element behind the others.                           *)
LEMMA AppendFacts ==
  ASSUME NEW S, NEW q \in Seq(S), NEW x \in S
  PROVE  /\ Append(q, x) \in Seq(S)
         /\ Len(Append(q, x)) = Len(q) + 1
         /\ \A i \in 1 .. Len(q) : Append(q, x)[i] = q[i]
         /\ Append(q, x)[Len(q) + 1] = x
OBVIOUS

(* Taking the first element moves the others up.                           *)
LEMMA TailFacts ==
  ASSUME NEW S, NEW q \in Seq(S), q # <<>>
  PROVE  /\ Head(q) \in S /\ Head(q) = q[1]
         /\ Tail(q) \in Seq(S)
         /\ Len(q) \in Nat \ {0}
         /\ Len(Tail(q)) = Len(q) - 1
         /\ \A i \in 1 .. Len(Tail(q)) : Tail(q)[i] = q[i + 1]
OBVIOUS

(* A prefix, element by element.                                           *)
LEMMA PrefixByElements ==
  ASSUME NEW S, NEW a \in Seq(S), NEW b \in Seq(S)
  PROVE  IsPrefix(a, b) <=>
           Len(a) <= Len(b) /\ \A i \in 1 .. Len(a) : a[i] = b[i]
<1>1. ASSUME IsPrefix(a, b)
      PROVE  Len(a) <= Len(b) /\ \A i \in 1 .. Len(a) : a[i] = b[i]
  <2>1. Len(a) <= Len(b) /\ SubSeq(a, 1, Len(a)) = SubSeq(b, 1, Len(a))
    BY <1>1 DEF IsPrefix
  <2>2. \A i \in 1 .. Len(a) : SubSeq(a, 1, Len(a))[i] = a[i]
    OBVIOUS
  <2>3. \A i \in 1 .. Len(a) : SubSeq(b, 1, Len(a))[i] = b[i]
    BY <2>1
  <2> QED  BY <2>1, <2>2, <2>3
<1>2. ASSUME Len(a) <= Len(b), \A i \in 1 .. Len(a) : a[i] = b[i]
      PROVE  IsPrefix(a, b)
  BY <1>2 DEF IsPrefix
<1> QED  BY <1>1, <1>2

(* Two sequences of one length that agree everywhere are equal.            *)
LEMMA EqualSequences ==
  ASSUME NEW S, NEW a \in Seq(S), NEW b \in Seq(S), Len(a) = Len(b),
         \A i \in 1 .. Len(a) : a[i] = b[i]
  PROVE  a = b
OBVIOUS

(* The rest of a text behind the length of another, which may be nothing.  *)
LEMMA RestFacts ==
  ASSUME NEW S, NEW a \in Seq(S), NEW b \in Seq(S), NEW k \in Nat, Len(a) = k
  PROVE  LET c == SubSeq(b, k + 1, Len(b))
         IN  /\ c \in Seq(S)
             /\ c = <<>> <=> Len(b) <= k
             /\ a \o c \in Seq(S)
             /\ Len(a \o c) = IF Len(b) <= k THEN k ELSE Len(b)
             /\ \A i \in 1 .. k : (a \o c)[i] = a[i]
             /\ \A i \in k + 1 .. Len(a \o c) : (a \o c)[i] = b[i]
<1> DEFINE c == SubSeq(b, k + 1, Len(b))
<1>1. c \in Seq(S) /\ Len(c) = IF Len(b) <= k THEN 0 ELSE Len(b) - k
  OBVIOUS
<1>2. \A i \in 1 .. Len(c) : c[i] = b[k + i]
  BY <1>1
<1>3. c = <<>> <=> Len(b) <= k
  <2>1. Len(b) \in Nat /\ (Len(c) = 0 <=> Len(b) <= k)
    BY <1>1
  <2>2. c = <<>> <=> Len(c) = 0
    <3> HIDE DEF c
    <3> QED  BY <1>1
  <2> QED  BY <2>1, <2>2
<1> HIDE DEF c
<1>4. a \o c \in Seq(S) /\ Len(a \o c) = k + Len(c)
  BY <1>1
<1>5. \A i \in 1 .. k : (a \o c)[i] = a[i]
  BY <1>1, <1>4
<1>6. \A i \in k + 1 .. Len(a \o c) : (a \o c)[i] = b[i]
  <2> SUFFICES ASSUME NEW i \in k + 1 .. Len(a \o c)
               PROVE  (a \o c)[i] = b[i]
    OBVIOUS
  <2>1. i - k \in 1 .. Len(c) /\ (a \o c)[i] = c[i - k]
    BY <1>1, <1>4
  <2> QED  BY <1>2, <2>1
<1>7. Len(a \o c) = IF Len(b) <= k THEN k ELSE Len(b)
  BY <1>1, <1>4
<1> QED  BY <1>1, <1>3, <1>4, <1>5, <1>6, <1>7 DEF c

------------------------------------------------------------------------------
(* The decoder.                                                            *)

(* Two lists that agree as far as one of them goes make the same texts.    *)
LEMMA SameTexts ==
  ASSUME NEW S, NEW a \in Seq(S), NEW b \in Seq(S), Len(a) <= Len(b),
         \A i \in 1 .. Len(a) : a[i] = b[i]
  PROVE  \A n \in 1 .. Len(a) : Text(a, n) = Text(b, n)
<1> SUFFICES ASSUME NEW n \in 1 .. Len(a)
             PROVE  SubSeq(a, 1, n) = SubSeq(b, 1, n)
  BY DEF Text
<1>1. SubSeq(a, 1, n) \in Seq(S) /\ SubSeq(b, 1, n) \in Seq(S)
      /\ Len(SubSeq(a, 1, n)) = n /\ Len(SubSeq(b, 1, n)) = n
  OBVIOUS
<1>2. \A i \in 1 .. n : SubSeq(a, 1, n)[i] = a[i] /\ SubSeq(b, 1, n)[i] = b[i]
  OBVIOUS
<1> QED  BY <1>1, <1>2, EqualSequences

(* The last of the texts is that of the whole list.                        *)
LEMMA LastText ==
  ASSUME NEW S, NEW a \in Seq(S)
  PROVE  Text(a, Len(a)) = Decode(a)
<1>1. SubSeq(a, 1, Len(a)) = a
  OBVIOUS
<1> QED  BY <1>1 DEF Text

(* Each text is one.                                                       *)
LEMMA TextType ==
  ASSUME Decodes, NEW a \in Seq(Tokens), NEW n \in 1 .. Len(a)
  PROVE  Text(a, n) \in Seq(Chars)
<1>1. SubSeq(a, 1, n) \in Seq(Tokens)
  OBVIOUS
<1> QED  BY <1>1 DEF Text, Decodes

(* What was first shown for a list was first shown for a longer one.       *)
LEMMA ShownForLonger ==
  ASSUME NEW S, NEW a \in Seq(S), NEW b \in Seq(S), Len(a) <= Len(b),
         \A i \in 1 .. Len(a) : a[i] = b[i],
         NEW text, IsFirstShown(text, a)
  PROVE  IsFirstShown(text, b)
<1>1. \A n \in 1 .. Len(a) : Text(a, n) = Text(b, n)
  BY SameTexts
<1> SUFFICES ASSUME NEW i \in 1 .. Len(text)
             PROVE  \E n \in 1 .. Len(b) :
                      /\ i <= Len(Text(b, n))
                      /\ text[i] = Text(b, n)[i]
                      /\ \A m \in 1 .. n - 1 : Len(Text(b, m)) < i
  BY DEF IsFirstShown
<1>2. PICK n \in 1 .. Len(a) :
        /\ i <= Len(Text(a, n))
        /\ text[i] = Text(a, n)[i]
        /\ \A m \in 1 .. n - 1 : Len(Text(a, m)) < i
  BY DEF IsFirstShown
<1>3. n \in 1 .. Len(b) /\ \A m \in 1 .. n - 1 : m \in 1 .. Len(a)
  BY <1>2
<1> QED  BY <1>1, <1>2, <1>3

(* One more token: what is yielded is what the new text has beyond the     *)
(* length of the old one, and then nothing on the way was longer.          *)
LEMMA ChunkIsFirstShown ==
  ASSUME Decodes, NEW r \in Seq(Tokens), NEW t \in Tokens,
         NEW text \in Seq(Chars), NEW k \in Nat, Len(text) = k,
         IsFirstShown(text, r), IsLongest(text, r)
  PROVE  LET list == Append(r, t)
             new == Decode(list)
             chunk == SubSeq(new, k + 1, Len(new))
         IN  /\ new \in Seq(Chars)
             /\ text \o chunk \in Seq(Chars)
             /\ Len(text \o chunk) = IF chunk = <<>> THEN k ELSE Len(new)
             /\ IsFirstShown(text \o chunk, list)
             /\ IsLongest(text \o chunk, list)
<1> DEFINE list == Append(r, t)
           new == Decode(list)
           chunk == SubSeq(new, k + 1, Len(new))
           both == text \o chunk
           last == Len(r) + 1
<1>1. /\ list \in Seq(Tokens) /\ Len(list) = last /\ Len(r) \in Nat
      /\ \A i \in 1 .. Len(r) : r[i] = list[i]
  BY AppendFacts
<1> HIDE DEF list
<1>2. Text(list, last) = new
  BY <1>1, LastText
<1>3. \A n \in 1 .. Len(r) : Text(list, n) = Text(r, n)
  BY <1>1, SameTexts
<1>4. new \in Seq(Chars)
  BY <1>1 DEF Decodes
<1> HIDE DEF new
<1>5. /\ chunk = <<>> <=> Len(new) <= k
      /\ both \in Seq(Chars)
      /\ Len(both) = IF Len(new) <= k THEN k ELSE Len(new)
      /\ \A i \in 1 .. k : both[i] = text[i]
      /\ \A i \in k + 1 .. Len(both) : both[i] = new[i]
  BY <1>4, RestFacts
<1> HIDE DEF chunk, both
<1>6. k <= Len(both) /\ Len(new) <= Len(both) /\ Len(new) \in Nat /\ Len(both) \in Nat
  BY <1>4, <1>5
<1>7. \A n \in 1 .. Len(r) : Len(Text(r, n)) \in Nat /\ Len(Text(r, n)) <= k
  BY TextType DEF IsLongest
<1>8. IsLongest(both, list)
  BY <1>1, <1>2, <1>3, <1>6, <1>7 DEF IsLongest
<1>9. IsFirstShown(both, list)
  <2> SUFFICES ASSUME NEW i \in 1 .. Len(both)
               PROVE  \E n \in 1 .. Len(list) :
                        /\ i <= Len(Text(list, n))
                        /\ both[i] = Text(list, n)[i]
                        /\ \A m \in 1 .. n - 1 : Len(Text(list, m)) < i
    BY DEF IsFirstShown
  <2>1. CASE i \in 1 .. k
    <3>1. IsFirstShown(text, list)
      BY <1>1, ShownForLonger
    <3>2. PICK n \in 1 .. Len(list) :
            /\ i <= Len(Text(list, n))
            /\ text[i] = Text(list, n)[i]
            /\ \A m \in 1 .. n - 1 : Len(Text(list, m)) < i
      BY <2>1, <3>1 DEF IsFirstShown
    <3> QED  BY <1>5, <2>1, <3>2
  <2>2. CASE i \in k + 1 .. Len(both)
    <3>1. i <= Len(new) /\ both[i] = new[i] /\ k < i
      BY <1>5, <1>6, <2>2
    <3>2. \A m \in 1 .. last - 1 : Len(Text(list, m)) < i
      BY <1>1, <1>3, <1>7, <3>1
    <3>3. last \in 1 .. Len(list)
      BY <1>1
    <3> QED  BY <1>2, <3>1, <3>2, <3>3
  <2> QED  BY <1>6, <2>1, <2>2
<1> QED  BY <1>4, <1>5, <1>8, <1>9 DEF list, new, chunk, both

(* Where each token only adds to the text, the first text long enough has  *)
(* at a place what the last one has there.                                 *)
LEMMA GrowsToPrefix ==
  ASSUME Decodes, NEW g \in Seq(Tokens), NEW text \in Seq(Chars),
         IsFirstShown(text, g), Grows(g)
  PROVE  IsPrefix(text, Decode(g))
<1>1. Len(g) \in Nat /\ Len(text) \in Nat /\ Decode(g) \in Seq(Chars)
      /\ Text(g, Len(g)) = Decode(g)
  BY LastText DEF Decodes
<1>2. \A i \in 1 .. Len(text) : i <= Len(Decode(g)) /\ text[i] = Decode(g)[i]
  <2> SUFFICES ASSUME NEW i \in 1 .. Len(text)
               PROVE  i <= Len(Decode(g)) /\ text[i] = Decode(g)[i]
    OBVIOUS
  <2>1. PICK n \in 1 .. Len(g) : i <= Len(Text(g, n)) /\ text[i] = Text(g, n)[i]
    BY DEF IsFirstShown
  <2>2. IsPrefix(Text(g, n), Decode(g))
    BY <1>1, <2>1 DEF Grows
  <2>3. Text(g, n) \in Seq(Chars)
    BY TextType
  <2>4. /\ Len(Text(g, n)) <= Len(Decode(g))
        /\ \A j \in 1 .. Len(Text(g, n)) : Text(g, n)[j] = Decode(g)[j]
    BY <1>1, <2>2, <2>3, PrefixByElements
  <2>5. i \in 1 .. Len(Text(g, n)) /\ Len(Text(g, n)) \in Nat /\ Len(Decode(g)) \in Nat
    BY <1>1, <2>1, <2>3
  <2> QED  BY <2>1, <2>4, <2>5
<1>3. Len(text) <= Len(Decode(g))
  <2>1. CASE Len(text) = 0
    BY <1>1, <2>1
  <2>2. CASE Len(text) # 0
    BY <1>1, <1>2, <2>2
  <2> QED  BY <2>1, <2>2
<1> QED  BY <1>1, <1>2, <1>3, PrefixByElements

(* It is all of that text if nothing on the way was longer.                *)
LEMMA GrowsToText ==
  ASSUME Decodes, NEW g \in Seq(Tokens), g # <<>>, NEW text \in Seq(Chars),
         IsFirstShown(text, g), IsLongest(text, g), Grows(g)
  PROVE  text = Decode(g)
<1>1. Decode(g) \in Seq(Chars) /\ Text(g, Len(g)) = Decode(g)
  BY LastText DEF Decodes
<1>2. Len(text) <= Len(Decode(g))
      /\ \A i \in 1 .. Len(text) : text[i] = Decode(g)[i]
  BY <1>1, GrowsToPrefix, PrefixByElements
<1>3. Len(g) \in 1 .. Len(g)
  OBVIOUS
<1>4. Len(Decode(g)) <= Len(text)
  BY <1>1, <1>3 DEF IsLongest
<1> QED  BY <1>1, <1>2, <1>4, EqualSequences

------------------------------------------------------------------------------
(* The queue.                                                              *)

(* While there is no mark, what is put follows what is there.              *)
LEMMA PutInOrder ==
  ASSUME NEW r \in Seq(Tokens), NEW q \in Seq(Tokens \cup {Stop}),
         NEW g \in Seq(Tokens), NEW t \in Tokens, InOrder(r, q, g),
         Len(g) = Len(r) + Len(q)
  PROVE  /\ InOrder(r, Append(q, t), Append(g, t))
         /\ Len(Append(g, t)) = Len(r) + Len(Append(q, t))
<1>1. /\ Len(Append(g, t)) = Len(g) + 1
      /\ \A i \in 1 .. Len(g) : Append(g, t)[i] = g[i]
      /\ Append(g, t)[Len(g) + 1] = t
  BY AppendFacts
<1>2. /\ Len(Append(q, t)) = Len(q) + 1
      /\ \A i \in 1 .. Len(q) : Append(q, t)[i] = q[i]
      /\ Append(q, t)[Len(q) + 1] = t
  BY AppendFacts
<1>3. Len(r) \in Nat /\ Len(q) \in Nat /\ Len(g) = Len(r) + Len(q)
  OBVIOUS
<1>4. \A i \in 1 .. Len(q) : q[i] = g[Len(r) + i]
  BY <1>3 DEF InOrder
<1>5. \A i \in 1 .. Len(Append(q, t)) : Append(q, t)[i] = Append(g, t)[Len(r) + i]
  <2> SUFFICES ASSUME NEW i \in 1 .. Len(Append(q, t))
               PROVE  Append(q, t)[i] = Append(g, t)[Len(r) + i]
    OBVIOUS
  <2>1. CASE i \in 1 .. Len(q)
    BY <1>1, <1>2, <1>3, <1>4, <2>1
  <2>2. CASE i = Len(q) + 1
    BY <1>1, <1>2, <1>3, <2>2
  <2> QED  BY <1>2, <1>3, <2>1, <2>2
<1>6. \A i \in 1 .. Len(r) : r[i] = Append(g, t)[i]
  BY <1>1, <1>3 DEF InOrder
<1>7. \A i \in 1 .. Len(Append(q, t)) : Len(r) + i <= Len(Append(g, t))
  BY <1>1, <1>2, <1>3
<1>8. Len(Append(g, t)) = Len(r) + Len(Append(q, t)) /\ Len(r) <= Len(Append(g, t))
  BY <1>1, <1>2, <1>3
<1> DEFINE qq == Append(q, t)
           gg == Append(g, t)
<1>9. InOrder(r, qq, gg)
  <2> HIDE DEF qq, gg
  <2>1. Len(gg) = Len(r) + Len(qq) /\ Len(r) <= Len(gg)
    BY <1>8 DEF qq, gg
  <2>2. \A i \in 1 .. Len(r) : r[i] = gg[i]
    BY <1>6 DEF gg
  <2>3. \A i \in 1 .. Len(qq) : qq[i] = gg[Len(r) + i] /\ Len(r) + i <= Len(gg)
    BY <1>5, <1>7 DEF qq, gg
  <2> QED  BY <2>1, <2>2, <2>3 DEF InOrder
<1> QED  BY <1>8, <1>9

(* A mark may be put behind everything at any time.                        *)
LEMMA MarkInOrder ==
  ASSUME NEW r \in Seq(Tokens), NEW q \in Seq(Tokens \cup {Stop}),
         NEW g \in Seq(Tokens), InOrder(r, q, g)
  PROVE  InOrder(r, Append(q, Stop), g)
<1>1. /\ Len(Append(q, Stop)) = Len(q) + 1
      /\ \A i \in 1 .. Len(q) : Append(q, Stop)[i] = q[i]
      /\ Append(q, Stop)[Len(q) + 1] = Stop
  BY AppendFacts
<1>2. Len(r) \in Nat /\ Len(q) \in Nat /\ Len(g) \in Nat
      /\ Len(g) <= Len(r) + Len(q)
  BY DEF InOrder
<1>3. \A i \in 1 .. Len(Append(q, Stop)) :
        Append(q, Stop)[i] = IF Len(r) + i <= Len(g) THEN g[Len(r) + i] ELSE Stop
  BY <1>1, <1>2 DEF InOrder
<1> QED  BY <1>1, <1>2, <1>3 DEF InOrder

(* A token taken out is the next one that was generated.                   *)
LEMMA TakeInOrder ==
  ASSUME NEW r \in Seq(Tokens), NEW q \in Seq(Tokens \cup {Stop}),
         NEW g \in Seq(Tokens), InOrder(r, q, g),
         q # <<>>, Head(q) # Stop
  PROVE  /\ Append(r, Head(q)) \in Seq(Tokens)
         /\ InOrder(Append(r, Head(q)), Tail(q), g)
         /\ Len(Append(r, Head(q))) + Len(Tail(q)) = Len(r) + Len(q)
<1>1. /\ Head(q) = q[1] /\ Len(q) \in Nat \ {0} /\ Len(Tail(q)) = Len(q) - 1
      /\ \A i \in 1 .. Len(Tail(q)) : Tail(q)[i] = q[i + 1]
  BY TailFacts
<1>2. Len(r) \in Nat /\ Len(g) \in Nat /\ Len(g) <= Len(r) + Len(q)
  BY DEF InOrder
<1>3. Len(r) + 1 <= Len(g) /\ Head(q) = g[Len(r) + 1]
  BY <1>1, <1>2 DEF InOrder
<1>4. Head(q) \in Tokens
  BY <1>2, <1>3
<1>5. /\ Len(Append(r, Head(q))) = Len(r) + 1
      /\ \A i \in 1 .. Len(r) : Append(r, Head(q))[i] = r[i]
      /\ Append(r, Head(q))[Len(r) + 1] = Head(q)
  BY <1>4, AppendFacts
<1>6. \A i \in 1 .. Len(r) + 1 : Append(r, Head(q))[i] = g[i]
  BY <1>2, <1>3, <1>5 DEF InOrder
<1>7. \A i \in 1 .. Len(Tail(q)) :
        Tail(q)[i] = IF (Len(r) + 1) + i <= Len(g) THEN g[(Len(r) + 1) + i] ELSE Stop
  <2> SUFFICES ASSUME NEW i \in 1 .. Len(Tail(q))
               PROVE  Tail(q)[i] = IF (Len(r) + 1) + i <= Len(g)
                                   THEN g[(Len(r) + 1) + i] ELSE Stop
    OBVIOUS
  <2>1. i + 1 \in 1 .. Len(q) /\ Tail(q)[i] = q[i + 1]
    BY <1>1
  <2>2. q[i + 1] = IF Len(r) + (i + 1) <= Len(g) THEN g[Len(r) + (i + 1)] ELSE Stop
    BY <2>1 DEF InOrder
  <2>3. Len(r) + (i + 1) = (Len(r) + 1) + i
    BY <1>2
  <2> QED  BY <2>1, <2>2, <2>3
<1> QED  BY <1>1, <1>2, <1>3, <1>4, <1>5, <1>6, <1>7 DEF InOrder

(* When the mark comes out, all that was generated has been taken.         *)
LEMMA MarkIsLast ==
  ASSUME NEW r \in Seq(Tokens), NEW q \in Seq(Tokens \cup {Stop}),
         NEW g \in Seq(Tokens), InOrder(r, q, g),
         q # <<>>, Head(q) = Stop
  PROVE  /\ r = g
         /\ Len(g) < Len(r) + Len(q)
         /\ InOrder(r, Tail(q), g)
<1>1. /\ Head(q) = q[1] /\ Len(q) \in Nat \ {0} /\ Len(Tail(q)) = Len(q) - 1
      /\ \A i \in 1 .. Len(Tail(q)) : Tail(q)[i] = q[i + 1]
  BY TailFacts
<1>2. Len(r) \in Nat /\ Len(g) \in Nat /\ Len(r) <= Len(g)
  BY DEF InOrder
<1>3. Len(r) = Len(g)
  <2>1. q[1] = IF Len(r) + 1 <= Len(g) THEN g[Len(r) + 1] ELSE Stop
    BY <1>1 DEF InOrder
  <2>2. Len(r) + 1 <= Len(g) => g[Len(r) + 1] \in Tokens
    BY <1>2
  <2> QED  BY <1>1, <1>2, <2>1, <2>2, StreamAssumption
<1>4. Len(g) < Len(r) + Len(q)
  BY <1>1, <1>2, <1>3
<1>5. r = g
  BY <1>3, EqualSequences DEF InOrder
<1>6. \A i \in 1 .. Len(Tail(q)) : Tail(q)[i] = Stop
  BY <1>1, <1>2, <1>3 DEF InOrder
<1> QED  BY <1>1, <1>2, <1>3, <1>4, <1>5, <1>6 DEF InOrder

------------------------------------------------------------------------------
(* The initial state.                                                      *)

LEMMA InitIInv ==
  ASSUME Init
  PROVE  IInv
<1>1. TypeOK
  BY DEF Init, TypeOK
<1>2. PoolInv
  BY DEF Init, PoolInv
<1>3. QueueInv
  <2>1. InOrder(<<>>, <<>>, <<>>)
    BY DEF InOrder
  <2> QED  BY <2>1 DEF Init, QueueInv
<1>4. TextInv
  BY DEF Init, TextInv, IsFirstShown, IsLongest
<1>5. JobInv
  BY DEF Init, JobInv
<1>6. CallerInv
  BY DEF Init, CallerInv
<1> QED  BY <1>1, <1>2, <1>3, <1>4, <1>5, <1>6 DEF IInv

------------------------------------------------------------------------------
(* The steps of the pool's thread.                                         *)

LEMMA SubmitIInv ==
  ASSUME IInv, NEW s \in Streams, Submit(s)
  PROVE  IInv'
<1> USE DEF IInv, Submit
<1>1. TypeOK'
  BY AppendFacts DEF TypeOK
<1>2. PoolInv'
  <2>1. /\ pool \in Seq(Streams) /\ Len(pool) \in Nat
        /\ Len(pool') = Len(pool) + 1
        /\ \A i \in 1 .. Len(pool) : pool'[i] = pool[i]
        /\ pool'[Len(pool) + 1] = s
    BY AppendFacts DEF TypeOK
  <2>2. job[s] = "none" /\ \A i \in 1 .. Len(pool) : pool[i] # s
    BY DEF PoolInv
  <2>3. \A i \in 1 .. Len(pool') : job'[pool'[i]] = "waiting"
    <3>1. job' = [job EXCEPT ![s] = "waiting"] /\ job'[s] = "waiting"
      BY DEF TypeOK
    <3>2. \A i \in 1 .. Len(pool) : pool[i] \in Streams /\ job[pool[i]] = "waiting"
      BY <2>1 DEF PoolInv
    <3>3. \A i \in 1 .. Len(pool) : job'[pool[i]] = "waiting"
      BY <2>2, <3>1, <3>2 DEF TypeOK
    <3> QED  BY <2>1, <3>1, <3>3
  <2>4. \A i, k \in 1 .. Len(pool') : pool'[i] = pool'[k] => i = k
    BY <2>1, <2>2 DEF PoolInv
  <2> QED  BY <2>2, <2>3, <2>4 DEF PoolInv, TypeOK
<1>3. QueueInv'
  BY DEF QueueInv, PoolInv, TypeOK
<1>4. TextInv'
  BY DEF TextInv, TypeOK
<1>5. CallerInv'
  BY DEF CallerInv, PoolInv, TypeOK
<1>10. JobInv'
  BY DEF JobInv, TypeOK
<1> QED  BY <1>1, <1>2, <1>3, <1>4, <1>5, <1>10

LEMMA StartJobIInv ==
  ASSUME IInv, StartJob
  PROVE  IInv'
<1> USE DEF IInv, StartJob
<1>1. /\ Head(pool) \in Streams /\ Head(pool) = pool[1] /\ Len(pool) \in Nat \ {0}
      /\ Tail(pool) \in Seq(Streams) /\ Len(Tail(pool)) = Len(pool) - 1
      /\ \A i \in 1 .. Len(Tail(pool)) : Tail(pool)[i] = pool[i + 1]
  BY TailFacts DEF TypeOK
<1>2. job[Head(pool)] = "waiting"
  BY <1>1 DEF PoolInv
<1>3. TypeOK'
  BY <1>1 DEF TypeOK
<1>4. PoolInv'
  <2>1. \A i \in 1 .. Len(pool') : pool'[i] # Head(pool) /\ job[pool'[i]] = "waiting"
    BY <1>1 DEF PoolInv
  <2>2. \A i \in 1 .. Len(pool') : job'[pool'[i]] = "waiting"
    BY <1>1, <2>1 DEF TypeOK
  <2>3. \A i, k \in 1 .. Len(pool') : pool'[i] = pool'[k] => i = k
    BY <1>1 DEF PoolInv
  <2> QED  BY <1>1, <1>2, <2>2, <2>3 DEF PoolInv, TypeOK
<1>5. QueueInv'
  BY <1>2 DEF QueueInv, TypeOK
<1>6. TextInv'
  BY DEF TextInv
<1>7. CallerInv'
  BY <1>2 DEF CallerInv, TypeOK
<1>10. JobInv'
  BY <1>2 DEF JobInv, TypeOK
<1> QED  BY <1>3, <1>4, <1>5, <1>6, <1>7, <1>10

LEMMA PutIInv ==
  ASSUME IInv, NEW s \in Streams, Put(s)
  PROVE  IInv'
<1> USE DEF IInv, Put
<1>1. PICK t \in Tokens :
        /\ generated' = [generated EXCEPT ![s] = Append(@, t)]
        /\ queue' = [queue EXCEPT ![s] = Append(@, t)]
  OBVIOUS
<1>2. generated[s] \in Seq(Tokens) /\ queue[s] \in Seq(Tokens \cup {Stop})
  BY DEF TypeOK
<1>3. TypeOK'
  BY <1>1, <1>2, AppendFacts DEF TypeOK
<1>4. PoolInv'
  BY DEF PoolInv
<1>5. QueueInv'
  <2>1. /\ InOrder(ids[s], queue[s], generated[s]) /\ ids[s] \in Seq(Tokens)
        /\ Len(generated[s]) = Len(ids[s]) + Len(queue[s])
    BY DEF QueueInv, TypeOK
  <2> DEFINE r == ids[s]  q == queue[s]  g == generated[s]
  <2>2. /\ InOrder(r, q, g) /\ Len(g) = Len(r) + Len(q)
        /\ r \in Seq(Tokens) /\ q \in Seq(Tokens \cup {Stop}) /\ g \in Seq(Tokens)
    BY <1>2, <2>1
  <2> HIDE DEF r, q, g
  <2>3. InOrder(r, Append(q, t), Append(g, t))
    BY ONLY <2>2, t \in Tokens, PutInOrder
  <2>4. Len(Append(g, t)) = Len(r) + Len(Append(q, t))
    BY ONLY <2>2, t \in Tokens, PutInOrder
  <2> USE DEF r, q, g
  <2> QED  BY <1>1, <2>3, <2>4 DEF QueueInv, TypeOK
<1>6. TextInv'
  BY DEF TextInv
<1>7. CallerInv'
  BY <1>1 DEF CallerInv, TypeOK
<1>10. JobInv'
  BY <1>1, <1>2, AppendFacts DEF JobInv, TypeOK
<1> QED  BY <1>3, <1>4, <1>5, <1>6, <1>7, <1>10

(* The mark is put when the job will put no more tokens.                   *)
LEMMA MarkQueueInv ==
  ASSUME TypeOK, QueueInv, NEW s \in Streams, NEW st \in {"ended", "over"},
         queue' = [queue EXCEPT ![s] = Append(@, Stop)],
         job' = [job EXCEPT ![s] = st], UNCHANGED <<ids, generated>>
  PROVE  QueueInv'
<1> DEFINE r == ids[s]  q == queue[s]  g == generated[s]
<1>1. /\ InOrder(r, q, g) /\ r \in Seq(Tokens) /\ q \in Seq(Tokens \cup {Stop})
      /\ g \in Seq(Tokens)
  BY DEF QueueInv, TypeOK
<1> HIDE DEF r, q, g
<1>2. InOrder(r, Append(q, Stop), g)
  BY ONLY <1>1, MarkInOrder
<1> USE DEF r, q, g
<1> QED  BY <1>2 DEF QueueInv, TypeOK

(* A job that runs is not in the pool.                                     *)
LEMMA JobPoolInv ==
  ASSUME TypeOK, PoolInv, NEW s \in Streams, NEW st \in {"ended", "over"},
         job[s] \in {"running", "ended"}, job' = [job EXCEPT ![s] = st],
         exception' = exception \/ (exception' = exception \cup {s} /\ st = "over"),
         UNCHANGED <<pool, caller>>
  PROVE  PoolInv'
<1>1. /\ pool \in Seq(Streams) /\ job \in [Streams -> {"none", "waiting", "running", "ended", "over"}]
      /\ exception \in SUBSET Streams /\ caller[s] # "idle" /\ s \notin exception
  BY DEF TypeOK, PoolInv
<1>2. \A i \in 1 .. Len(pool) : pool[i] \in Streams /\ job[pool[i]] = "waiting" /\ pool[i] # s
  BY <1>1 DEF PoolInv
<1>3. \A i \in 1 .. Len(pool') : job'[pool'[i]] = "waiting"
  BY <1>1, <1>2
<1>4. \A x \in Streams : caller'[x] = "idle" => job'[x] = "none"
  BY <1>1 DEF PoolInv
<1>5. \A x \in exception' : job'[x] = "over"
  BY <1>1 DEF PoolInv
<1> QED  BY <1>3, <1>4, <1>5 DEF PoolInv

LEMMA EndIInv ==
  ASSUME IInv, NEW s \in Streams, End(s)
  PROVE  IInv'
<1> USE DEF IInv, End
<1>1. queue[s] \in Seq(Tokens \cup {Stop})
  BY DEF TypeOK
<1>2. Append(queue[s], Stop) \in Seq(Tokens \cup {Stop})
  BY <1>1, AppendFacts
<1>3. TypeOK'
  BY <1>2 DEF TypeOK
<1>4. PoolInv'
  BY JobPoolInv
<1>5. QueueInv'
  BY MarkQueueInv
<1>6. TextInv'
  BY DEF TextInv
<1>7. CallerInv'
  BY DEF CallerInv, TypeOK
<1>10. JobInv'
  BY DEF JobInv, TypeOK
<1> QED  BY <1>3, <1>4, <1>5, <1>6, <1>7, <1>10

LEMMA ReturnIInv ==
  ASSUME IInv, NEW s \in Streams, Return(s)
  PROVE  IInv'
<1> USE DEF IInv, Return
<1>1. TypeOK'
  BY DEF TypeOK
<1>2. PoolInv'
  BY JobPoolInv
<1>3. QueueInv'
  BY DEF QueueInv, TypeOK
<1>4. TextInv'
  BY DEF TextInv
<1>5. CallerInv'
  BY DEF CallerInv, TypeOK
<1>10. JobInv'
  BY DEF JobInv, TypeOK
<1> QED  BY <1>1, <1>2, <1>3, <1>4, <1>5, <1>10

LEMMA FailIInv ==
  ASSUME IInv, NEW s \in Streams, Fail(s)
  PROVE  IInv'
<1> USE DEF IInv, Fail
<1>1. queue[s] \in Seq(Tokens \cup {Stop})
  BY DEF TypeOK
<1>2. Append(queue[s], Stop) \in Seq(Tokens \cup {Stop})
  BY <1>1, AppendFacts
<1>3. TypeOK'
  BY <1>2 DEF TypeOK
<1>4. PoolInv'
  BY JobPoolInv
<1>5. QueueInv'
  BY MarkQueueInv
<1>6. TextInv'
  BY DEF TextInv
<1>7. CallerInv'
  BY DEF CallerInv, TypeOK
<1>10. JobInv'
  BY DEF JobInv, TypeOK
<1> QED  BY <1>3, <1>4, <1>5, <1>6, <1>7, <1>10

------------------------------------------------------------------------------
(* The steps of a caller.                                                  *)

(* Both ways to take a token out, whether or not it can be decoded.        *)
LEMMA TakeQueueInv ==
  ASSUME TypeOK, QueueInv, NEW s \in Streams, queue[s] # <<>>, Head(queue[s]) # Stop,
         ids' = [ids EXCEPT ![s] = Append(@, Head(queue[s]))],
         queue' = [queue EXCEPT ![s] = Tail(@)], UNCHANGED <<job, generated>>
  PROVE  /\ Head(queue[s]) \in Tokens
         /\ Append(ids[s], Head(queue[s])) \in Seq(Tokens)
         /\ Tail(queue[s]) \in Seq(Tokens \cup {Stop})
         /\ QueueInv'
<1> DEFINE r == ids[s]  q == queue[s]  g == generated[s]
<1>1. /\ InOrder(r, q, g) /\ r \in Seq(Tokens) /\ q \in Seq(Tokens \cup {Stop})
      /\ g \in Seq(Tokens) /\ q # <<>> /\ Head(q) # Stop
  BY DEF QueueInv, TypeOK
<1> HIDE DEF r, q, g
<1>2. Head(q) \in Tokens /\ Tail(q) \in Seq(Tokens \cup {Stop})
  BY ONLY <1>1, TailFacts
<1>3. Append(r, Head(q)) \in Seq(Tokens)
  BY ONLY <1>1, TakeInOrder
<1>4. InOrder(Append(r, Head(q)), Tail(q), g)
  BY ONLY <1>1, TakeInOrder
<1>5. Len(Append(r, Head(q))) + Len(Tail(q)) = Len(r) + Len(q)
  BY ONLY <1>1, TakeInOrder
<1> USE DEF r, q, g
<1>6. QueueInv'
  BY <1>4, <1>5 DEF QueueInv, TypeOK
<1> QED  BY <1>2, <1>3, <1>6

LEMMA ReadIInv ==
  ASSUME Decodes, IInv, NEW s \in Streams, Read(s)
  PROVE  IInv'
<1> USE DEF IInv
<1> DEFINE t == Head(queue[s])
           list == Append(ids[s], t)
           new == Decode(list)
           both == received[s] \o Chunk(s, t)
<1>1. /\ caller[s] = "reading" /\ queue[s] # <<>> /\ t # Stop
      /\ ids' = [ids EXCEPT ![s] = Append(@, t)]
      /\ queue' = [queue EXCEPT ![s] = Tail(@)]
      /\ decoded' = IF Chunk(s, t) = <<>> THEN decoded
                    ELSE [decoded EXCEPT ![s] = new]
      /\ received' = [received EXCEPT ![s] = @ \o Chunk(s, t)]
      /\ UNCHANGED <<pool, job, exception, generated, caller, late>>
  BY DEF Read
<1>2. /\ t \in Tokens /\ list \in Seq(Tokens)
      /\ Tail(queue[s]) \in Seq(Tokens \cup {Stop}) /\ QueueInv'
  BY <1>1, TakeQueueInv
<1>3. /\ ids[s] \in Seq(Tokens) /\ received[s] \in Seq(Chars) /\ decoded[s] \in Seq(Chars)
      /\ Len(received[s]) = Len(decoded[s]) /\ Len(decoded[s]) \in Nat
      /\ IsFirstShown(received[s], ids[s]) /\ IsLongest(received[s], ids[s])
  BY <1>1 DEF TextInv, TypeOK
<1>4. Chunk(s, t) = SubSeq(new, Len(decoded[s]) + 1, Len(new))
  BY DEF Chunk
<1>5. /\ new \in Seq(Chars) /\ both \in Seq(Chars)
      /\ Len(both) = IF Chunk(s, t) = <<>> THEN Len(decoded[s]) ELSE Len(new)
      /\ IsFirstShown(both, list) /\ IsLongest(both, list)
  <2> DEFINE k == Len(decoded[s])
             text == received[s]
             chunk == SubSeq(new, k + 1, Len(new))
  <2>1. /\ t \in Tokens /\ k \in Nat /\ text \in Seq(Chars) /\ Len(text) = k
        /\ ids[s] \in Seq(Tokens) /\ IsFirstShown(text, ids[s]) /\ IsLongest(text, ids[s])
    BY <1>2, <1>3
  <2> HIDE DEF t, k, text
  <2>2. /\ new \in Seq(Chars) /\ text \o chunk \in Seq(Chars)
        /\ Len(text \o chunk) = IF chunk = <<>> THEN k ELSE Len(new)
        /\ IsFirstShown(text \o chunk, list) /\ IsLongest(text \o chunk, list)
    BY <2>1, ChunkIsFirstShown
  <2>3. chunk = Chunk(s, t) /\ both = text \o chunk
    BY <1>4 DEF k, text
  <2> HIDE DEF new, list, both, chunk
  <2> QED  BY <2>2, <2>3 DEF k
<1>6. received' = [received EXCEPT ![s] = both] /\ ids' = [ids EXCEPT ![s] = list]
  BY <1>1 DEF TypeOK
<1> HIDE DEF t, list, new, both
<1>7. TypeOK'
  <2>1. decoded' \in [Streams -> Seq(Chars)] /\ received' \in [Streams -> Seq(Chars)]
    BY <1>1, <1>5, <1>6 DEF TypeOK
  <2>2. ids' \in [Streams -> Seq(Tokens)] /\ queue' \in [Streams -> Seq(Tokens \cup {Stop})]
    BY <1>1, <1>2, <1>6 DEF TypeOK
  <2> QED  BY <1>1, <2>1, <2>2 DEF TypeOK
<1>8. PoolInv'
  BY <1>1 DEF PoolInv
<1>9. TextInv'
  <2> SUFFICES ASSUME NEW x \in Streams
               PROVE  /\ Len(received'[x]) = Len(decoded'[x])
                      /\ IsFirstShown(received'[x], ids'[x])
                      /\ caller'[x] # "error" => IsLongest(received'[x], ids'[x])
    BY DEF TextInv, IsFirstShown, IsLongest, Text
  <2>1. CASE x = s
    <3>1. received'[x] = both /\ ids'[x] = list
      BY <1>6, <2>1 DEF TypeOK
    <3>2. Len(both) = Len(decoded'[x])
      BY <1>1, <1>5, <2>1 DEF TypeOK
    <3> QED  BY <1>5, <3>1, <3>2
  <2>2. CASE x # s
    <3>1. received'[x] = received[x] /\ ids'[x] = ids[x] /\ decoded'[x] = decoded[x]
          /\ caller'[x] = caller[x]
      BY <1>1, <1>6, <2>2 DEF TypeOK
    <3> QED  BY <3>1 DEF TextInv
  <2> QED  BY <2>1, <2>2
<1>10. JobInv'
  BY <1>1 DEF JobInv
<1>11. CallerInv'
  BY <1>1 DEF CallerInv, TypeOK
<1> QED  BY <1>2, <1>7, <1>8, <1>9, <1>10, <1>11

LEMMA DecodeRaisesIInv ==
  ASSUME IInv, NEW s \in Streams, DecodeRaises(s)
  PROVE  IInv'
<1> USE DEF IInv
<1> DEFINE t == Head(queue[s])
           list == Append(ids[s], t)
<1>1. /\ caller[s] = "reading" /\ queue[s] # <<>> /\ t # Stop
      /\ ids' = [ids EXCEPT ![s] = Append(@, t)]
      /\ queue' = [queue EXCEPT ![s] = Tail(@)]
      /\ caller' = [caller EXCEPT ![s] = "error"]
      /\ UNCHANGED <<pool, job, exception, generated, decoded, received, late>>
  BY DEF DecodeRaises
<1>2. /\ t \in Tokens /\ list \in Seq(Tokens)
      /\ Tail(queue[s]) \in Seq(Tokens \cup {Stop}) /\ QueueInv'
  BY <1>1, TakeQueueInv
<1>3. ids[s] \in Seq(Tokens) /\ ids' = [ids EXCEPT ![s] = list]
  BY <1>1 DEF TypeOK
<1>4. Len(ids[s]) <= Len(list) /\ \A i \in 1 .. Len(ids[s]) : ids[s][i] = list[i]
  BY <1>2, <1>3, AppendFacts
<1> HIDE DEF t, list
<1>5. TypeOK'
  BY <1>1, <1>2, <1>3 DEF TypeOK
<1>6. PoolInv'
  BY <1>1 DEF PoolInv, TypeOK
<1>7. TextInv'
  <2> SUFFICES ASSUME NEW x \in Streams
               PROVE  /\ Len(received'[x]) = Len(decoded'[x])
                      /\ IsFirstShown(received'[x], ids'[x])
                      /\ caller'[x] # "error" => IsLongest(received'[x], ids'[x])
    BY DEF TextInv, IsFirstShown, IsLongest, Text
  <2>1. CASE x = s
    <3>1. IsFirstShown(received[s], list)
      BY <1>2, <1>3, <1>4, ShownForLonger DEF TextInv
    <3>2. ids'[x] = list /\ caller'[x] = "error" /\ received'[x] = received[s]
          /\ decoded'[x] = decoded[s]
      BY <1>1, <1>3, <2>1 DEF TypeOK
    <3> QED  BY <3>1, <3>2 DEF TextInv
  <2>2. CASE x # s
    <3>1. received'[x] = received[x] /\ ids'[x] = ids[x] /\ decoded'[x] = decoded[x]
          /\ caller'[x] = caller[x]
      BY <1>1, <1>3, <2>2 DEF TypeOK
    <3> QED  BY <3>1 DEF TextInv
  <2> QED  BY <2>1, <2>2
<1>8. JobInv'
  BY <1>1 DEF JobInv
<1>9. CallerInv'
  BY <1>1 DEF CallerInv, TypeOK
<1> QED  BY <1>2, <1>5, <1>6, <1>7, <1>8, <1>9

LEMMA ReadStopIInv ==
  ASSUME IInv, NEW s \in Streams, ReadStop(s)
  PROVE  IInv'
<1> USE DEF IInv, ReadStop
<1> DEFINE r == ids[s]  q == queue[s]  g == generated[s]
<1>1. /\ InOrder(r, q, g) /\ r \in Seq(Tokens) /\ q \in Seq(Tokens \cup {Stop})
      /\ g \in Seq(Tokens) /\ q # <<>> /\ Head(q) = Stop
      /\ job[s] \notin {"ended", "over"} => Len(g) = Len(r) + Len(q)
  BY DEF QueueInv, TypeOK
<1> HIDE DEF r, q, g
<1>2. r = g /\ Len(g) < Len(r) + Len(q) /\ InOrder(r, Tail(q), g)
  BY ONLY <1>1, MarkIsLast, StreamAssumption
<1>3. Tail(q) \in Seq(Tokens \cup {Stop}) /\ Len(r) \in Nat /\ Len(g) \in Nat /\ Len(q) \in Nat
  BY ONLY <1>1, TailFacts
<1>4. job[s] \in {"ended", "over"}
  BY <1>1, <1>2, <1>3
<1> USE DEF r, q, g
<1>5. TypeOK'
  BY <1>3 DEF TypeOK
<1>6. PoolInv'
  BY DEF PoolInv, TypeOK
<1>7. QueueInv'
  BY <1>2, <1>4 DEF QueueInv, TypeOK
<1>8. TextInv'
  BY DEF TextInv, TypeOK
<1>9. CallerInv'
  BY <1>2, <1>4 DEF CallerInv, TypeOK
<1>10. JobInv'
  BY DEF JobInv, TypeOK
<1> QED  BY <1>5, <1>6, <1>7, <1>8, <1>9, <1>10

LEMMA TimeOutIInv ==
  ASSUME IInv, NEW s \in Streams, TimeOut(s)
  PROVE  IInv'
<1> USE DEF IInv, TimeOut
<1>1. TypeOK'
  BY DEF TypeOK
<1>2. PoolInv'
  BY DEF PoolInv, TypeOK
<1>3. QueueInv'
  BY DEF QueueInv
<1>4. TextInv'
  BY DEF TextInv, TypeOK
<1>5. CallerInv'
  BY DEF CallerInv, TypeOK
<1>10. JobInv'
  BY DEF JobInv, TypeOK
<1> QED  BY <1>1, <1>2, <1>3, <1>4, <1>5, <1>10

LEMMA JoinIInv ==
  ASSUME IInv, NEW s \in Streams, Join(s)
  PROVE  IInv'
<1> USE DEF IInv, Join
<1>1. TypeOK'
  BY DEF TypeOK
<1>2. PoolInv'
  BY DEF PoolInv, TypeOK
<1>3. QueueInv'
  BY DEF QueueInv
<1>4. TextInv'
  BY DEF TextInv, TypeOK
<1>5. CallerInv'
  BY DEF CallerInv, TypeOK
<1>10. JobInv'
  BY DEF JobInv, TypeOK
<1> QED  BY <1>1, <1>2, <1>3, <1>4, <1>5, <1>10

LEMMA StutterIInv ==
  ASSUME IInv, UNCHANGED vars
  PROVE  IInv'
BY DEF vars, IInv, TypeOK, PoolInv, QueueInv, TextInv, JobInv, CallerInv

------------------------------------------------------------------------------
(* The theorems.                                                           *)

(* IInv holds in every state of every behaviour.                           *)
THEOREM Invariant ==
  ASSUME Decodes
  PROVE  Spec => []IInv
<1>1. Init => IInv
  BY InitIInv
<1>2. IInv /\ [Next]_vars => IInv'
  <2> SUFFICES ASSUME IInv, [Next]_vars
               PROVE  IInv'
    OBVIOUS
  <2>1. CASE StartJob
    BY <2>1, StartJobIInv
  <2>2. ASSUME NEW s \in Streams, Submit(s)  PROVE IInv'
    BY <2>2, SubmitIInv
  <2>3. ASSUME NEW s \in Streams, JobStep(s)  PROVE IInv'
    BY <2>3, PutIInv, EndIInv, ReturnIInv, FailIInv DEF JobStep
  <2>4. ASSUME NEW s \in Streams, CallerStep(s)  PROVE IInv'
    BY <2>4, ReadIInv, ReadStopIInv, DecodeRaisesIInv, JoinIInv DEF CallerStep
  <2>5. ASSUME NEW s \in Streams, TimeOut(s)  PROVE IInv'
    BY <2>5, TimeOutIInv
  <2>6. CASE UNCHANGED vars
    BY <2>6, StutterIInv
  <2> QED  BY <2>1, <2>2, <2>3, <2>4, <2>5, <2>6 DEF Next
<1> QED  BY <1>1, <1>2, PTL DEF Spec

(* Every variable keeps its type.                                          *)
THEOREM TypeCorrect ==
  ASSUME Decodes
  PROVE  Spec => []TypeOK
<1>1. IInv => TypeOK
  BY DEF IInv
<1> QED  BY <1>1, Invariant, PTL

(* What a caller has shows each place of the text once, as it first stood, *)
(* and is a beginning of the text if each token only adds to it.           *)
THEOREM ReceivedCorrect ==
  ASSUME Decodes
  PROVE  Spec => []ReceivedIsText
<1>1. ASSUME IInv
      PROVE  ReceivedIsText
  <2> SUFFICES ASSUME NEW s \in Streams
               PROVE  /\ IsFirstShown(received[s], generated[s])
                      /\ Grows(generated[s]) => IsPrefix(received[s], Decode(generated[s]))
    BY DEF ReceivedIsText
  <2>1. /\ ids[s] \in Seq(Tokens) /\ generated[s] \in Seq(Tokens)
        /\ received[s] \in Seq(Chars) /\ IsFirstShown(received[s], ids[s])
    BY <1>1 DEF IInv, TypeOK, TextInv
  <2>2. InOrder(ids[s], queue[s], generated[s])
    BY <1>1 DEF IInv, QueueInv
  <2>3. IsFirstShown(received[s], generated[s])
    BY <2>1, <2>2, ShownForLonger DEF InOrder
  <2> QED  BY <2>1, <2>3, GrowsToPrefix
<1> QED  BY <1>1, Invariant, PTL

(* A stream that ended well and in time has all there was to yield, which  *)
(* is the text if each token only adds to it.                              *)
THEOREM CompleteCorrect ==
  ASSUME Decodes
  PROVE  Spec => []StreamIsComplete
<1>1. ASSUME IInv
      PROVE  StreamIsComplete
  <2> SUFFICES ASSUME NEW s \in Streams, caller[s] = "done", s \notin late
               PROVE  /\ IsLongest(received[s], generated[s])
                      /\ Grows(generated[s]) => received[s] = Decode(generated[s])
    BY DEF StreamIsComplete
  <2>1. /\ generated[s] \in Seq(Tokens) /\ received[s] \in Seq(Chars)
        /\ IsFirstShown(received[s], ids[s]) /\ IsLongest(received[s], ids[s])
    BY <1>1 DEF IInv, TypeOK, TextInv
  <2>2. ids[s] = generated[s] /\ job[s] = "over" /\ s \notin exception
    BY <1>1 DEF IInv, CallerInv
  <2>3. generated[s] # <<>>
    BY <1>1, <2>2 DEF IInv, JobInv
  <2> QED  BY <2>1, <2>2, <2>3, GrowsToText
<1> QED  BY <1>1, Invariant, PTL

(* A failed generation is not reported as a finished one.                  *)
THEOREM FailureCorrect ==
  ASSUME Decodes
  PROVE  Spec => []FailureIsReported
<1>1. IInv => FailureIsReported
  BY DEF IInv, CallerInv, FailureIsReported
<1> QED  BY <1>1, Invariant, PTL
==============================================================================
