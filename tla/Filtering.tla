------------------------------ MODULE Filtering ------------------------------
(***************************************************************************)
(* Lists that are made of lists.                                           *)
(***************************************************************************)
EXTENDS Naturals, Sequences, FiniteSets

(* The elements of a sequence that belong to a set, in their order: what   *)
(* a comprehension with a condition, or a loop with a "continue", leaves   *)
(* of a list.  It is SelectSeq with a set in place of the test, which      *)
(* makes it a first-order operator that proofs can speak of.               *)
Kept(s, S) ==
    LET kept[n \in 0 .. Len(s)] ==
            IF n = 0 THEN <<>>
            ELSE IF s[n] \in S THEN Append(kept[n - 1], s[n])
                               ELSE kept[n - 1]
    IN  kept[Len(s)]

(* Lists one after the other, as nested comprehensions do: FlattenSeq,     *)
(* defined here because the proofs are also about instances with a         *)
(* parameter, which the modules behind FlattenSeq do not allow.            *)
Joined(parts) ==
    LET joined[i \in 1 .. Len(parts)] ==
            IF i = 1 THEN parts[i] ELSE joined[i - 1] \o parts[i]
    IN  IF parts = <<>> THEN <<>> ELSE joined[Len(parts)]

(* A list sorted by the keys of its elements, which keeps the order of     *)
(* those with the same key, as list.sort and sorted do.                    *)
SortedBy(s, key) ==
    LET before(i) == {j \in DOMAIN s : key[j] < key[i] \/ (key[j] = key[i] /\ j < i)}
    IN  [k \in DOMAIN s |->
            s[CHOOSE i \in DOMAIN s : Cardinality(before(i)) = k - 1]]
==============================================================================
