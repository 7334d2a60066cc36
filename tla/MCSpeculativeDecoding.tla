------------------------- MODULE MCSpeculativeDecoding -------------------------
(* Small instances of SpeculativeDecoding for TLC: that of the constants,  *)
(* a recurrent head and a cache that grows, and Heads, one head per draft  *)
(* position and a static cache.  A behaviour is that of one of them.       *)
(*                                                                         *)
(* Token 0 ends the sequence.  MCArgmax gives each weight a different,     *)
(* otherwise arbitrary dependence of the next token on the length and the  *)
(* content of the text.                                                    *)
EXTENDS SpeculativeDecoding

VARIABLE model    \* "recurrent" or "heads"

MCTokens == 0 .. 2
MCEos == {0}
MCPrompts == {<<1>>, <<2, 1>>}
MCWeights == 1 .. 3
MCBlank == 9

Mix[t \in Seq(MCTokens)] == IF t = <<>> THEN 1 ELSE 3 * Mix[Tail(t)] + Head(t) + 1
MCArgmax(w, t) ==
    CASE w = 1 -> (Mix[t] \div 2) % 3
      [] w = 2 -> IF Len(t) >= 5 THEN Mix[t] % 3 ELSE 1 + ((Mix[t] \div 3) % 2)
      [] OTHER -> 1 + ((t[Len(t)] + Len(t)) % 2)

Heads == INSTANCE SpeculativeDecoding WITH
    Recurrent <- FALSE, Dynamic <- FALSE, NumHeads <- 2

MCInit == Init /\ model \in {"recurrent", "heads"}

MCNext ==
    /\ \/ model = "recurrent" /\ Next
       \/ model = "heads" /\ Heads!Next
    /\ UNCHANGED model

(* The fairness of FairSpec.                                               *)
Cycle ==
    /\ \/ model = "recurrent" /\ (DecodeOne \/ Draft \/ Verify \/ Commit)
       \/ /\ model = "heads"
          /\ Heads!DecodeOne \/ Heads!Draft \/ Heads!Verify \/ Heads!Commit
    /\ UNCHANGED model

MCSpec == MCInit /\ [][MCNext]_<<model, vars>> /\ WF_<<model, vars>>(Cycle)
==============================================================================
