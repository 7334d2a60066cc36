---------------------------- MODULE GreedyDecoding ----------------------------
(***************************************************************************)
(* What greedy generation promises, whatever it does to be fast: a text    *)
(* grows from a prompt, each new token is the argmax of the model given    *)
(* all the text before it, generation ends at the first end-of-sequence    *)
(* token or at max_length, and a streaming client has received exactly     *)
(* the tokens generated.  SpeculativeDecoding implements this.             *)
(***************************************************************************)
EXTENDS Naturals, Sequences

CONSTANTS
    Tokens,           \* the vocabulary
    Eos,              \* the end-of-sequence tokens
    Prompts,          \* the prompts a request may carry
    MaxLength,        \* max_length: the number of tokens to generate at most
    Weights,          \* which model is loaded
    Argmax(_, _)      \* Argmax(w, text): the most likely token after text

VARIABLES
    weights,   \* the loaded model
    plen,      \* length of the prompt
    text,      \* the prompt followed by the tokens generated so far
    streamed,  \* the tokens put into the streamer
    status     \* "idle", "running", "done" or "failed"

vars == <<weights, plen, text, streamed, status>>

Generated(t, p) == Len(t) - p

(* The token at every generated position follows from the text before it,  *)
(* and only the last one may end the sequence.                             *)
IsGreedy(w, t, p) ==
    /\ \A i \in p + 1 .. Len(t) : t[i] = Argmax(w, SubSeq(t, 1, i - 1))
    /\ \A i \in p + 1 .. Len(t) - 1 : t[i] \notin Eos
    /\ Generated(t, p) <= MaxLength

Complete(t, p) == t[Len(t)] \in Eos \/ Generated(t, p) = MaxLength

Extends(t, old) == Len(t) > Len(old) /\ SubSeq(t, 1, Len(old)) = old

Init ==
    /\ weights \in Weights
    /\ plen = 0
    /\ text = <<>>
    /\ streamed = <<>>
    /\ status = "idle"

(* The tokens p + 1 .. Len(t) of a text.                                   *)
Output(t, p) == SubSeq(t, p + 1, Len(t))

(* Some tokens are generated: at least one, and possibly the last one.     *)
Emit(old, p) ==
    /\ text' \in Seq(Tokens)
    /\ Extends(text', old)
    /\ IsGreedy(weights, text', p)
    /\ streamed' = Output(text', p)
    /\ status' = IF Complete(text', p) THEN "done" ELSE "running"

Start ==
    /\ status # "running"
    /\ \E prompt \in Prompts :
         /\ plen' = Len(prompt)
         /\ Emit(prompt, Len(prompt))
    /\ UNCHANGED weights

Continue ==
    /\ status = "running"
    /\ Emit(text, plen)
    /\ UNCHANGED <<weights, plen>>

Fail ==
    /\ status = "running"
    /\ status' = "failed"
    /\ UNCHANGED <<weights, plen, text, streamed>>

Next == Start \/ Continue \/ Fail

Spec == Init /\ [][Next]_vars
==============================================================================
