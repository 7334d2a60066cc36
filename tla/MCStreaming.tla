----------------------------- MODULE MCStreaming -----------------------------
(* A small instance of Streaming for TLC.                                  *)
EXTENDS Streaming

(* A token is a word, shown with a space before it that the first word of  *)
(* a text loses; or one of the two bytes of a character, either of which   *)
(* alone is shown as the replacement character.  Words only add to the     *)
(* text, a second byte changes its end.                                    *)
Pieces == {"word", "byte1", "byte2"}
PieceChars == {"a", " ", "e", "?"}

CompletesByte(s, i) == i > 1 /\ s[i - 1] = "byte1" /\ s[i] = "byte2"

Piece(s, i) ==
    CASE s[i] = "word" -> IF i = 1 THEN <<"a">> ELSE <<" ", "a">>
      [] CompletesByte(s, i) -> <<>>
      [] i < Len(s) /\ CompletesByte(s, i + 1) -> <<"e">>
      [] OTHER -> <<"?">>

PieceDecode(s) == FlattenSeq([i \in 1 .. Len(s) |-> Piece(s, i)])

(* Both kinds of text are there: those that only grow and others.          *)
ASSUME SomeTextsGrow ==
    /\ Grows(<<"word", "word">>)
    /\ ~Grows(<<"byte1", "byte2">>)
==============================================================================
