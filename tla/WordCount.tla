------------------------------ MODULE WordCount -----------------------------
(***************************************************************************)
(* What both word counters of lab 8 should print: the number of words of a *)
(* text.  A text is a sequence of Booleans: isalnum() of each character.   *)
(***************************************************************************)
EXTENDS Naturals, Sequences, FiniteSets

\* Texts of at most k characters.
Texts(k) == UNION {[1 .. m -> BOOLEAN] : m \in 0 .. k}

\* The reference: a word begins at a word character that does not follow one.
Words(text) ==
  Cardinality({k \in 1 .. Len(text) : text[k] /\ (k = 1 \/ ~text[k - 1])})

\* The loop that count_words() and count_words_in_chunk() share: the number of
\* words counted in text[from .. to], having begun with in_word = 0.
CountLoop(text, from, to) ==
  LET Loop[k \in from - 1 .. to] ==    \* <<count, in_word>> after text[k]
        IF k = from - 1 THEN <<0, FALSE>>
        ELSE LET before == Loop[k - 1] IN
             IF text[k]
             THEN <<IF before[2] THEN before[1] ELSE before[1] + 1, TRUE>>
             ELSE <<before[1], FALSE>>
  IN IF from > to THEN 0 ELSE Loop[to][1]
=============================================================================
