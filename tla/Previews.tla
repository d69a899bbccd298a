------------------------------ MODULE Previews ------------------------------
(***************************************************************************)
(* Bounded previews of texts (src/py_lib_runtime/_internal/previews/       *)
(* formatting.py).  A text is the pieces between which a line may be       *)
(* broken: words, and the parts of a word that hyphens join, which have no *)
(* space between them.  What is kept of it is a number of pieces and of    *)
(* dots after them.  A piece wider than the width is not kept, even in     *)
(* part.                                                                   *)
(***************************************************************************)
EXTENDS Integers, FiniteSetsExt, SequencesExt

\* Its length, and the spaces before it.
Piece == [size : Nat \ {0}, gap : {0, 1}]

\* The first n pieces in one line.
WordsLength(words, n) ==
  LET length[k \in 0..n] ==
        IF k = 0 THEN 0
        ELSE length[k - 1] + words[k].size + (IF k = 1 THEN 0 ELSE words[k].gap)
  IN length[n]

Preview(words, dots) == [words |-> words, dots |-> dots]
PreviewLength(p) == WordsLength(p.words, Len(p.words)) + p.dots

\* _normalize_width and _placeholder_for_width.
NormalizeWidth(chars) == Max({1, chars})
Dots(width) == Min({3, width})

\* The most pieces that leave room for the dots.
KeptWords(words, width) ==
  Max({n \in 0..Len(words) : n = 0 \/ WordsLength(words, n) + Dots(width) <= width})

\* textwrap.shorten.
Shorten(words, width) ==
  IF WordsLength(words, Len(words)) <= width THEN Preview(words, 0)
  ELSE Preview(SubSeq(words, 1, KeptWords(words, width)), Dots(width))

\* "<empty>".
Empty == <<[size |-> 7, gap |-> 0]>>

PreviewText(words, chars) ==
  Shorten(IF words = << >> THEN Empty ELSE words, NormalizeWidth(chars))

\* Faulty variant: the message is logged as it is.
PreviewExceptionMessageWhole(exc, chars) ==
  Preview(IF exc.message = << >> THEN exc.type ELSE exc.message, 0)

\* An exception is the pieces of its message and of the name of its type.
PreviewExceptionMessage(exc, chars) ==
  PreviewText(IF exc.message = << >> THEN exc.type ELSE exc.message, chars)
=============================================================================
