----------------------------- MODULE TextLayout -----------------------------
(***************************************************************************)
(* How a text is laid out in lines: the wrapping that _drawText in         *)
(* lib/lib.c and drawTypingTest in typing/typing.c both write out.  Both   *)
(* walk through the text with a pen (dx, dy) and a pointer to the next     *)
(* space.  A font is monospaced, so pixels are counted in characters: one  *)
(* xStep is a column, one yStep a row, and Columns is the number of whole  *)
(* xStep in the width the caller gives.                                    *)
(***************************************************************************)
EXTENDS Integers, Sequences, FiniteSetsExt

CONSTANTS
    Space,     \* the character ' '
    Columns    \* how many characters fit in maxW

ASSUME ColumnsAssumption == Columns \in Nat \ {0}

(* strchr(text + i, ' '): the terminating 0 stands for "no more spaces",   *)
(* which gives the last word the width strlen gives it in the code.        *)
NextSpace(text, i) == Min({k \in i..Len(text) : text[k] = Space} \cup {Len(text) + 1})

StartPen(text) == [col |-> 0, row |-> 0, nextWord |-> NextSpace(text, 1)]

(* At a space: does the space and the word after it end past the line?     *)
Breaks(text, pen, i) ==
    i = pen.nextWord /\ pen.col + (NextSpace(text, i + 1) - i) > Columns

(* The pen after the character i; a space that breaks takes no column.     *)
MovePen(text, pen, i) ==
    [col |-> IF Breaks(text, pen, i) THEN 0 ELSE pen.col + 1,
     row |-> IF Breaks(text, pen, i) THEN pen.row + 1 ELSE pen.row,
     nextWord |-> IF i = pen.nextWord THEN NextSpace(text, i + 1) ELSE pen.nextWord]

-----------------------------------------------------------------------------
(* What the wrapping is for, said without a pen.  The breaks are a set of  *)
(* spaces, and a space is one of them exactly when the line it is in could *)
(* not hold the word after it as well.                                     *)

LineStart(breaks, i) == Max({s \in breaks : s < i} \cup {0})

SpacesOf(text) == {i \in DOMAIN text : text[i] = Space}

Greedy(text, breaks) ==
    breaks = {s \in SpacesOf(text) :
                NextSpace(text, s + 1) - 1 - LineStart(breaks, s) > Columns}

PlaceOf(breaks, i) ==
    [col |-> i - 1 - LineStart(breaks, i),
     row |-> Cardinality({s \in breaks : s < i})]

(* Is there a word wider than a line?  Nothing wraps inside a word.        *)
WordsFit(text) ==
    \A i \in 0..Len(text) :
        (i = 0 \/ text[i] = Space) => NextSpace(text, i + 1) - 1 - i <= Columns
=============================================================================
