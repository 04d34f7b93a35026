----------------------------- MODULE DrawnText ------------------------------
(***************************************************************************)
(* What the typist sees of a session: drawTypingTest in typing/typing.c,   *)
(* called by drawScreen for every status but unready.  It reads the two    *)
(* buffers and the cursor of Typing and changes nothing, so the picture is *)
(* a function of the state.  The text is walked in two loops that hand the *)
(* pen on: one over what was typed, up to the first zero of typedText, one *)
(* over the rest of the text.                                              *)
(***************************************************************************)
EXTENDS Typing, TextLayout, Functions

(* What has been drawn so far.  "cells" are the characters, "marks" the    *)
(* bars of the cursor, "hidden" the spaces a line break swallowed and      *)
(* "wrongFromHere" is isWrongFromHere.                                     *)
Blank == [pen |-> StartPen(generatedText), cells |-> <<>>, marks |-> <<>>,
          hidden |-> {}, wrongFromHere |-> FALSE]

Place(pen) == [col |-> pen.col, row |-> pen.row]

Mark(picture) == [picture EXCEPT !.marks = Append(@, Place(picture.pen))]

(* The top of both loops: the cursor is marked before the wrap is decided. *)
MarkIfCursor(picture, i) == IF typingCursor + 1 = i THEN Mark(picture) ELSE picture

(* One character of the text, or the line break in its place.              *)
MutPut(picture, i, colour, underlined) ==
    LET pen == MovePen(generatedText, picture.pen, i)
        newline == Breaks(generatedText, picture.pen, i)
    IN [picture EXCEPT
          !.pen = IF newline THEN [pen EXCEPT !.col = 1] ELSE pen,
          !.hidden = IF newline THEN @ \cup {i} ELSE @,
          !.cells = Append(@, [at |-> i, colour |-> colour, underlined |-> underlined,
                               place |-> IF newline THEN Place(pen) ELSE Place(picture.pen)]),
          !.wrongFromHere = underlined]
Put(picture, i, colour, underlined) ==
    LET pen == picture.pen
        moved == [picture EXCEPT !.pen = MovePen(generatedText, pen, i)]
    IN IF Breaks(generatedText, pen, i)
       THEN [moved EXCEPT !.hidden = @ \cup {i}]
       ELSE [moved EXCEPT
               !.cells = Append(@, [at |-> i, place |-> Place(pen), colour |-> colour,
                                    underlined |-> underlined]),
               !.wrongFromHere = underlined]

(* The first loop.  A character the break swallows is not looked at.       *)
MutDrawTyped(picture, i) ==
    LET wrong == typedText[i] # generatedText[i]
    IN Put(MarkIfCursor(picture, i), i, IF wrong THEN "wrong" ELSE "right", wrong)
DrawTyped(picture, i) ==
    LET wrong == typedText[i] # generatedText[i]
    IN Put(MarkIfCursor(picture, i), i, IF wrong THEN "wrong" ELSE "right",
           picture.wrongFromHere \/ wrong)

(* The second loop: the colour of the unwritten, never underlined.         *)
DrawRest(picture, i) ==
    [Put(MarkIfCursor(picture, i), i, "unwritten", FALSE)
        EXCEPT !.wrongFromHere = picture.wrongFromHere]

FirstZero == Min({i \in Positions : typedText[i] = NUL} \cup {Size + 1})

MutMarkAtEnd(picture) == picture
MarkAtEnd(picture) == IF typingCursor = Size THEN Mark(picture) ELSE picture

drawTypingTest ==
    LET drawn[n \in 0..Size] ==
            IF n = 0 THEN Blank
            ELSE IF n < FirstZero THEN DrawTyped(drawn[n - 1], n)
            ELSE DrawRest(drawn[n - 1], n)
    IN MarkAtEnd(drawn[Size])

-----------------------------------------------------------------------------
(* The text stands still while it is typed: whatever was typed, right or   *)
(* wrong and however often erased, every character is drawn once, where    *)
(* the greedy line breaking of the text alone puts it, and inside the      *)
(* width when no word is wider than that.                                  *)
LinesStandStill ==
    status # "unready" =>
        LET picture == drawTypingTest
        IN /\ Greedy(generatedText, picture.hidden)
           /\ {cell.at : cell \in Range(picture.cells)} = Positions \ picture.hidden
           /\ \A k, l \in DOMAIN picture.cells :
                k < l => picture.cells[k].at < picture.cells[l].at
           /\ \A cell \in Range(picture.cells) :
                /\ cell.place = PlaceOf(picture.hidden, cell.at)
                /\ WordsFit(generatedText) => cell.place.col < Columns

(* The cursor is marked exactly once, also on an untouched and on a full   *)
(* text, and where the character it waits for is drawn, or after the end   *)
(* of the line when that character is the space the line break swallows.   *)
CursorMarkedOnce ==
    status # "unready" =>
        LET picture == drawTypingTest
        IN picture.marks = <<PlaceOf(picture.hidden, typingCursor + 1)>>

(* A text that cannot be finished because of an error shows it: unless     *)
(* every wrong character is a space a line break swallowed, some character *)
(* is drawn as wrong and everything typed from it on is underlined, so     *)
(* that the typist sees how far to erase; and nothing else is underlined.  *)
ErrorsShown ==
    status # "unready" =>
        LET picture == drawTypingTest
            seenWrong == WrongPositions \ picture.hidden
        IN \A cell \in Range(picture.cells) :
             /\ cell.underlined <=> cell.at \in Typed /\ \E i \in seenWrong : i <= cell.at
             /\ cell.colour = "wrong" <=> cell.at \in seenWrong
             /\ cell.colour = "unwritten" <=> cell.at \notin Typed
=============================================================================
