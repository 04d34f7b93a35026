---------------------------- MODULE TypingProofs ----------------------------
(***************************************************************************)
(* Proofs about the typing session, for every set of texts, frame rate and *)
(* number of timer ticks.  The inductive invariant CountInv says that the  *)
(* counters are the cardinalities of two sets of positions; it needs       *)
(* WrongIsFlagged, because Backspace gives wrongChars back only at a       *)
(* flagged position, and TimesOrdered, because the time difference shown   *)
(* must be a natural number for the type invariant to hold.                *)
(*                                                                         *)
(* The second half is about the picture of a session (DrawnText), for      *)
(* every text and every width of a line: DrawnInv says what has been drawn *)
(* after n characters.                                                     *)
(***************************************************************************)
EXTENDS DrawnText, FiniteSetTheorems, WellFoundedInduction, TLAPS

(* The session's two time stamps are ordered and not in the future. *)
TimesOrdered == timeStart <= timeEnd /\ timeEnd <= now

CountInv == TypeOK /\ CountersExact /\ WrongIsFlagged /\ TimesOrdered

-----------------------------------------------------------------------------
(* The buffers of an absent text have no position. *)
LEMMA EmptyBuffer == ASSUME NEW S PROVE <<>> \in [1..0 -> S]
  OBVIOUS

(* A text has at least one character. *)
LEMMA TextLength == ASSUME NEW text \in Texts PROVE Len(text) \in Nat \ {0}
  BY TextAssumption

(* A set of positions up to the cursor is finite. *)
LEMMA PrefixFinite ==
  ASSUME NEW n \in Nat, NEW T \in SUBSET (1..n)
  PROVE IsFiniteSet(T)
<1>1. IsFiniteSet(1..n)
  BY FS_Interval
<1>. QED
  BY <1>1, FS_Subset

(* A new text, or none, leaves no position before the cursor. *)
LEMMA ClearedCounters ==
  ASSUME ClearSession
  PROVE CountersExact' /\ WrongIsFlagged'
<1>1. Typed' = {}
  BY DEF ClearSession, Typed
<1>2. WrongPositions' = {} /\ FlaggedPositions' = {}
  BY <1>1 DEF WrongPositions, FlaggedPositions
<1>. QED
  BY <1>2, FS_EmptySet DEF ClearSession, CountersExact, WrongIsFlagged

(* What the actions that reset or generate a text leave behind. *)
LEMMA ResetInv ==
  ASSUME CountInv, resetTypingInfo, resetRacingInfo, app' \in Screens, now' = now
  PROVE CountInv'
<1>1. TypeOK'
  <2>1. Positions' = 1..0 /\ Size' = 0
    BY DEF resetTypingInfo, Positions, Size
  <2>2. typedText' \in [Positions' -> Char \cup {NUL}] /\ mistakes' \in [Positions' -> BOOLEAN]
    BY <2>1, EmptyBuffer DEF resetTypingInfo
  <2>3. shown' \in [chars : Nat, wrong : Nat, ticks : Nat]
    BY DEF resetTypingInfo, ClearSession, NoStats, Stats
  <2>4. typingCursor' \in 0..Size' /\ now' \in 0..MaxTicks
    BY <2>1 DEF resetTypingInfo, ClearSession, CountInv, TypeOK
  <2>5. /\ generatedText' \in Texts \cup {<<>>}
        /\ status' \in Statuses
        /\ (generatedText' = <<>>) <=> (status' = "unready")
    BY DEF resetTypingInfo, Statuses
  <2>6. /\ typedChars' \in Nat /\ wrongChars' \in Nat /\ totalWrongChars' \in Nat
        /\ timeStart' \in Nat /\ timeEnd' \in Nat
        /\ won' \in BOOLEAN /\ startTime' \in Nat
    BY DEF resetTypingInfo, ClearSession, resetRacingInfo
  <2>. QED
    BY <2>2, <2>3, <2>4, <2>5, <2>6 DEF TypeOK
<1>2. TimesOrdered'
  BY DEF CountInv, TypeOK, TimesOrdered, resetTypingInfo, ClearSession
<1>. QED
  BY <1>1, <1>2, ClearedCounters DEF CountInv, resetTypingInfo

(* A new text begins with consistent counters (generateText). *)
LEMMA GenerateInv ==
  ASSUME CountInv, NEW text \in Texts, generateText(text), app' \in Screens,
         won' \in BOOLEAN, startTime' \in Nat, now' = now
  PROVE CountInv'
<1>1. TypeOK'
  <2>1. Len(text) \in Nat /\ text # <<>>
    BY TextLength, TextAssumption
  <2>. QED
    BY <2>1 DEF CountInv, TypeOK, generateText, ClearSession, Statuses,
                NoStats, Stats, Positions, Size
<1>2. TimesOrdered'
  BY DEF CountInv, TypeOK, TimesOrdered, generateText, ClearSession
<1>. QED
  BY <1>1, <1>2, ClearedCounters DEF CountInv, generateText

-----------------------------------------------------------------------------
(* A session that takes keys has a text, and its clock is not ahead. *)
LEMMA ListeningFacts ==
  ASSUME CountInv, Listening
  PROVE /\ generatedText \in Texts
        /\ Size \in Nat \ {0}
        /\ typingCursor \in 0..Size
        /\ began \in Nat
        /\ began <= now
<1>1. generatedText \in Texts
  BY DEF CountInv, TypeOK, Listening
<1>. QED
  BY <1>1, TextLength DEF CountInv, TypeOK, TimesOrdered, began, Size

(* The part of the invariant that a key changes through its time stamps. *)
TimesOK ==
    /\ TimesOrdered
    /\ status \in Statuses \ {"unready"}
    /\ timeStart \in Nat
    /\ timeEnd \in Nat
    /\ shown \in [chars : Nat, wrong : Nat, ticks : Nat]
    /\ won \in BOOLEAN

(* A key that goes on typing starts the clock at most once. *)
LEMMA KeepTypingTimes ==
  ASSUME CountInv, Listening, KeepTyping, now' = now
  PROVE TimesOK'
  BY ListeningFacts
  DEF CountInv, TypeOK, TimesOrdered, TimesOK, KeepTyping, Starting, Statuses, began

(* endTyping shows a non-negative time. *)
LEMMA EndTypingTimes ==
  ASSUME CountInv, NEW chars \in Nat, NEW wrong \in Nat, NEW since \in Nat,
         since <= now, endTyping(chars, wrong, since), won' \in BOOLEAN, now' = now
  PROVE TimesOK'
  BY DEF CountInv, TypeOK, TimesOrdered, TimesOK, endTyping, Stats, Statuses

(* Typing a character adds one position to the prefix, to the wrong ones   *)
(* if it is wrong, to the flagged ones if it is wrong or was wrong before. *)
LEMMA TypeCharInv ==
  ASSUME CountInv, NEW c \in Char, TypeChar(c)
  PROVE CountInv'
<1>. DEFINE at == typingCursor + 1
            wrong == c # generatedText[at]
<1>. USE DEF CountInv
<1>1. /\ generatedText \in Texts /\ Size \in Nat /\ typingCursor \in Nat
      /\ at \in Positions /\ Size' = Size /\ Positions' = Positions
  BY ListeningFacts DEF TypeChar, Size, Positions
<1>2. /\ \A i \in Typed : typedText'[i] = typedText[i] /\ mistakes'[i] = mistakes[i]
      /\ typedText'[at] = c
      /\ mistakes'[at] = (mistakes[at] \/ wrong)
      /\ at \notin Typed
      /\ Typed' = Typed \cup {at}
  BY <1>1 DEF TypeOK, TypeChar, FlagsAfter, Typed, Positions
<1>3. WrongPositions' = IF wrong THEN WrongPositions \cup {at} ELSE WrongPositions
  BY <1>2 DEF WrongPositions, TypeChar
<1>4. FlaggedPositions' = IF mistakes[at] \/ wrong THEN FlaggedPositions \cup {at}
                                                  ELSE FlaggedPositions
  BY <1>2 DEF FlaggedPositions
<1>5. IsFiniteSet(WrongPositions) /\ IsFiniteSet(FlaggedPositions)
  BY <1>1, PrefixFinite DEF WrongPositions, FlaggedPositions, Typed
<1>6. at \notin WrongPositions /\ at \notin FlaggedPositions
  BY <1>2 DEF WrongPositions, FlaggedPositions
<1>7. wrongChars' = Cardinality(WrongPositions')
  <2>1. Cardinality(WrongPositions \cup {at}) = wrongChars + 1
    BY <1>5, <1>6, FS_AddElement DEF CountersExact
  <2>. QED
    BY <1>3, <2>1 DEF TypeChar, CountersExact, TypeOK, One
<1>8. totalWrongChars' = Cardinality(FlaggedPositions')
  <2>1. Cardinality(FlaggedPositions \cup {at}) = totalWrongChars + 1
    BY <1>5, <1>6, FS_AddElement DEF CountersExact
  <2>. QED
    BY <1>4, <2>1 DEF TypeChar, CountersExact, TypeOK, One
<1>9. typedChars' = typingCursor' /\ typedChars' \in Nat
  BY <1>1 DEF TypeChar, CountersExact
<1>10. CountersExact'
  BY <1>7, <1>8, <1>9 DEF CountersExact
<1>11. WrongIsFlagged'
  BY <1>2, <1>3 DEF WrongIsFlagged, WrongPositions
<1>12. wrongChars' \in Nat /\ totalWrongChars' \in Nat
  BY DEF TypeChar, TypeOK, One
<1>13. TimesOK'
  <2>1. CASE Complete(typedChars', wrongChars')
    BY <2>1, <1>9, <1>12, ListeningFacts, EndTypingTimes DEF TypeChar, TypeOK
  <2>2. CASE ~Complete(typedChars', wrongChars')
    BY <2>2, KeepTypingTimes DEF TypeChar
  <2>. QED
    BY <2>1, <2>2
<1>14. typedText' \in [Positions' -> Char \cup {NUL}] /\ mistakes' \in [Positions' -> BOOLEAN]
  BY <1>1 DEF TypeOK, TypeChar, FlagsAfter
<1>15. TypeOK'
  BY <1>1, <1>9, <1>12, <1>13, <1>14, TextAssumption
  DEF TypeOK, TimesOK, TypeChar, Positions, Statuses
<1>. QED
  BY <1>10, <1>11, <1>13, <1>15 DEF TimesOK

(* Erasing takes the last position out of the prefix and out of both sets; *)
(* each counter drops exactly when its set loses that position.            *)
LEMMA EraseInv ==
  ASSUME CountInv, Erase
  PROVE CountInv'
<1>. DEFINE at == typingCursor
<1>. USE DEF CountInv
<1>1. /\ generatedText \in Texts /\ Size \in Nat /\ at \in Nat \ {0} /\ at <= Size
      /\ at \in Positions /\ at \in Typed /\ Size' = Size /\ Positions' = Positions
  BY ListeningFacts DEF Erase, Size, Positions, Typed
<1>2. /\ \A i \in Typed \ {at} : typedText'[i] = typedText[i]
      /\ Typed' = Typed \ {at}
      /\ mistakes' = mistakes /\ generatedText' = generatedText
      /\ mistakes[at] \in BOOLEAN
  BY <1>1 DEF TypeOK, Erase, ErasedText, Typed, Positions
<1>3. WrongPositions' = WrongPositions \ {at}
  BY <1>2 DEF WrongPositions
<1>4. FlaggedPositions' = FlaggedPositions \ {at}
  BY <1>2 DEF FlaggedPositions
<1>5. IsFiniteSet(WrongPositions) /\ IsFiniteSet(FlaggedPositions)
  BY <1>1, PrefixFinite DEF WrongPositions, FlaggedPositions, Typed
<1>6. (at \in WrongPositions) <=> (FlaggedBefore /\ WrongBefore)
  BY <1>1 DEF WrongPositions, WrongIsFlagged, FlaggedBefore, WrongBefore
<1>7. (at \in FlaggedPositions) <=> FlaggedBefore
  BY <1>1 DEF FlaggedPositions, FlaggedBefore
<1>8. wrongChars' = Cardinality(WrongPositions') /\ wrongChars' \in Nat
  <2>1. Cardinality(WrongPositions \ {at}) =
          IF at \in WrongPositions THEN wrongChars - 1 ELSE wrongChars
    BY <1>5, FS_RemoveElement DEF CountersExact
  <2>2. Cardinality(WrongPositions \ {at}) \in Nat
    BY <1>5, FS_RemoveElement, FS_CardinalityType
  <2>. QED
    BY <1>3, <1>6, <2>1, <2>2 DEF Erase, WrongAfterBackspace, TypeOK, One
<1>9. totalWrongChars' = Cardinality(FlaggedPositions') /\ totalWrongChars' \in Nat
  <2>1. Cardinality(FlaggedPositions \ {at}) =
          IF at \in FlaggedPositions THEN totalWrongChars - 1 ELSE totalWrongChars
    BY <1>5, FS_RemoveElement DEF CountersExact
  <2>2. Cardinality(FlaggedPositions \ {at}) \in Nat
    BY <1>5, FS_RemoveElement, FS_CardinalityType
  <2>. QED
    BY <1>4, <1>7, <2>1, <2>2 DEF Erase, TotalAfterBackspace, TypeOK, One
<1>10. typedChars' = typingCursor' /\ typedChars' \in Nat /\ typingCursor' \in 0..Size'
  BY <1>1 DEF Erase, CountersExact
<1>11. CountersExact'
  BY <1>8, <1>9, <1>10 DEF CountersExact
<1>12. WrongIsFlagged'
  BY <1>2, <1>3 DEF WrongIsFlagged
<1>13. TimesOK'
  BY KeepTypingTimes DEF Erase
<1>14. typedText' \in [Positions' -> Char \cup {NUL}]
  BY <1>1 DEF TypeOK, Erase, ErasedText
<1>15. TypeOK'
  BY <1>1, <1>2, <1>8, <1>9, <1>10, <1>13, <1>14, TextAssumption
  DEF TypeOK, TimesOK, Erase, Statuses
<1>. QED
  BY <1>11, <1>12, <1>13, <1>15 DEF TimesOK

-----------------------------------------------------------------------------
(* An action that leaves the buffers and the counters alone keeps the      *)
(* relation between them.                                                  *)
LEMMA FrameInv ==
  ASSUME CountInv, UNCHANGED <<buffers, counters>>, TimesOrdered',
         app' \in Screens, status' \in Statuses,
         (status = "unready") <=> (status' = "unready"),
         timeStart' \in Nat, timeEnd' \in Nat,
         shown' \in [chars : Nat, wrong : Nat, ticks : Nat],
         won' \in BOOLEAN, startTime' \in Nat, now' \in 0..MaxTicks
  PROVE CountInv'
<1>1. UNCHANGED <<Size, Positions, Typed, WrongPositions, FlaggedPositions>>
  BY DEF buffers, counters, Size, Positions, Typed, WrongPositions, FlaggedPositions
<1>2. TypeOK'
  BY <1>1 DEF CountInv, TypeOK, buffers, counters
<1>3. CountersExact' /\ WrongIsFlagged'
  BY <1>1 DEF CountInv, CountersExact, WrongIsFlagged, buffers, counters
<1>. QED
  BY <1>2, <1>3 DEF CountInv

(* A key without effect on the text keeps the invariant. *)
LEMMA IdleKeyInv ==
  ASSUME CountInv, NEW key \in Keys, IdleKey(key)
  PROVE CountInv'
<1>1. TimesOK'
  BY KeepTypingTimes DEF IdleKey
<1>2. status # "unready"
  BY DEF IdleKey, Listening
<1>. QED
  BY <1>1, <1>2, FrameInv DEF IdleKey, TimesOK, CountInv, TypeOK

(* INFO_WON ends the session and leaves its counters as they are. *)
LEMMA OpponentWonInv ==
  ASSUME CountInv, OpponentWon
  PROVE CountInv'
<1>1. /\ typedChars \in Nat /\ totalWrongChars \in Nat /\ timeStart \in Nat
      /\ timeStart <= now
  BY DEF CountInv, TypeOK, TimesOrdered
<1>2. endTyping(typedChars, totalWrongChars, timeStart) /\ won' \in BOOLEAN /\ now' = now
  BY DEF OpponentWon
<1>3. TimesOK'
  BY <1>1, <1>2, EndTypingTimes
<1>. QED
  BY <1>3, FrameInv DEF OpponentWon, TimesOK, CountInv, TypeOK

(* The clock only moves forward, and refreshes what is shown. *)
LEMMA TickInv ==
  ASSUME CountInv, Tick
  PROVE CountInv'
<1>. USE DEF CountInv
<1>1. now' \in 0..MaxTicks /\ now <= now' /\ now' \in Nat
  BY TimeAssumption DEF Tick, TypeOK
<1>2. UNCHANGED <<app, buffers, counters, won, startTime>>
  BY DEF Tick, startTyping, race
<1>3. /\ timeStart' \in Nat /\ timeEnd' \in Nat /\ TimesOrdered'
      /\ shown' \in [chars : Nat, wrong : Nat, ticks : Nat]
      /\ status' \in Statuses /\ ((status = "unready") <=> (status' = "unready"))
  <2>1. CASE app = "raceState" /\ status = "ready" /\ CountdownOver(now')
    BY <2>1, <1>1 DEF Tick, startTyping, TypeOK, TimesOrdered, Statuses
  <2>2. CASE /\ ~(app = "raceState" /\ status = "ready" /\ CountdownOver(now'))
             /\ UNCHANGED <<timeEnd, shown>>
    BY <2>2, <1>1 DEF Tick, TypeOK, TimesOrdered
  <2>3. CASE /\ ~(app = "raceState" /\ status = "ready" /\ CountdownOver(now'))
             /\ updateTypingInfo(now')
    BY <2>3, <1>1 DEF Tick, updateTypingInfo, Stats, TypeOK, TimesOrdered
  <2>. QED
    BY <2>1, <2>2, <2>3 DEF Tick
<1>. QED
  BY <1>1, <1>2, <1>3, FrameInv DEF TypeOK

-----------------------------------------------------------------------------
(* The invariant holds of the zeroed records of typing.c. *)
LEMMA InitInv == Init => CountInv
<1>. SUFFICES ASSUME Init PROVE CountInv
  OBVIOUS
<1>1. Positions = 1..0 /\ Size = 0 /\ Typed = {}
  BY DEF Init, Positions, Size, Typed
<1>2. typedText \in [Positions -> Char \cup {NUL}] /\ mistakes \in [Positions -> BOOLEAN]
  BY <1>1, EmptyBuffer DEF Init
<1>3. TypeOK
  <2>1. shown \in [chars : Nat, wrong : Nat, ticks : Nat]
    BY DEF Init, NoStats, Stats
  <2>2. typingCursor \in 0..Size /\ now \in 0..MaxTicks
    BY <1>1, TimeAssumption DEF Init
  <2>. QED
    BY <1>2, <2>1, <2>2 DEF Init, TypeOK, Screens, Statuses
<1>4. WrongPositions = {} /\ FlaggedPositions = {}
  BY <1>1 DEF WrongPositions, FlaggedPositions
<1>5. CountersExact /\ WrongIsFlagged
  BY <1>4, FS_EmptySet DEF Init, CountersExact, WrongIsFlagged
<1>. QED
  BY <1>3, <1>5 DEF Init, CountInv, TimesOrdered

(* Every handler of the main loop keeps the invariant. *)
LEMMA NextInv == CountInv /\ [Next]_vars => CountInv'
<1>. SUFFICES ASSUME CountInv, [Next]_vars PROVE CountInv'
  OBVIOUS
<1>. USE DEF Screens
<1>1. ASSUME NEW text \in Texts, EnterTraining(text) PROVE CountInv'
  BY <1>1, GenerateInv DEF EnterTraining, race, CountInv, TypeOK
<1>2. ASSUME NEW text \in Texts, NewTest(text) PROVE CountInv'
  BY <1>2, GenerateInv DEF NewTest, race, CountInv, TypeOK
<1>3. ASSUME NEW text \in Texts, RaceAgreed(text) PROVE CountInv'
  <2>1. startTime' \in Nat
    BY <1>3, TimeAssumption DEF RaceAgreed, CountInv, TypeOK
  <2>. QED
    BY <1>3, <2>1, GenerateInv DEF RaceAgreed, CountInv, TypeOK
<1>4. CASE EnterRace
  BY <1>4, ResetInv DEF EnterRace
<1>5. CASE LeaveToMain
  BY <1>5, FrameInv DEF LeaveToMain, times, race, CountInv, TypeOK, TimesOrdered
<1>6. CASE NewRace
  BY <1>6, ResetInv DEF NewRace, CountInv, TypeOK
<1>7. CASE OpponentLeft
  BY <1>7, ResetInv DEF OpponentLeft, CountInv, TypeOK
<1>8. CASE Erase
  BY <1>8, EraseInv
<1>9. ASSUME NEW c \in Char, TypeChar(c) PROVE CountInv'
  BY <1>9, TypeCharInv
<1>10. ASSUME NEW key \in Keys, IdleKey(key) PROVE CountInv'
  BY <1>10, IdleKeyInv
<1>11. CASE OpponentWon
  BY <1>11, OpponentWonInv
<1>12. CASE Tick
  BY <1>12, TickInv
<1>13. CASE UNCHANGED vars
  BY <1>13, FrameInv DEF vars, times, race, CountInv, TypeOK, TimesOrdered
<1>. QED
  BY <1>1, <1>2, <1>3, <1>4, <1>5, <1>6, <1>7, <1>8, <1>9, <1>10, <1>11, <1>12, <1>13
  DEF Next

(* The inductive invariant holds in every state of every session: typed    *)
(* counters are exact, wrong positions are flagged, times are ordered.     *)
THEOREM CountInvariant == Spec => []CountInv
  BY InitInv, NextInv, PTL DEF Spec

(* Every variable of the session keeps its type; in particular no unsigned *)
(* counter of typing.c is ever decremented below zero.                     *)
THEOREM TypeCorrect == Spec => []TypeOK
<1>1. CountInv => TypeOK
  BY DEF CountInv
<1>. QED
  BY <1>1, CountInvariant, PTL

(* typedChars, wrongChars and totalWrongChars always say what the two      *)
(* buffers say, whatever keys are pressed on whatever text.                *)
THEOREM CountersCorrect == Spec => []CountersExact
<1>1. CountInv => CountersExact
  BY DEF CountInv
<1>. QED
  BY <1>1, CountInvariant, PTL

-----------------------------------------------------------------------------
(* The errors counted are among the characters counted, so the numerator   *)
(* of the accuracy is not negative, now or in the numbers on the screen.   *)
LEMMA FlaggedBound == CountInv => totalWrongChars <= typedChars
<1>. SUFFICES ASSUME CountInv PROVE totalWrongChars <= typedChars
  OBVIOUS
<1>1. typingCursor \in Nat
  BY TextLength DEF CountInv, TypeOK, Size
<1>2. Cardinality(Typed) = typingCursor /\ IsFiniteSet(Typed)
  BY <1>1, FS_Interval DEF Typed
<1>3. Cardinality(FlaggedPositions) <= Cardinality(Typed)
  BY <1>2, FS_Subset DEF FlaggedPositions
<1>. QED
  BY <1>2, <1>3 DEF CountInv, CountersExact

(* The part of AccuracyDefined about the numbers on the screen. *)
ShownBounded == shown.wrong <= shown.chars

(* The numbers shown are only ever copied from the counters or cleared. *)
LEMMA ShownNext ==
  ASSUME CountInv, ShownBounded, [Next]_vars
  PROVE ShownBounded'
<1>. USE DEF ShownBounded
<1>1. totalWrongChars <= typedChars /\ totalWrongChars \in Nat /\ typedChars \in Nat
  BY FlaggedBound DEF CountInv, TypeOK
<1>2. ASSUME ClearSession PROVE ShownBounded'
  BY <1>2 DEF ClearSession, NoStats, Stats
<1>3. ASSUME NEW c \in Char, TypeChar(c) PROVE ShownBounded'
  <2>1. CASE Complete(typedChars', wrongChars')
    BY <1>1, <1>3, <2>1 DEF TypeChar, endTyping, Stats, One
  <2>2. CASE ~Complete(typedChars', wrongChars')
    BY <1>3, <2>2 DEF TypeChar, KeepTyping
  <2>. QED
    BY <2>1, <2>2
<1>4. CASE Erase \/ (\E key \in Keys : IdleKey(key))
  BY <1>4 DEF Erase, IdleKey, KeepTyping
<1>5. CASE OpponentWon
  BY <1>1, <1>5 DEF OpponentWon, endTyping, Stats
<1>6. CASE Tick
  BY <1>1, <1>6 DEF Tick, startTyping, updateTypingInfo, Stats
<1>7. CASE LeaveToMain \/ UNCHANGED vars
  BY <1>7 DEF LeaveToMain, vars
<1>. QED
  BY <1>2, <1>3, <1>4, <1>5, <1>6, <1>7
  DEF Next, EnterTraining, NewTest, RaceAgreed, EnterRace, NewRace, OpponentLeft,
      generateText, resetTypingInfo

(* The accuracy of typing.c is never computed from a wrapped difference,   *)
(* neither from the running counters nor in the numbers shown.             *)
THEOREM AccuracyCorrect == Spec => []AccuracyDefined
<1>1. Init => ShownBounded
  BY DEF Init, ShownBounded, NoStats, Stats
<1>2. CountInv /\ ShownBounded /\ [Next]_vars => ShownBounded'
  BY ShownNext
<1>3. CountInv /\ ShownBounded => AccuracyDefined
  BY FlaggedBound DEF ShownBounded, AccuracyDefined
<1>. QED
  BY <1>1, <1>2, <1>3, CountInvariant, PTL DEF Spec

-----------------------------------------------------------------------------
(* While keys are awaited, a session whose cursor is at the end counts an  *)
(* error: what TypeChar establishes when it does not end the session.  A   *)
(* session that is yet to start has its cursor at the beginning.           *)
FullCountsError ==
    /\ status = "ready" => typingCursor = 0
    /\ status = "typing" /\ typingCursor = Size => wrongChars # 0

(* Every action keeps it; TypeChar and Erase by their exact counting. *)
LEMMA FullNext ==
  ASSUME CountInv, FullCountsError, [Next]_vars
  PROVE FullCountsError'
<1>. USE DEF FullCountsError
<1>1. ASSUME generateText(generatedText') \/ resetTypingInfo PROVE FullCountsError'
  BY <1>1 DEF generateText, resetTypingInfo, ClearSession
<1>2. ASSUME NEW c \in Char, TypeChar(c) PROVE FullCountsError'
  <2>1. CASE Complete(typedChars', wrongChars')
    BY <1>2, <2>1 DEF TypeChar, endTyping
  <2>2. CASE ~Complete(typedChars', wrongChars')
    BY <1>2, <2>2 DEF TypeChar, KeepTyping, Complete, CountInv, CountersExact, Size
  <2>. QED
    BY <2>1, <2>2
<1>3. CASE Erase
  BY <1>3, ListeningFacts DEF Erase, KeepTyping, Size
<1>4. ASSUME NEW key \in Keys, IdleKey(key) PROVE FullCountsError'
  <2>1. typingCursor # Size \/ status = "typing"
    BY <1>4, ListeningFacts DEF IdleKey, Listening
  <2>2. UNCHANGED <<typingCursor, Size, wrongChars>> /\ status' = "typing"
    BY <1>4 DEF IdleKey, KeepTyping, buffers, counters, Size
  <2>. QED
    BY <2>1, <2>2
<1>5. CASE OpponentWon
  BY <1>5 DEF OpponentWon, endTyping
<1>6. CASE Tick
  <2>1. UNCHANGED <<typingCursor, Size, wrongChars>>
    BY <1>6 DEF Tick, startTyping, buffers, counters, Size
  <2>2. CASE status' = status
    BY <2>1, <2>2
  <2>3. CASE status = "ready" /\ status' = "typing"
    BY <2>1, <2>3, TextLength DEF CountInv, TypeOK, Size
  <2>. QED
    BY <1>6, <2>2, <2>3 DEF Tick, startTyping
<1>7. CASE LeaveToMain \/ UNCHANGED vars
  BY <1>7 DEF LeaveToMain, vars, buffers, counters, Size
<1>. QED
  BY <1>1, <1>2, <1>3, <1>4, <1>5, <1>6, <1>7
  DEF Next, EnterTraining, NewTest, RaceAgreed, EnterRace, NewRace, OpponentLeft,
      generateText

(* The handler never misses the moment the text is right: a session that   *)
(* still takes keys with its cursor at the end holds a wrong character.    *)
THEOREM NeverStuck == Spec => []NeverStuckComplete
<1>1. Init => FullCountsError
  BY DEF Init, FullCountsError
<1>2. CountInv /\ FullCountsError /\ [Next]_vars => FullCountsError'
  BY FullNext
<1>3. CountInv /\ FullCountsError => NeverStuckComplete
  BY FS_EmptySet DEF CountInv, CountersExact, FullCountsError, NeverStuckComplete
<1>. QED
  BY <1>1, <1>2, <1>3, CountInvariant, PTL DEF Spec

-----------------------------------------------------------------------------
(* A full prefix without a wrong position means that the buffers agree. *)
LEMMA RightNext ==
  ASSUME CountInv, CountInv', FinishedRight, [Next]_vars
  PROVE FinishedRight'
<1>. USE DEF FinishedRight
<1>1. ASSUME generateText(generatedText') \/ resetTypingInfo PROVE FinishedRight'
  BY <1>1 DEF generateText, resetTypingInfo
<1>2. ASSUME NEW c \in Char, TypeChar(c) PROVE FinishedRight'
  <2>1. CASE Complete(typedChars', wrongChars')
    <3>1. generatedText' \in Texts /\ typingCursor' = Size' /\ Cardinality(WrongPositions') = 0
      BY <1>2, <2>1, ListeningFacts
      DEF TypeChar, Complete, CountInv, CountersExact, Size
    <3>2. WrongPositions' = {}
      <4>1. IsFiniteSet(WrongPositions')
        BY <3>1, TextLength, PrefixFinite DEF WrongPositions, Typed, Size
      <4>. QED
        BY <3>1, <4>1, FS_EmptySet
    <3>3. generatedText' \in [Positions' -> Char]
      BY <3>1, TextAssumption DEF Positions, Size
    <3>4. \A i \in Positions' : typedText'[i] = generatedText'[i]
      BY <3>1, <3>2 DEF WrongPositions, Typed, Positions
    <3>5. typedText' = generatedText'
      BY <3>3, <3>4 DEF CountInv, TypeOK
    <3>. QED
      BY <3>5
  <2>2. CASE ~Complete(typedChars', wrongChars')
    BY <1>2, <2>2 DEF TypeChar, KeepTyping
  <2>. QED
    BY <2>1, <2>2
<1>3. CASE Erase \/ \E key \in Keys : IdleKey(key)
  BY <1>3 DEF Erase, IdleKey, KeepTyping
<1>4. CASE OpponentWon
  BY <1>4 DEF OpponentWon
<1>5. CASE Tick
  BY <1>5 DEF Tick, startTyping, buffers, race
<1>6. CASE LeaveToMain \/ UNCHANGED vars
  BY <1>6 DEF LeaveToMain, vars, buffers, race
<1>. QED
  BY <1>1, <1>2, <1>3, <1>4, <1>5, <1>6
  DEF Next, EnterTraining, NewTest, RaceAgreed, EnterRace, NewRace, OpponentLeft,
      generateText

(* A training test ends, and a race is won, only with the text typed       *)
(* exactly.                                                                *)
THEOREM FinishCorrect == Spec => []FinishedRight
<1>1. Init => FinishedRight
  BY DEF Init, FinishedRight
<1>2. CountInv /\ CountInv' /\ FinishedRight /\ [Next]_vars => FinishedRight'
  BY RightNext
<1>. QED
  BY <1>1, <1>2, CountInvariant, PTL DEF Spec

-----------------------------------------------------------------------------
(* The number the countdown shows reaches zero one tick after startTime.   *)
LEMMA CountdownLemma ==
  ASSUME NEW t \in Nat, startTime \in Nat
  PROVE CountdownOver(t) <=> t > startTime
  BY TimeAssumption DEF CountdownOver, timeLeft

(* In a race nobody types before the countdown has run out. *)
THEOREM HeadStart == Spec => []NoHeadStart
<1>1. Init => NoHeadStart
  BY DEF Init, NoHeadStart
<1>2. ASSUME CountInv, NoHeadStart, [Next]_vars PROVE NoHeadStart'
  <2>1. CASE Tick
    <3>1. now' \in Nat /\ startTime \in Nat /\ timeStart \in Nat
      BY <1>2, <2>1, TimeAssumption DEF Tick, CountInv, TypeOK
    <3>2. CASE app = "raceState" /\ status = "ready" /\ CountdownOver(now')
      BY <2>1, <3>1, <3>2, CountdownLemma DEF Tick, startTyping, NoHeadStart, race
    <3>3. CASE ~(app = "raceState" /\ status = "ready" /\ CountdownOver(now'))
      BY <1>2, <2>1, <3>3 DEF Tick, NoHeadStart, race
    <3>. QED
      BY <3>2, <3>3
  <2>2. ASSUME Erase \/ \E key \in Keys : IdleKey(key) PROVE NoHeadStart'
    BY <1>2, <2>2 DEF Erase, IdleKey, Listening, KeepTyping, began, Starting, NoHeadStart
  <2>3. ASSUME NEW c \in Char, TypeChar(c) PROVE NoHeadStart'
    BY <1>2, <2>3
    DEF TypeChar, Listening, KeepTyping, endTyping, began, Starting, NoHeadStart
  <2>4. CASE OpponentWon
    BY <1>2, <2>4 DEF OpponentWon, endTyping, NoHeadStart
  <2>5. CASE LeaveToMain \/ UNCHANGED vars
    BY <1>2, <2>5 DEF LeaveToMain, vars, times, race, NoHeadStart
  <2>. QED
    BY <1>2, <2>1, <2>2, <2>3, <2>4, <2>5
    DEF Next, EnterTraining, NewTest, RaceAgreed, EnterRace, NewRace, OpponentLeft,
        generateText, resetTypingInfo, NoHeadStart
<1>. QED
  BY <1>1, <1>2, CountInvariant, PTL DEF Spec

-----------------------------------------------------------------------------
(* Backspace finds every wrong character flagged, so wrongChars comes back *)
(* to zero when the errors are erased.                                     *)
THEOREM WrongFlagged == Spec => []WrongIsFlagged
<1>1. CountInv => WrongIsFlagged
  BY DEF CountInv
<1>. QED
  BY <1>1, CountInvariant, PTL

(* Every action moves the cursor and the zeros behind it together. *)
LEMMA ZeroNext ==
  ASSUME CountInv, NulFromCursor, [Next]_vars
  PROVE NulFromCursor'
<1>. USE DEF NulFromCursor
<1>1. ASSUME NEW text \in Texts, generateText(text) PROVE NulFromCursor'
  BY <1>1, TextLength DEF generateText, ClearSession, Positions, Size
<1>2. ASSUME resetTypingInfo PROVE NulFromCursor'
  BY <1>2 DEF resetTypingInfo, Positions, Size
<1>3. ASSUME NEW c \in Char, TypeChar(c) PROVE NulFromCursor'
  <2>1. /\ Size \in Nat /\ typingCursor \in Nat /\ Positions' = Positions
        /\ c # NUL /\ typingCursor' = typingCursor + 1
    BY <1>3, ListeningFacts, CharAssumption DEF TypeChar, Positions, Size
  <2>2. \A i \in Positions : typedText'[i] = IF i = typingCursor + 1 THEN c ELSE typedText[i]
    BY <1>3 DEF TypeChar, CountInv, TypeOK
  <2>3. ASSUME NEW i \in Positions
        PROVE (typedText'[i] = NUL) <=> (i > typingCursor')
    <3>1. i \in Nat /\ ((typedText[i] = NUL) <=> (i > typingCursor))
      BY <2>1, <2>3 DEF Positions
    <3>2. CASE i = typingCursor + 1
      BY <2>1, <2>2, <3>1, <3>2
    <3>3. CASE i # typingCursor + 1
      <4>1. typedText'[i] = typedText[i]
        BY <2>2, <3>3
      <4>2. (i > typingCursor) <=> (i > typingCursor')
        BY <2>1, <3>1, <3>3
      <4>. QED
        BY <3>1, <4>1, <4>2
    <3>. QED
      BY <3>2, <3>3
  <2>. QED
    BY <2>1, <2>3
<1>4. CASE Erase
  <2>1. /\ Size \in Nat /\ typingCursor \in Nat /\ Positions' = Positions
        /\ typingCursor' = typingCursor - 1
    BY <1>4, ListeningFacts DEF Erase, Positions, Size
  <2>2. \A i \in Positions : typedText'[i] = IF i = typingCursor THEN NUL ELSE typedText[i]
    BY <1>4 DEF Erase, ErasedText, CountInv, TypeOK
  <2>3. ASSUME NEW i \in Positions
        PROVE (typedText'[i] = NUL) <=> (i > typingCursor')
    <3>1. i \in Nat /\ ((typedText[i] = NUL) <=> (i > typingCursor))
      BY <2>1, <2>3 DEF Positions
    <3>2. CASE i = typingCursor
      BY <2>1, <2>2, <3>1, <3>2
    <3>3. CASE i # typingCursor
      <4>1. typedText'[i] = typedText[i]
        BY <2>2, <3>3
      <4>2. (i > typingCursor) <=> (i > typingCursor')
        BY <2>1, <3>1, <3>3
      <4>. QED
        BY <3>1, <4>1, <4>2
    <3>. QED
      BY <3>2, <3>3
  <2>. QED
    BY <2>1, <2>3
<1>5. ASSUME UNCHANGED <<buffers, counters>> PROVE NulFromCursor'
  BY <1>5 DEF buffers, counters, Positions, Size
<1>6. CASE Tick
  BY <1>5, <1>6 DEF Tick, startTyping
<1>7. CASE \E key \in Keys : IdleKey(key)
  BY <1>5, <1>7 DEF IdleKey
<1>8. CASE OpponentWon \/ LeaveToMain \/ UNCHANGED vars
  BY <1>5, <1>8 DEF OpponentWon, LeaveToMain, vars
<1>. QED
  BY <1>1, <1>2, <1>3, <1>4, <1>6, <1>7, <1>8
  DEF Next, EnterTraining, NewTest, RaceAgreed, EnterRace, NewRace, OpponentLeft

(* What is drawn as typed is what lies before the cursor: typedText has    *)
(* its first zero byte at the cursor and only zeros from there on.         *)
THEOREM ZerosFromCursor == Spec => []NulFromCursor
<1>1. Init => NulFromCursor
  BY DEF Init, NulFromCursor, Positions, Size
<1>2. CountInv /\ NulFromCursor /\ [Next]_vars => NulFromCursor'
  BY ZeroNext
<1>. QED
  BY <1>1, <1>2, CountInvariant, PTL DEF Spec

-----------------------------------------------------------------------------
(* The finished screen shows the final counters and times, whoever ended   *)
(* the session and whenever the numbers were last refreshed.               *)
THEOREM FinalShown == Spec => []FinalNumbers
<1>1. Init => FinalNumbers
  BY DEF Init, FinalNumbers
<1>2. ASSUME CountInv, FinalNumbers, [Next]_vars PROVE FinalNumbers'
  <2>. USE DEF FinalNumbers
  <2>1. ASSUME NEW c \in Char, TypeChar(c) PROVE FinalNumbers'
    <3>1. CASE Complete(typedChars', wrongChars')
      BY <2>1, <3>1 DEF TypeChar, endTyping
    <3>2. CASE ~Complete(typedChars', wrongChars')
      BY <2>1, <3>2 DEF TypeChar, KeepTyping
    <3>. QED
      BY <3>1, <3>2
  <2>2. CASE Erase \/ \E key \in Keys : IdleKey(key)
    BY <2>2 DEF Erase, IdleKey, KeepTyping
  <2>3. CASE OpponentWon
    BY <2>3 DEF OpponentWon, endTyping, counters
  <2>4. CASE Tick
    BY <1>2, <2>4 DEF Tick, startTyping, updateTypingInfo, counters
  <2>5. CASE LeaveToMain \/ UNCHANGED vars
    BY <1>2, <2>5 DEF LeaveToMain, vars, counters, times
  <2>. QED
    BY <1>2, <2>1, <2>2, <2>3, <2>4, <2>5
    DEF Next, EnterTraining, NewTest, RaceAgreed, EnterRace, NewRace, OpponentLeft,
        generateText, resetTypingInfo
<1>. QED
  BY <1>1, <1>2, CountInvariant, PTL DEF Spec

-----------------------------------------------------------------------------
(* What the typist sees (DrawnText).  The picture is built character by    *)
(* character, so a property of it is proved by induction over how far it   *)
(* has been drawn.                                                         *)
Less == {pair \in Nat \X Nat : pair[1] < pair[2]}

(* The order that induction over the positions needs. *)
LEMMA LessWellFounded == IsWellFoundedOn(Less, Nat)
  BY NatLessThanWellFounded DEF OpToRel, Less

(* A set of natural numbers has a least element, and Min is it. *)
LEMMA LeastElement ==
  ASSUME NEW T \in SUBSET Nat, T # {}
  PROVE  Min(T) \in T /\ \A y \in T : Min(T) <= y
<1>1. PICK x \in T : \A y \in T : ~ (<<y, x>> \in Less)
  BY WFMin, LessWellFounded
<1>2. \A y \in T : x <= y
  <2>. SUFFICES ASSUME NEW y \in T, y < x PROVE FALSE
    OBVIOUS
  <2>1. <<y, x>> \in Nat \X Nat
    OBVIOUS
  <2>. QED
    BY <1>1, <2>1 DEF Less
<1>. QED
  BY <1>2 DEF Min

(* A set with 0 and every successor of its numbers has all numbers. *)
LEMMA SetInduction ==
  ASSUME NEW S, 0 \in S, \A n \in Nat : n \in S => n + 1 \in S
  PROVE  Nat \subseteq S
<1> DEFINE T == Nat \ S
<1>. SUFFICES ASSUME T # {} PROVE FALSE
  OBVIOUS
<1>1. T \in SUBSET Nat
  OBVIOUS
<1>. HIDE DEF T
<1>2. Min(T) \in T /\ \A y \in T : Min(T) <= y
  BY <1>1, LeastElement
<1>. DEFINE x == Min(T)
<1>. HIDE DEF x
<1>3. x \in T /\ \A y \in T : x <= y
  BY <1>2 DEF x
<1>4. x \in Nat /\ x \notin S
  BY <1>3 DEF T
<1>5. x - 1 \in Nat /\ ~(x <= x - 1) /\ (x - 1) + 1 = x
  BY <1>4
<1>6. x - 1 \in S
  BY <1>3, <1>5 DEF T
<1>. QED
  BY <1>4, <1>5, <1>6

(* The next space, or the end of the text, and no space before it. *)
LEMMA NextSpaceFacts ==
  ASSUME NEW text, Len(text) \in Nat, NEW i \in 1..(Len(text) + 1)
  PROVE  /\ NextSpace(text, i) \in i..(Len(text) + 1)
         /\ NextSpace(text, i) <= Len(text) => text[NextSpace(text, i)] = Space
         /\ \A k \in i..(NextSpace(text, i) - 1) : text[k] # Space
<1> DEFINE T == {k \in i..Len(text) : text[k] = Space} \cup {Len(text) + 1}
<1>1. T \in SUBSET Nat /\ T # {}
  OBVIOUS
<1>2. \A k \in T : k \in i..(Len(text) + 1) /\ (k <= Len(text) => text[k] = Space)
  OBVIOUS
<1>3. \A k \in i..Len(text) : k \notin T => text[k] # Space
  OBVIOUS
<1>4. NextSpace(text, i) = Min(T)
  BY DEF NextSpace
<1>. HIDE DEF T
<1>5. Min(T) \in T /\ \A y \in T : Min(T) <= y
  BY <1>1, LeastElement
<1> DEFINE m == Min(T)
<1>6. m \in T /\ \A y \in T : m <= y
  BY <1>5
<1>. HIDE DEF m
<1>7. m \in i..(Len(text) + 1) /\ (m <= Len(text) => text[m] = Space)
  BY <1>2, <1>6
<1>8. ASSUME NEW k \in i..(m - 1) PROVE text[k] # Space
  <2>1. k \in i..Len(text) /\ k < m
    BY <1>7
  <2>2. k \notin T
    BY <1>6, <1>7, <2>1
  <2>. QED
    BY <1>3, <2>1, <2>2
<1>. QED
  BY <1>4, <1>7, <1>8 DEF m

(* The pointer to the next space at a space, and between two spaces. *)
LEMMA NextSpaceStep ==
  ASSUME NEW text, Len(text) \in Nat, NEW i \in 1..Len(text)
  PROVE  /\ text[i] = Space <=> NextSpace(text, i) = i
         /\ text[i] # Space => NextSpace(text, i) = NextSpace(text, i + 1)
         /\ NextSpace(text, i) \in i..(Len(text) + 1)
         /\ NextSpace(text, i + 1) \in (i + 1)..(Len(text) + 1)
<1> DEFINE here == NextSpace(text, i)
           next == NextSpace(text, i + 1)
<1>1. /\ here \in i..(Len(text) + 1)
      /\ here <= Len(text) => text[here] = Space
      /\ \A k \in i..(here - 1) : text[k] # Space
  BY NextSpaceFacts
<1>2. i + 1 \in 1..(Len(text) + 1)
  OBVIOUS
<1>3. /\ next \in (i + 1)..(Len(text) + 1)
      /\ next <= Len(text) => text[next] = Space
      /\ \A k \in (i + 1)..(next - 1) : text[k] # Space
  BY <1>2, NextSpaceFacts
<1>. HIDE DEF here, next
<1>4. text[i] = Space <=> here = i
  BY <1>1
<1>5. ASSUME text[i] # Space PROVE here = next
  <2>1. here \in (i + 1)..(Len(text) + 1)
    BY <1>1, <1>4, <1>5
  <2>2. ~(here < next)
    BY <1>1, <1>3, <2>1
  <2>3. ~(next < here)
    BY <1>1, <1>3, <2>1
  <2>. QED
    BY <1>3, <2>1, <2>2, <2>3
<1>. QED
  BY <1>1, <1>3, <1>4, <1>5 DEF here, next

(* The line a character is in begins after the last break before it.       *)
LEMMA LineStartIs ==
  ASSUME NEW breaks \in SUBSET Nat, NEW i \in Nat \ {0}, NEW x \in breaks \cup {0}, x < i,
         \A s \in breaks : s < i => s <= x
  PROVE  LineStart(breaks, i) = x
<1> DEFINE T == {s \in breaks : s < i} \cup {0}
<1>1. x \in T /\ x \in Nat /\ \A y \in T : x >= y
  OBVIOUS
<1>2. \A y \in T : y \in Nat
  OBVIOUS
<1>. HIDE DEF T
<1>3. \A z \in T : (\A y \in T : z >= y) => z = x
  BY <1>1, <1>2
<1>4. Max(T) = x
  BY <1>1, <1>3 DEF Max
<1>. QED
  BY <1>4 DEF LineStart, T

(* A later break moves nothing that is already drawn.                      *)
LEMMA PlaceStable ==
  ASSUME NEW breaks \in SUBSET Nat, NEW n \in Nat, NEW i \in 0..n
  PROVE  /\ LineStart(breaks \cup {n}, i) = LineStart(breaks, i)
         /\ PlaceOf(breaks \cup {n}, i) = PlaceOf(breaks, i)
<1>1. {s \in breaks \cup {n} : s < i} = {s \in breaks : s < i}
  OBVIOUS
<1>. QED
  BY <1>1 DEF LineStart, PlaceOf

(* The same with or without a break at the last character. *)
LEMMA PlacesStable ==
  ASSUME NEW breaks \in SUBSET Nat, NEW n \in Nat, NEW wider \in {breaks, breaks \cup {n}},
         NEW i \in 0..n
  PROVE  PlaceOf(wider, i) = PlaceOf(breaks, i)
  BY PlaceStable

-----------------------------------------------------------------------------
(* The pictures, and one character added to one of them. *)
Places == [col : Nat, row : Nat]
Cells  == [at : Nat, place : Places, colour : {"right", "wrong", "unwritten"},
           underlined : BOOLEAN]
Pens   == [col : Nat, row : Nat, nextWord : Nat]
Pictures == [pen : Pens, cells : Seq(Cells), marks : Seq(Places), hidden : SUBSET Nat,
             wrongFromHere : BOOLEAN]

Readable == TypeOK /\ NulFromCursor

DrawNext(picture, i) ==
    IF i < FirstZero THEN DrawTyped(picture, i) ELSE DrawRest(picture, i)

WrongAt(i) == i <= typingCursor /\ typedText[i] # generatedText[i]

Character(picture, i) ==
    [at |-> i, place |-> Place(picture.pen),
     colour |-> IF i > typingCursor THEN "unwritten"
                ELSE IF WrongAt(i) THEN "wrong" ELSE "right",
     underlined |-> i <= typingCursor /\ (picture.wrongFromHere \/ WrongAt(i))]

(* One field of a picture changed: the pen. *)
LEMMA WithPen ==
  ASSUME NEW p \in Pictures, NEW v \in Pens
  PROVE  LET q == [p EXCEPT !.pen = v]
         IN  /\ q \in Pictures
             /\ q.pen = v /\ q.cells = p.cells /\ q.marks = p.marks
             /\ q.hidden = p.hidden /\ q.wrongFromHere = p.wrongFromHere
  BY DEF Pictures

(* Another mark. *)
LEMMA WithMarks ==
  ASSUME NEW p \in Pictures, NEW v \in Seq(Places)
  PROVE  LET q == [p EXCEPT !.marks = v]
         IN  /\ q \in Pictures
             /\ q.pen = p.pen /\ q.cells = p.cells /\ q.marks = v
             /\ q.hidden = p.hidden /\ q.wrongFromHere = p.wrongFromHere
  BY DEF Pictures

(* Another break. *)
LEMMA WithHidden ==
  ASSUME NEW p \in Pictures, NEW v \in SUBSET Nat
  PROVE  LET q == [p EXCEPT !.hidden = v]
         IN  /\ q \in Pictures
             /\ q.pen = p.pen /\ q.cells = p.cells /\ q.marks = p.marks
             /\ q.hidden = v /\ q.wrongFromHere = p.wrongFromHere
  BY DEF Pictures

(* Other cells. *)
LEMMA WithCells ==
  ASSUME NEW p \in Pictures, NEW v \in Seq(Cells)
  PROVE  LET q == [p EXCEPT !.cells = v]
         IN  /\ q \in Pictures
             /\ q.pen = p.pen /\ q.cells = v /\ q.marks = p.marks
             /\ q.hidden = p.hidden /\ q.wrongFromHere = p.wrongFromHere
  BY DEF Pictures

(* The underlining begun, or not. *)
LEMMA WithWrong ==
  ASSUME NEW p \in Pictures, NEW v \in BOOLEAN
  PROVE  LET q == [p EXCEPT !.wrongFromHere = v]
         IN  /\ q \in Pictures
             /\ q.pen = p.pen /\ q.cells = p.cells /\ q.marks = p.marks
             /\ q.hidden = p.hidden /\ q.wrongFromHere = v
  BY DEF Pictures

(* The first loop of drawTypingTest ends at the cursor. *)
LEMMA FirstZeroIs == ASSUME Readable PROVE FirstZero = typingCursor + 1
<1> DEFINE T == {i \in Positions : typedText[i] = NUL} \cup {Size + 1}
           c == typingCursor + 1
<1>1. Size \in Nat /\ typingCursor \in 0..Size
  BY TextLength DEF Readable, TypeOK, Size
<1>2. c \in T /\ c \in Nat /\ \A y \in T : y \in Nat /\ c <= y
  BY <1>1 DEF Readable, NulFromCursor, Positions
<1>3. FirstZero = Min(T)
  BY DEF FirstZero
<1>. HIDE DEF T, c
<1>4. \A z \in T : (\A y \in T : z <= y) => z = c
  BY <1>2
<1>5. Min(T) = c
  BY <1>2, <1>4 DEF Min
<1>. QED
  BY <1>3, <1>5 DEF c

(* The text that is drawn. *)
LEMMA TextDrawn ==
  ASSUME Readable
  PROVE  /\ Len(generatedText) \in Nat /\ Size = Len(generatedText)
         /\ DOMAIN generatedText = Positions /\ Positions = 1..Len(generatedText)
         /\ typingCursor \in 0..Len(generatedText)
<1>1. generatedText \in Seq(Char)
  <2>1. <<>> \in Seq(Char)
    OBVIOUS
  <2>. QED
    BY <2>1, TextAssumption DEF Readable, TypeOK
<1>2. Len(generatedText) \in Nat /\ DOMAIN generatedText = 1..Len(generatedText)
  BY <1>1
<1>. QED
  BY <1>2 DEF Readable, TypeOK, Positions, Size

(* What one character adds to the picture. *)
LEMMA DrawNextFields ==
  ASSUME Readable, NEW p \in Pictures, NEW i \in Positions
  PROVE  /\ DrawNext(p, i) \in Pictures
         /\ DrawNext(p, i).pen = MovePen(generatedText, p.pen, i)
         /\ DrawNext(p, i).marks = IF typingCursor + 1 = i THEN Append(p.marks, Place(p.pen))
                                   ELSE p.marks
         /\ Breaks(generatedText, p.pen, i) =>
              /\ DrawNext(p, i).hidden = p.hidden \cup {i}
              /\ DrawNext(p, i).cells = p.cells
              /\ DrawNext(p, i).wrongFromHere = p.wrongFromHere
         /\ ~Breaks(generatedText, p.pen, i) =>
              /\ DrawNext(p, i).hidden = p.hidden
              /\ DrawNext(p, i).cells = Append(p.cells, Character(p, i))
              /\ DrawNext(p, i).wrongFromHere = (p.wrongFromHere \/ WrongAt(i))
<1> DEFINE m == MarkIfCursor(p, i)
           pen == MovePen(generatedText, p.pen, i)
<1>1. i \in Nat /\ i \in 1..Len(generatedText) /\ Len(generatedText) \in Nat
  BY TextDrawn
<1>2. typingCursor \in Nat
  BY TextDrawn
<1>3. /\ p.pen \in Pens /\ p.cells \in Seq(Cells) /\ p.marks \in Seq(Places)
      /\ p.hidden \in SUBSET Nat /\ p.wrongFromHere \in BOOLEAN
  BY DEF Pictures
<1>4. pen \in Pens
  <2>1. NextSpace(generatedText, i + 1) \in Nat
    BY <1>1, NextSpaceStep
  <2>. QED
    BY <1>3, <2>1 DEF Pens, MovePen
<1>5. Place(p.pen) \in Places
  BY <1>3 DEF Pens, Places, Place
<1>6. /\ m \in Pictures /\ m.pen = p.pen /\ m.cells = p.cells /\ m.hidden = p.hidden
      /\ m.wrongFromHere = p.wrongFromHere
      /\ m.marks = IF typingCursor + 1 = i THEN Append(p.marks, Place(p.pen)) ELSE p.marks
  <2>1. Append(p.marks, Place(p.pen)) \in Seq(Places)
    BY <1>3, <1>5
  <2>. QED
    BY <2>1, WithMarks DEF MarkIfCursor, Mark
<1>. HIDE DEF m, pen
<1>7. ASSUME NEW colour \in {"right", "wrong", "unwritten"}, NEW u \in BOOLEAN
      PROVE  LET b == Put(m, i, colour, u)
                 cell == [at |-> i, place |-> Place(p.pen), colour |-> colour,
                          underlined |-> u]
             IN  /\ b \in Pictures /\ b.pen = pen /\ b.marks = m.marks
                 /\ Breaks(generatedText, p.pen, i) =>
                      /\ b.hidden = p.hidden \cup {i} /\ b.cells = p.cells
                      /\ b.wrongFromHere = p.wrongFromHere
                 /\ ~Breaks(generatedText, p.pen, i) =>
                      /\ b.hidden = p.hidden /\ b.cells = Append(p.cells, cell)
                      /\ b.wrongFromHere = u
  <2> DEFINE moved == [m EXCEPT !.pen = pen]
             cell == [at |-> i, place |-> Place(p.pen), colour |-> colour, underlined |-> u]
             b == Put(m, i, colour, u)
             broken == [moved EXCEPT !.hidden = p.hidden \cup {i}]
             more == [moved EXCEPT !.cells = Append(p.cells, cell)]
             drawn == [more EXCEPT !.wrongFromHere = u]
  <2>1. /\ moved \in Pictures /\ moved.pen = pen /\ moved.marks = m.marks
        /\ moved.hidden = p.hidden /\ moved.cells = p.cells
        /\ moved.wrongFromHere = p.wrongFromHere
    BY <1>4, <1>6, WithPen
  <2>2. Append(p.cells, cell) \in Seq(Cells)
    <3>1. cell \in Cells
      BY <1>1, <1>5, <1>7 DEF Cells
    <3>. HIDE DEF cell
    <3>. QED
      BY <1>3, <3>1
  <2>3. p.hidden \cup {i} \in SUBSET Nat
    BY <1>1, <1>3
  <2>4. Breaks(generatedText, p.pen, i) => b = broken
    <3>. HIDE DEF cell
    <3>. QED
      BY <1>6, <2>1 DEF Put, pen
  <2>5. ~Breaks(generatedText, p.pen, i) => b = drawn
    <3>1. ~Breaks(generatedText, p.pen, i) =>
            b = [moved EXCEPT !.cells = Append(@, cell), !.wrongFromHere = u]
      BY <1>6, <2>1 DEF Put, pen
    <3>. HIDE DEF cell, b
    <3>2. [moved EXCEPT !.cells = Append(@, cell), !.wrongFromHere = u]
            = [more EXCEPT !.wrongFromHere = u]
      BY <2>1
    <3>. QED
      BY <3>1, <3>2
  <2>. HIDE DEF moved, b, cell, broken, more, drawn
  <2>6. /\ more \in Pictures /\ more.pen = pen /\ more.marks = m.marks
        /\ more.hidden = p.hidden /\ more.cells = Append(p.cells, cell)
    BY <2>1, <2>2, WithCells DEF more
  <2>7. /\ broken \in Pictures /\ broken.pen = pen /\ broken.marks = m.marks
        /\ broken.hidden = p.hidden \cup {i} /\ broken.cells = p.cells
        /\ broken.wrongFromHere = p.wrongFromHere
    BY <2>1, <2>3, WithHidden DEF broken
  <2>8. /\ drawn \in Pictures /\ drawn.pen = pen /\ drawn.marks = m.marks
        /\ drawn.hidden = p.hidden /\ drawn.cells = Append(p.cells, cell)
        /\ drawn.wrongFromHere = u
    BY <1>7, <2>6, WithWrong DEF drawn
  <2>9. /\ b \in Pictures /\ b.pen = pen /\ b.marks = m.marks
        /\ Breaks(generatedText, p.pen, i) =>
             /\ b.hidden = p.hidden \cup {i} /\ b.cells = p.cells
             /\ b.wrongFromHere = p.wrongFromHere
        /\ ~Breaks(generatedText, p.pen, i) =>
             /\ b.hidden = p.hidden /\ b.cells = Append(p.cells, cell)
             /\ b.wrongFromHere = u
    BY <2>4, <2>5, <2>7, <2>8
  <2>. QED
    BY <2>9 DEF b, cell
<1>8. CASE i <= typingCursor
  <2> DEFINE w == typedText[i] # generatedText[i]
             u == p.wrongFromHere \/ w
             colour == IF w THEN "wrong" ELSE "right"
             b == Put(m, i, colour, u)
  <2>1. DrawNext(p, i) = b
    BY <1>1, <1>2, <1>6, <1>8, FirstZeroIs DEF DrawNext, DrawTyped, m
  <2>2. u \in BOOLEAN /\ colour \in {"right", "wrong", "unwritten"}
    BY <1>3
  <2>3. Character(p, i) = [at |-> i, place |-> Place(p.pen), colour |-> colour,
                           underlined |-> u]
    BY <1>1, <1>2, <1>3, <1>8 DEF Character, WrongAt
  <2>4. u = (p.wrongFromHere \/ WrongAt(i))
    BY <1>8 DEF WrongAt
  <2>. HIDE DEF u, colour
  <2>5. /\ b \in Pictures /\ b.pen = pen /\ b.marks = m.marks
        /\ Breaks(generatedText, p.pen, i) =>
             /\ b.hidden = p.hidden \cup {i} /\ b.cells = p.cells
             /\ b.wrongFromHere = p.wrongFromHere
        /\ ~Breaks(generatedText, p.pen, i) =>
             /\ b.hidden = p.hidden /\ b.cells = Append(p.cells, Character(p, i))
             /\ b.wrongFromHere = u
    BY <1>7, <2>2, <2>3
  <2>. QED
    BY <1>6, <2>1, <2>4, <2>5 DEF pen
<1>9. CASE ~(i <= typingCursor)
  <2> DEFINE b == Put(m, i, "unwritten", FALSE)
  <2>1. DrawNext(p, i) = [b EXCEPT !.wrongFromHere = p.wrongFromHere]
    BY <1>1, <1>2, <1>6, <1>9, FirstZeroIs DEF DrawNext, DrawRest, m
  <2>2. Character(p, i) = [at |-> i, place |-> Place(p.pen), colour |-> "unwritten",
                           underlined |-> FALSE]
    <3>1. i > typingCursor
      BY <1>1, <1>2, <1>9
    <3>2. (i <= typingCursor /\ (p.wrongFromHere \/ WrongAt(i))) = FALSE
      BY <1>9
    <3>. QED
      BY <3>1, <3>2, Zenon DEF Character
  <2>3. ~WrongAt(i)
    BY <1>9 DEF WrongAt
  <2>4. /\ b \in Pictures /\ b.pen = pen /\ b.marks = m.marks
        /\ Breaks(generatedText, p.pen, i) =>
             b.hidden = p.hidden \cup {i} /\ b.cells = p.cells
        /\ ~Breaks(generatedText, p.pen, i) =>
             b.hidden = p.hidden /\ b.cells = Append(p.cells, Character(p, i))
    BY <1>7, <2>2
  <2>. HIDE DEF b
  <2>5. /\ DrawNext(p, i) \in Pictures /\ DrawNext(p, i).pen = pen
        /\ DrawNext(p, i).marks = m.marks /\ DrawNext(p, i).hidden = b.hidden
        /\ DrawNext(p, i).cells = b.cells
        /\ DrawNext(p, i).wrongFromHere = p.wrongFromHere
    BY <1>3, <2>1, <2>4, WithWrong
  <2>6. p.wrongFromHere = (p.wrongFromHere \/ WrongAt(i))
    BY <1>3, <2>3
  <2>. QED
    BY <1>6, <2>4, <2>5, <2>6 DEF pen
<1>. QED
  BY <1>8, <1>9

(* One more character drawn. *)
LEMMA OneMoreCell ==
  ASSUME NEW s \in Seq(Cells), NEW c \in Cells
  PROVE  /\ DOMAIN Append(s, c) = DOMAIN s \cup {Len(s) + 1}
         /\ Append(s, c)[Len(s) + 1] = c
         /\ \A k \in DOMAIN s : Append(s, c)[k] = s[k] /\ k \in Nat /\ k < Len(s) + 1
         /\ Len(s) \in Nat
  OBVIOUS

(* The character the picture grows by has its type. *)
LEMMA CharacterIsCell ==
  ASSUME Readable, NEW p \in Pictures, NEW i \in Nat
  PROVE  Character(p, i) \in Cells
<1>1. Place(p.pen) \in Places /\ p.wrongFromHere \in BOOLEAN
  BY DEF Pictures, Pens, Places, Place
<1>2. typingCursor \in Nat
  BY TextDrawn
<1>3. WrongAt(i) \in BOOLEAN
  BY DEF WrongAt
<1>4. (IF i > typingCursor THEN "unwritten" ELSE IF WrongAt(i) THEN "wrong" ELSE "right")
        \in {"right", "wrong", "unwritten"}
  OBVIOUS
<1>5. (i <= typingCursor /\ (p.wrongFromHere \/ WrongAt(i))) \in BOOLEAN
  OBVIOUS
<1>. QED
  BY <1>1, <1>4, <1>5 DEF Character, Cells

(* The two loops draw one character after the other. *)
LEMMA DrawnSteps ==
  ASSUME Readable
  PROVE  \E f : /\ f[0] = Blank
                /\ \A n \in 1..Size : f[n] = DrawNext(f[n - 1], n)
                /\ drawTypingTest = MarkAtEnd(f[Size])
<1> DEFINE Steps(f, k) == f = [n \in 0..k |-> IF n = 0 THEN Blank ELSE DrawNext(f[n - 1], n)]
           S == {k \in Nat : \E f : Steps(f, k)}
<1>1. 0 \in S
  <2>1. Steps([n \in 0..0 |-> Blank], 0)
    OBVIOUS
  <2>. QED
    BY <2>1
<1>2. ASSUME NEW k \in Nat, k \in S PROVE k + 1 \in S
  <2>1. PICK f : Steps(f, k)
    BY <1>2
  <2> DEFINE g == [n \in 0..(k + 1) |-> IF n <= k THEN f[n] ELSE DrawNext(f[k], k + 1)]
  <2>2. ASSUME NEW n \in 0..(k + 1)
        PROVE g[n] = IF n = 0 THEN Blank ELSE DrawNext(g[n - 1], n)
    <3>1. CASE n = 0
      BY <2>1, <3>1
    <3>2. CASE n \in 1..k
      BY <2>1, <3>2
    <3>3. CASE n = k + 1
      BY <3>3
    <3>. QED
      BY <3>1, <3>2, <3>3
  <2>3. Steps(g, k + 1)
    BY <2>2
  <2>4. \E h : Steps(h, k + 1)
    <3>. HIDE DEF g, Steps
    <3>. QED
      BY <2>3
  <2>. QED
    BY <2>4
<1>3. Size \in Nat
  BY TextDrawn
<1>4. \E f : Steps(f, Size)
  <2>. HIDE DEF S
  <2>1. Size \in S
    BY <1>1, <1>2, <1>3, SetInduction
  <2>. QED
    BY <2>1 DEF S
<1> DEFINE after == CHOOSE f : Steps(f, Size)
<1>5. Steps(after, Size)
  BY <1>4
<1>6. drawTypingTest = MarkAtEnd(after[Size])
  BY DEF drawTypingTest, DrawNext
<1>7. after[0] = Blank /\ \A n \in 1..Size : after[n] = DrawNext(after[n - 1], n)
  <2>. HIDE DEF after
  <2>. QED
    BY <1>3, <1>5
<1>. QED
  BY <1>6, <1>7

-----------------------------------------------------------------------------
(* The picture after n characters.  The pen stands where the greedy line   *)
(* breaking of the text puts the next character, and the breaks so far are *)
(* the greedy ones; when every word fits a line, so does the current one.  *)
LastBreak(p, n) == n - p.pen.col

Walked(p, n) ==
    /\ p.pen.nextWord = NextSpace(generatedText, n + 1)
    /\ p.pen.col \in 0..n
    /\ p.pen.row = Cardinality(p.hidden)
    /\ p.hidden \subseteq 1..n
    /\ LastBreak(p, n) \in p.hidden \cup {0}
    /\ \A s \in p.hidden : s <= LastBreak(p, n)
    /\ \A s \in p.hidden : generatedText[s] = Space
    /\ \A s \in 1..n : generatedText[s] = Space =>
         (s \in p.hidden <=>
            NextSpace(generatedText, s + 1) - 1 - LineStart(p.hidden, s) > Columns)
    /\ WordsFit(generatedText) =>
         NextSpace(generatedText, n + 1) - 1 - LastBreak(p, n) <= Columns

(* Every character but the breaks is drawn once, in order, in its place.   *)
Placed(p, n) ==
    /\ \A k \in DOMAIN p.cells : p.cells[k].at \in (1..n) \ p.hidden
    /\ \A i \in (1..n) \ p.hidden : \E k \in DOMAIN p.cells : p.cells[k].at = i
    /\ \A k, l \in DOMAIN p.cells : k < l => p.cells[k].at < p.cells[l].at
    /\ \A k \in DOMAIN p.cells :
         /\ p.cells[k].place = PlaceOf(p.hidden, p.cells[k].at)
         /\ WordsFit(generatedText) => p.cells[k].place.col < Columns

Marked(p, n) ==
    p.marks = IF typingCursor + 1 <= n THEN <<PlaceOf(p.hidden, typingCursor + 1)>> ELSE <<>>

(* The positions that are wrong and drawn, up to the n-th. *)
WrongDrawn(p, n) == {j \in (1..n) \ p.hidden : WrongAt(j)}

Coloured(p, n) ==
    /\ p.wrongFromHere = (WrongDrawn(p, n) # {})
    /\ \A k \in DOMAIN p.cells :
         /\ p.cells[k].underlined =
              (p.cells[k].at <= typingCursor /\ WrongDrawn(p, p.cells[k].at) # {})
         /\ p.cells[k].colour = "wrong" <=> WrongAt(p.cells[k].at)
         /\ p.cells[k].colour = "unwritten" <=> p.cells[k].at > typingCursor

DrawnInv(p, n) ==
    p \in Pictures /\ Walked(p, n) /\ Placed(p, n) /\ Marked(p, n) /\ Coloured(p, n)

(* Nothing is drawn yet. *)
LEMMA DrawnInit == ASSUME Readable PROVE DrawnInv(Blank, 0)
<1>1. NextSpace(generatedText, 1) \in Nat
  BY TextDrawn, NextSpaceFacts
<1>2. Blank = [pen |-> [col |-> 0, row |-> 0, nextWord |-> NextSpace(generatedText, 1)],
               cells |-> <<>>, marks |-> <<>>, hidden |-> {}, wrongFromHere |-> FALSE]
  BY DEF Blank, StartPen
<1>3. Blank \in Pictures
  <2>1. <<>> \in Seq(Cells) /\ <<>> \in Seq(Places)
    OBVIOUS
  <2>. QED
    BY <1>1, <1>2, <2>1 DEF Pictures, Pens
<1>4. Walked(Blank, 0)
  <2>1. WordsFit(generatedText) => NextSpace(generatedText, 0 + 1) - 1 - 0 <= Columns
    BY TextDrawn DEF WordsFit
  <2>2. Cardinality({}) = 0
    BY FS_EmptySet
  <2>. QED
    BY <1>2, <2>1, <2>2 DEF Walked, LastBreak
<1>5. Placed(Blank, 0)
  BY <1>2 DEF Placed
<1>6. Marked(Blank, 0)
  BY <1>2, TextDrawn DEF Marked
<1>7. Coloured(Blank, 0)
  <2>1. WrongDrawn(Blank, 0) = {}
    BY <1>2 DEF WrongDrawn
  <2>2. Blank.wrongFromHere = FALSE /\ DOMAIN Blank.cells = {}
    BY <1>2
  <2>. QED
    BY <2>1, <2>2 DEF Coloured
<1>. QED
  BY <1>3, <1>4, <1>5, <1>6, <1>7 DEF DrawnInv

(* Where the pen stands is where the next character belongs. *)
LEMMA PenPlace ==
  ASSUME Readable, NEW n \in Nat, NEW p \in Pictures, Walked(p, n)
  PROVE  /\ Place(p.pen) = PlaceOf(p.hidden, n + 1)
         /\ LineStart(p.hidden, n + 1) = LastBreak(p, n)
         /\ IsFiniteSet(p.hidden)
<1>1. p.hidden \in SUBSET (1..n) /\ p.hidden \in SUBSET Nat
  BY DEF Walked
<1>2. LastBreak(p, n) \in p.hidden \cup {0} /\ LastBreak(p, n) < n + 1
  BY DEF Walked, LastBreak
<1>3. LineStart(p.hidden, n + 1) = LastBreak(p, n)
  BY <1>1, <1>2, LineStartIs DEF Walked
<1>4. {s \in p.hidden : s < n + 1} = p.hidden
  BY <1>1
<1>5. (n + 1) - 1 - LastBreak(p, n) = p.pen.col
  BY DEF Walked, LastBreak
<1>6. PlaceOf(p.hidden, n + 1) = [col |-> p.pen.col, row |-> p.pen.row]
  <2> DEFINE row == Cardinality({s \in p.hidden : s < n + 1})
             col == (n + 1) - 1 - LineStart(p.hidden, n + 1)
  <2>1. p.pen.row = row
    BY <1>4 DEF Walked
  <2>2. p.pen.col = col
    BY <1>3, <1>5
  <2>3. PlaceOf(p.hidden, n + 1) = [col |-> col, row |-> row]
    BY DEF PlaceOf
  <2>. HIDE DEF row, col
  <2>. QED
    BY <2>1, <2>2, <2>3
<1>. QED
  BY <1>1, <1>3, <1>6, PrefixFinite DEF Place

(* The break the code decides is the greedy one. *)
LEMMA BreaksIs ==
  ASSUME Readable, NEW n \in Nat, n + 1 \in Positions, NEW p \in Pictures, Walked(p, n)
  PROVE  Breaks(generatedText, p.pen, n + 1) <=>
           /\ generatedText[n + 1] = Space
           /\ NextSpace(generatedText, n + 2) - 1 - LastBreak(p, n) > Columns
<1>1. n + 1 \in 1..Len(generatedText) /\ Len(generatedText) \in Nat
  BY TextDrawn
<1>2. /\ generatedText[n + 1] = Space <=> NextSpace(generatedText, n + 1) = n + 1
      /\ NextSpace(generatedText, (n + 1) + 1) \in Int
  BY <1>1, NextSpaceStep
<1>3. (n + 1) + 1 = n + 2
  OBVIOUS
<1>4. p.pen.col \in Int /\ p.pen.nextWord = NextSpace(generatedText, n + 1)
  BY DEF Walked
<1>. QED
  BY <1>2, <1>3, <1>4, ColumnsAssumption DEF Breaks, LastBreak

(* A character keeps the pen on the greedy line breaking. *)
LEMMA WalkedNext ==
  ASSUME Readable, NEW n \in Nat, n + 1 \in Positions, NEW p \in Pictures, Walked(p, n),
         NEW q, q.pen = MovePen(generatedText, p.pen, n + 1),
         q.hidden = IF Breaks(generatedText, p.pen, n + 1) THEN p.hidden \cup {n + 1}
                    ELSE p.hidden
  PROVE  Walked(q, n + 1)
<1> DEFINE i == n + 1
           here == NextSpace(generatedText, i)
           next == NextSpace(generatedText, i + 1)
           last == LastBreak(p, n)
<1>1. i \in 1..Len(generatedText) /\ Len(generatedText) \in Nat /\ i \in Nat /\ i + 1 = n + 2
  BY TextDrawn
<1>2. /\ generatedText[i] = Space <=> here = i
      /\ generatedText[i] # Space => here = next
      /\ here \in Nat /\ next \in Nat
  BY <1>1, NextSpaceStep
<1>3. Breaks(generatedText, p.pen, i) <=>
        generatedText[i] = Space /\ next - 1 - last > Columns
  BY <1>1, BreaksIs
<1>4. /\ p.hidden \in SUBSET Nat /\ i \notin p.hidden /\ IsFiniteSet(p.hidden)
      /\ LineStart(p.hidden, i) = last /\ last \in Nat /\ last <= n
      /\ p.pen.nextWord = here /\ p.pen.col \in 0..n /\ last = n - p.pen.col
      /\ p.pen.row = Cardinality(p.hidden)
  <2>1. LineStart(p.hidden, i) = last /\ IsFiniteSet(p.hidden)
    BY PenPlace
  <2>2. p.hidden \subseteq 1..n /\ p.pen.col \in 0..n /\ p.pen.row = Cardinality(p.hidden)
    BY DEF Walked
  <2>3. p.hidden \in SUBSET Nat /\ i \notin p.hidden
    BY <2>2
  <2>4. last \in Nat /\ last <= n /\ last = n - p.pen.col
    BY <2>2 DEF LastBreak
  <2>5. p.pen.nextWord = here
    BY DEF Walked
  <2>. QED
    BY <2>1, <2>2, <2>3, <2>4, <2>5
<1>5. /\ q.pen.nextWord = next
      /\ q.pen.col = IF Breaks(generatedText, p.pen, i) THEN 0 ELSE p.pen.col + 1
      /\ q.pen.row = IF Breaks(generatedText, p.pen, i) THEN p.pen.row + 1 ELSE p.pen.row
  <2>1. q.pen.nextWord = IF i = here THEN next ELSE here
    BY <1>4 DEF MovePen
  <2>2. q.pen.nextWord = next
    BY <1>2, <2>1
  <2>. QED
    BY <2>2 DEF MovePen
<1>6. \A s \in 1..n : generatedText[s] = Space =>
         (s \in p.hidden <=>
            NextSpace(generatedText, s + 1) - 1 - LineStart(p.hidden, s) > Columns)
  BY DEF Walked
<1>7. WordsFit(generatedText) => here - 1 - last <= Columns
  BY DEF Walked
<1>8. \A s \in p.hidden : s <= last /\ generatedText[s] = Space /\ s \in 1..n
  BY DEF Walked
<1>9. last \in p.hidden \cup {0}
  BY DEF Walked
<1>10. CASE Breaks(generatedText, p.pen, i)
  <2>1. q.hidden = p.hidden \cup {i} /\ q.pen.col = 0 /\ q.pen.row = p.pen.row + 1
    BY <1>5, <1>10
  <2>2. Cardinality(q.hidden) = q.pen.row
    BY <1>4, <2>1, FS_AddElement
  <2>3. LastBreak(q, i) = i
    BY <1>1, <2>1 DEF LastBreak
  <2>4. \A s \in 1..i : LineStart(q.hidden, s) = LineStart(p.hidden, s)
    BY <1>1, <1>4, <2>1, PlaceStable
  <2>5. ASSUME NEW s \in 1..i, generatedText[s] = Space
        PROVE  s \in q.hidden <=>
                 NextSpace(generatedText, s + 1) - 1 - LineStart(q.hidden, s) > Columns
    <3>1. CASE s = i
      BY <1>3, <1>4, <1>10, <2>1, <2>4, <3>1
    <3>2. CASE s # i
      <4>1. s \in 1..n
        BY <3>2
      <4>. QED
        BY <1>6, <2>1, <2>4, <2>5, <3>2, <4>1
    <3>. QED
      BY <3>1, <3>2
  <2>6. WordsFit(generatedText) => next - 1 - i <= Columns
    BY <1>1, <1>3, <1>10 DEF WordsFit
  <2>7. /\ q.hidden \subseteq 1..i /\ i \in q.hidden /\ \A s \in q.hidden : s <= i
        /\ \A s \in q.hidden : generatedText[s] = Space
        /\ q.pen.col \in 0..i
    BY <1>1, <1>3, <1>8, <1>10, <2>1
  <2>. QED
    BY <1>1, <1>5, <2>2, <2>3, <2>5, <2>6, <2>7 DEF Walked
<1>11. CASE ~Breaks(generatedText, p.pen, i)
  <2>1. q.hidden = p.hidden /\ q.pen.col = p.pen.col + 1 /\ q.pen.row = p.pen.row
    BY <1>5, <1>11
  <2>2. LastBreak(q, i) = last
    BY <1>1, <1>4, <2>1 DEF LastBreak
  <2>3. ASSUME NEW s \in 1..i, generatedText[s] = Space
        PROVE  s \in q.hidden <=>
                 NextSpace(generatedText, s + 1) - 1 - LineStart(q.hidden, s) > Columns
    <3>1. CASE s = i
      BY <1>3, <1>4, <1>11, <2>1, <2>3, <3>1
    <3>2. CASE s # i
      <4>1. s \in 1..n
        BY <3>2
      <4>. QED
        BY <1>6, <2>1, <2>3, <4>1
    <3>. QED
      BY <3>1, <3>2
  <2>4. WordsFit(generatedText) => next - 1 - last <= Columns
    BY <1>2, <1>3, <1>4, <1>7, <1>11, ColumnsAssumption
  <2>5. /\ q.hidden \subseteq 1..i /\ last \in q.hidden \cup {0}
        /\ \A s \in q.hidden : s <= last /\ generatedText[s] = Space
        /\ q.pen.col \in 0..i
    BY <1>1, <1>4, <1>8, <1>9, <2>1
  <2>. QED
    BY <1>1, <1>4, <1>5, <2>1, <2>2, <2>3, <2>4, <2>5 DEF Walked
<1>. QED
  BY <1>10, <1>11

(* A character drawn joins the cells at its place; one that breaks the     *)
(* line leaves them as they are.                                           *)
LEMMA PlacedNext ==
  ASSUME Readable, NEW n \in Nat, n + 1 \in Positions, NEW p \in Pictures,
         Walked(p, n), Placed(p, n),
         NEW q,
         q.hidden = IF Breaks(generatedText, p.pen, n + 1) THEN p.hidden \cup {n + 1}
                    ELSE p.hidden,
         q.cells = IF Breaks(generatedText, p.pen, n + 1) THEN p.cells
                   ELSE Append(p.cells, Character(p, n + 1))
  PROVE  Placed(q, n + 1)
<1> DEFINE i == n + 1
           last == LastBreak(p, n)
           new == Character(p, i)
<1>1. i \in 1..Len(generatedText) /\ Len(generatedText) \in Nat /\ i \in Nat /\ i + 1 = n + 2
  BY TextDrawn
<1>2. p.hidden \in SUBSET Nat /\ p.hidden \subseteq 1..n /\ i \notin p.hidden
  BY DEF Walked
<1>3. p.cells \in Seq(Cells)
  BY DEF Pictures
<1>4. /\ \A k \in DOMAIN p.cells : p.cells[k].at \in (1..n) \ p.hidden
      /\ \A j \in (1..n) \ p.hidden : \E k \in DOMAIN p.cells : p.cells[k].at = j
      /\ \A k, l \in DOMAIN p.cells : k < l => p.cells[k].at < p.cells[l].at
      /\ \A k \in DOMAIN p.cells :
           /\ p.cells[k].place = PlaceOf(p.hidden, p.cells[k].at)
           /\ WordsFit(generatedText) => p.cells[k].place.col < Columns
  BY DEF Placed
<1>5. CASE Breaks(generatedText, p.pen, i)
  <2>1. q.hidden = p.hidden \cup {i} /\ q.cells = p.cells
    BY <1>5
  <2>2. (1..i) \ q.hidden = (1..n) \ p.hidden
    BY <1>2, <2>1
  <2>3. \A j \in 1..n : PlaceOf(q.hidden, j) = PlaceOf(p.hidden, j)
    BY <1>1, <1>2, <2>1, PlacesStable
  <2>4. \A k \in DOMAIN q.cells : q.cells[k].at \in (1..n) \ p.hidden
    BY <1>4, <2>1
  <2>5. \A k \in DOMAIN q.cells :
           /\ q.cells[k].place = PlaceOf(q.hidden, q.cells[k].at)
           /\ WordsFit(generatedText) => q.cells[k].place.col < Columns
    BY <1>4, <2>1, <2>3
  <2>6. \A j \in (1..i) \ q.hidden : \E k \in DOMAIN q.cells : q.cells[k].at = j
    BY <1>4, <2>1, <2>2
  <2>7. \A k, l \in DOMAIN q.cells : k < l => q.cells[k].at < q.cells[l].at
    BY <1>4, <2>1
  <2>. QED
    BY <2>2, <2>4, <2>5, <2>6, <2>7 DEF Placed
<1>6. CASE ~Breaks(generatedText, p.pen, i)
  <2>1. q.hidden = p.hidden /\ q.cells = Append(p.cells, new)
    BY <1>6
  <2>2. (1..i) \ q.hidden = ((1..n) \ p.hidden) \cup {i}
    BY <1>2, <2>1
  <2>3. new.at = i /\ new.place = PlaceOf(p.hidden, i)
    BY PenPlace DEF Character
  <2>4. WordsFit(generatedText) => new.place.col < Columns
    <3>1. new.place.col = p.pen.col
      BY DEF Character, Place
    <3>2. p.pen.col \in 0..n /\ last = n - p.pen.col
      BY DEF Walked, LastBreak
    <3>3. WordsFit(generatedText) => NextSpace(generatedText, i) - 1 - last <= Columns
      BY DEF Walked
    <3>4. /\ generatedText[i] # Space => NextSpace(generatedText, i) >= i + 1
          /\ NextSpace(generatedText, i) \in Nat
          /\ NextSpace(generatedText, i + 1) \in Nat
          /\ NextSpace(generatedText, i + 1) >= i + 1
      BY <1>1, NextSpaceStep
    <3>5. generatedText[i] = Space =>
            ~(NextSpace(generatedText, i + 1) - 1 - last > Columns)
      BY <1>1, <1>6, BreaksIs
    <3>6. CASE generatedText[i] = Space
      BY <1>1, <3>1, <3>2, <3>4, <3>5, <3>6, ColumnsAssumption
    <3>7. CASE generatedText[i] # Space
      BY <1>1, <3>1, <3>2, <3>3, <3>4, <3>7, ColumnsAssumption
    <3>. QED
      BY <3>6, <3>7
  <2>5. new \in Cells
    BY <1>1, CharacterIsCell
  <2>. HIDE DEF new
  <2>6. /\ DOMAIN q.cells = DOMAIN p.cells \cup {Len(p.cells) + 1}
        /\ q.cells[Len(p.cells) + 1] = new
        /\ \A k \in DOMAIN p.cells : q.cells[k] = p.cells[k] /\ k < Len(p.cells) + 1
        /\ DOMAIN p.cells \subseteq Nat /\ Len(p.cells) \in Nat
    <3> DEFINE more == Append(p.cells, new)
    <3>1. /\ DOMAIN more = DOMAIN p.cells \cup {Len(p.cells) + 1}
          /\ more[Len(p.cells) + 1] = new
          /\ \A k \in DOMAIN p.cells :
               more[k] = p.cells[k] /\ k \in Nat /\ k < Len(p.cells) + 1
          /\ Len(p.cells) \in Nat
      BY <1>3, <2>5, OneMoreCell
    <3>2. q.cells = more
      BY <2>1
    <3>. HIDE DEF more
    <3>. QED
      BY <3>1, <3>2
  <2>7. \A k \in DOMAIN q.cells : q.cells[k].at \in (1..i) \ q.hidden
    BY <1>4, <2>2, <2>3, <2>6
  <2>8. \A j \in (1..i) \ q.hidden : \E k \in DOMAIN q.cells : q.cells[k].at = j
    BY <1>4, <2>2, <2>3, <2>6
  <2>9. ASSUME NEW k \in DOMAIN q.cells, NEW l \in DOMAIN q.cells, k < l
        PROVE  q.cells[k].at < q.cells[l].at
    <3>1. k \in DOMAIN p.cells
      BY <2>6, <2>9
    <3>2. CASE l \in DOMAIN p.cells
      BY <1>4, <2>6, <2>9, <3>1, <3>2
    <3>3. CASE l = Len(p.cells) + 1
      <4>1. p.cells[k].at \in 1..n /\ q.cells[k] = p.cells[k]
        BY <1>4, <2>6, <3>1
      <4>. QED
        BY <2>3, <2>6, <3>3, <4>1
    <3>. QED
      BY <2>6, <3>2, <3>3
  <2>10. ASSUME NEW k \in DOMAIN q.cells
        PROVE  /\ q.cells[k].place = PlaceOf(q.hidden, q.cells[k].at)
               /\ WordsFit(generatedText) => q.cells[k].place.col < Columns
    <3>1. CASE k \in DOMAIN p.cells
      BY <1>4, <2>1, <2>6, <3>1
    <3>2. CASE k = Len(p.cells) + 1
      BY <2>1, <2>3, <2>4, <2>6, <3>2
    <3>. QED
      BY <2>6, <3>1, <3>2
  <2>. QED
    BY <2>7, <2>8, <2>9, <2>10 DEF Placed
<1>. QED
  BY <1>5, <1>6

(* The cursor is marked when its character comes, and where it comes. *)
LEMMA MarkedNext ==
  ASSUME Readable, NEW n \in Nat, n + 1 \in Positions, NEW p \in Pictures,
         Walked(p, n), Marked(p, n),
         NEW q,
         q.hidden = IF Breaks(generatedText, p.pen, n + 1) THEN p.hidden \cup {n + 1}
                    ELSE p.hidden,
         q.marks = IF typingCursor + 1 = n + 1 THEN Append(p.marks, Place(p.pen))
                   ELSE p.marks
  PROVE  Marked(q, n + 1)
<1>1. typingCursor \in Nat
  BY TextDrawn
<1>2. p.hidden \in SUBSET Nat
  BY DEF Pictures
<1>3. \A j \in 1..(n + 1) : PlaceOf(q.hidden, j) = PlaceOf(p.hidden, j)
  <2>1. q.hidden \in {p.hidden, p.hidden \cup {n + 1}}
    OBVIOUS
  <2>2. n + 1 \in Nat /\ 1..(n + 1) \subseteq 0..(n + 1)
    OBVIOUS
  <2>. QED
    BY <1>2, <2>1, <2>2, PlacesStable
<1>4. CASE typingCursor = n
  <2>1. p.marks = <<>>
    BY <1>1, <1>4 DEF Marked
  <2>2. q.marks = Append(<<>>, PlaceOf(p.hidden, n + 1))
    <3>1. q.marks = Append(p.marks, Place(p.pen))
      BY <1>4
    <3>2. Place(p.pen) = PlaceOf(p.hidden, n + 1)
      BY PenPlace
    <3>. QED
      BY <2>1, <3>1, <3>2
  <2>3. q.marks = <<PlaceOf(q.hidden, n + 1)>>
    <3>1. \A x : Append(<<>>, x) = <<x>>
      OBVIOUS
    <3>2. PlaceOf(q.hidden, n + 1) = PlaceOf(p.hidden, n + 1)
      <4>1. n + 1 \in 1..(n + 1)
        OBVIOUS
      <4>. QED
        BY <1>3, <4>1
    <3>. QED
      BY <2>2, <3>1, <3>2
  <2>. QED
    BY <1>4, <2>3 DEF Marked
<1>5. CASE typingCursor # n
  <2>1. q.marks = p.marks
    BY <1>1, <1>5
  <2>2. typingCursor + 1 <= n + 1 <=> typingCursor + 1 <= n
    BY <1>1, <1>5
  <2>3. typingCursor + 1 <= n => PlaceOf(q.hidden, typingCursor + 1)
                                   = PlaceOf(p.hidden, typingCursor + 1)
    BY <1>1, <1>3
  <2>. QED
    BY <2>1, <2>2, <2>3 DEF Marked
<1>. QED
  BY <1>4, <1>5

(* The underlining begins with the first error that is drawn. *)
LEMMA ColouredNext ==
  ASSUME Readable, NEW n \in Nat, n + 1 \in Positions, NEW p \in Pictures,
         Walked(p, n), Placed(p, n), Coloured(p, n),
         NEW q,
         q.hidden = IF Breaks(generatedText, p.pen, n + 1) THEN p.hidden \cup {n + 1}
                    ELSE p.hidden,
         q.cells = IF Breaks(generatedText, p.pen, n + 1) THEN p.cells
                   ELSE Append(p.cells, Character(p, n + 1)),
         q.wrongFromHere = IF Breaks(generatedText, p.pen, n + 1) THEN p.wrongFromHere
                           ELSE (p.wrongFromHere \/ WrongAt(n + 1))
  PROVE  Coloured(q, n + 1)
<1> DEFINE i == n + 1
           new == Character(p, i)
           bad(k) == q.cells[k].at <= typingCursor /\ WrongDrawn(q, q.cells[k].at) # {}
<1>1. i \in Nat /\ typingCursor \in Nat
  BY TextDrawn
<1>2. p.hidden \subseteq 1..n /\ i \notin p.hidden
  BY DEF Walked
<1>3. p.cells \in Seq(Cells) /\ p.wrongFromHere \in BOOLEAN
  BY DEF Pictures
<1>4. \A k \in DOMAIN p.cells : p.cells[k].at \in 1..n
  BY DEF Placed
<1>5. /\ p.wrongFromHere = (WrongDrawn(p, n) # {})
      /\ \A k \in DOMAIN p.cells :
           /\ p.cells[k].underlined =
                (p.cells[k].at <= typingCursor /\ WrongDrawn(p, p.cells[k].at) # {})
           /\ p.cells[k].colour = "wrong" <=> WrongAt(p.cells[k].at)
           /\ p.cells[k].colour = "unwritten" <=> p.cells[k].at > typingCursor
  BY DEF Coloured
<1>6. \A j \in 1..n : WrongDrawn(q, j) = WrongDrawn(p, j)
  BY <1>2 DEF WrongDrawn
<1>7. CASE Breaks(generatedText, p.pen, i)
  <2>1. q.hidden = p.hidden \cup {i} /\ q.cells = p.cells
        /\ q.wrongFromHere = p.wrongFromHere
    BY <1>7
  <2>2. WrongDrawn(q, i) = WrongDrawn(p, n)
    BY <1>2, <2>1 DEF WrongDrawn
  <2>. QED
    BY <1>4, <1>5, <1>6, <2>1, <2>2 DEF Coloured
<1>8. CASE ~Breaks(generatedText, p.pen, i)
  <2>1. /\ q.hidden = p.hidden /\ q.cells = Append(p.cells, new)
        /\ q.wrongFromHere = (p.wrongFromHere \/ WrongAt(i))
    BY <1>8
  <2>2. WrongDrawn(q, i) # {} <=> WrongDrawn(p, n) # {} \/ WrongAt(i)
    BY <1>2, <2>1 DEF WrongDrawn
  <2>3. /\ new.at = i
        /\ new.underlined = (i <= typingCursor /\ (p.wrongFromHere \/ WrongAt(i)))
        /\ new.colour = IF i > typingCursor THEN "unwritten"
                        ELSE IF WrongAt(i) THEN "wrong" ELSE "right"
    BY DEF Character
  <2>4. /\ new.colour = "wrong" <=> WrongAt(i)
        /\ new.colour = "unwritten" <=> i > typingCursor
    BY <1>1, <2>3 DEF WrongAt
  <2>5. new.underlined = (i <= typingCursor /\ WrongDrawn(q, i) # {})
    BY <1>5, <2>2, <2>3
  <2>6. q.wrongFromHere = (WrongDrawn(q, i) # {})
    BY <1>5, <2>1, <2>2
  <2>7. new \in Cells
    BY <1>1, CharacterIsCell
  <2>. HIDE DEF new
  <2>8. /\ DOMAIN q.cells = DOMAIN p.cells \cup {Len(p.cells) + 1}
        /\ q.cells[Len(p.cells) + 1] = new
        /\ \A k \in DOMAIN p.cells : q.cells[k] = p.cells[k]
    <3> DEFINE more == Append(p.cells, new)
    <3>1. /\ DOMAIN more = DOMAIN p.cells \cup {Len(p.cells) + 1}
          /\ more[Len(p.cells) + 1] = new
          /\ \A k \in DOMAIN p.cells :
               more[k] = p.cells[k] /\ k \in Nat /\ k < Len(p.cells) + 1
          /\ Len(p.cells) \in Nat
      BY <1>3, <2>7, OneMoreCell
    <3>2. q.cells = more
      BY <2>1
    <3>. HIDE DEF more
    <3>. QED
      BY <3>1, <3>2
  <2>9. ASSUME NEW k \in DOMAIN q.cells
        PROVE  /\ q.cells[k].underlined = bad(k)
               /\ q.cells[k].colour = "wrong" <=> WrongAt(q.cells[k].at)
               /\ q.cells[k].colour = "unwritten" <=> q.cells[k].at > typingCursor
    <3>1. CASE k \in DOMAIN p.cells
      <4>1. q.cells[k] = p.cells[k] /\ p.cells[k].at \in 1..n
        BY <1>4, <2>8, <3>1
      <4>2. WrongDrawn(q, q.cells[k].at) = WrongDrawn(p, p.cells[k].at)
        BY <1>6, <4>1
      <4>. QED
        BY <1>5, <3>1, <4>1, <4>2
    <3>2. CASE k = Len(p.cells) + 1
      BY <2>3, <2>4, <2>5, <2>8, <3>2
    <3>. QED
      BY <2>8, <3>1, <3>2
  <2>. QED
    BY <2>6, <2>9 DEF Coloured
<1>. QED
  BY <1>7, <1>8

(* Every character keeps the invariant of the picture. *)
LEMMA DrawnNext ==
  ASSUME Readable, NEW n \in Nat, n + 1 \in Positions, NEW p, DrawnInv(p, n)
  PROVE  DrawnInv(DrawNext(p, n + 1), n + 1)
<1> DEFINE q == DrawNext(p, n + 1)
           broken == Breaks(generatedText, p.pen, n + 1)
<1>1. p \in Pictures /\ Walked(p, n) /\ Placed(p, n) /\ Marked(p, n) /\ Coloured(p, n)
  BY DEF DrawnInv
<1>2. /\ q \in Pictures
      /\ q.pen = MovePen(generatedText, p.pen, n + 1)
      /\ q.marks = IF typingCursor + 1 = n + 1 THEN Append(p.marks, Place(p.pen))
                   ELSE p.marks
      /\ broken => /\ q.hidden = p.hidden \cup {n + 1} /\ q.cells = p.cells
                   /\ q.wrongFromHere = p.wrongFromHere
      /\ ~broken => /\ q.hidden = p.hidden
                    /\ q.cells = Append(p.cells, Character(p, n + 1))
                    /\ q.wrongFromHere = (p.wrongFromHere \/ WrongAt(n + 1))
  BY <1>1, DrawNextFields
<1>. HIDE DEF q
<1>3. /\ q.hidden = IF broken THEN p.hidden \cup {n + 1} ELSE p.hidden
      /\ q.cells = IF broken THEN p.cells ELSE Append(p.cells, Character(p, n + 1))
      /\ q.wrongFromHere = IF broken THEN p.wrongFromHere
                           ELSE (p.wrongFromHere \/ WrongAt(n + 1))
  <2>. HIDE DEF broken
  <2>. QED
    BY <1>2
<1>4. Walked(q, n + 1)
  BY <1>1, <1>2, <1>3, WalkedNext
<1>5. Placed(q, n + 1)
  BY <1>1, <1>3, PlacedNext
<1>6. Marked(q, n + 1)
  BY <1>1, <1>2, <1>3, MarkedNext
<1>7. Coloured(q, n + 1)
  BY <1>1, <1>3, ColouredNext
<1>. QED
  BY <1>2, <1>4, <1>5, <1>6, <1>7 DEF DrawnInv, q

(* The finished picture, and the mark behind a full text. *)
LEMMA DrawnWhole ==
  ASSUME Readable
  PROVE  \E p : DrawnInv(p, Size) /\ drawTypingTest = MarkAtEnd(p)
<1>1. PICK f : /\ f[0] = Blank
               /\ \A n \in 1..Size : f[n] = DrawNext(f[n - 1], n)
               /\ drawTypingTest = MarkAtEnd(f[Size])
  BY DrawnSteps
<1>2. Size \in Nat /\ Positions = 1..Size
  BY TextDrawn
<1> DEFINE S == {n \in Nat : n <= Size => DrawnInv(f[n], n)}
<1>3. 0 \in S
  BY <1>1, DrawnInit
<1>4. ASSUME NEW n \in Nat, n \in S PROVE n + 1 \in S
  <2>. SUFFICES ASSUME n + 1 <= Size PROVE DrawnInv(f[n + 1], n + 1)
    OBVIOUS
  <2>1. n <= Size /\ n + 1 \in 1..Size /\ (n + 1) - 1 = n
    BY <1>2
  <2>2. DrawnInv(f[n], n)
    BY <1>4, <2>1
  <2>3. f[n + 1] = DrawNext(f[n], n + 1)
    BY <1>1, <2>1
  <2>. QED
    BY <1>2, <2>1, <2>2, <2>3, DrawnNext
<1>. HIDE DEF S
<1>5. Size \in S
  BY <1>2, <1>3, <1>4, SetInduction
<1>6. DrawnInv(f[Size], Size)
  BY <1>2, <1>5 DEF S
<1>. QED
  BY <1>1, <1>6

(* What the typist is shown. *)
LEMMA PictureShown ==
  ASSUME Readable
  PROVE  LET p == drawTypingTest
         IN  /\ p \in Pictures /\ Walked(p, Size) /\ Placed(p, Size) /\ Coloured(p, Size)
             /\ p.marks = <<PlaceOf(p.hidden, typingCursor + 1)>>
<1>1. PICK p : DrawnInv(p, Size) /\ drawTypingTest = MarkAtEnd(p)
  BY DrawnWhole
<1>2. Size \in Nat /\ typingCursor \in 0..Size
  BY TextDrawn
<1>3. p \in Pictures /\ Walked(p, Size) /\ Placed(p, Size) /\ Marked(p, Size)
      /\ Coloured(p, Size)
  BY <1>1 DEF DrawnInv
<1>4. CASE typingCursor # Size
  <2>1. drawTypingTest = p
    BY <1>1, <1>4 DEF MarkAtEnd
  <2>2. typingCursor + 1 <= Size
    BY <1>2, <1>4
  <2>. QED
    BY <1>3, <2>1, <2>2 DEF Marked
<1>5. CASE typingCursor = Size
  <2> DEFINE v == Append(p.marks, Place(p.pen))
             q == [p EXCEPT !.marks = v]
  <2>1. drawTypingTest = q
    BY <1>1, <1>5 DEF MarkAtEnd, Mark
  <2>2. v \in Seq(Places)
    BY <1>3 DEF Pictures, Pens, Places, Place
  <2>3. v = <<PlaceOf(p.hidden, typingCursor + 1)>>
    <3>1. \A x : Append(<<>>, x) = <<x>>
      OBVIOUS
    <3>2. Place(p.pen) = PlaceOf(p.hidden, typingCursor + 1)
      BY <1>2, <1>3, <1>5, PenPlace
    <3>3. p.marks = <<>>
      BY <1>2, <1>3, <1>5 DEF Marked
    <3>. QED
      BY <3>1, <3>2, <3>3
  <2>. HIDE DEF v
  <2>4. /\ q \in Pictures /\ q.pen = p.pen /\ q.cells = p.cells /\ q.marks = v
        /\ q.hidden = p.hidden /\ q.wrongFromHere = p.wrongFromHere
    BY <1>3, <2>2, WithMarks
  <2>. HIDE DEF q
  <2>5. Walked(q, Size)
    BY <1>3, <2>4 DEF Walked, LastBreak
  <2>6. Placed(q, Size)
    BY <1>3, <2>4 DEF Placed
  <2>7. WrongDrawn(q, Size) = WrongDrawn(p, Size)
        /\ \A k : WrongDrawn(q, q.cells[k].at) = WrongDrawn(p, p.cells[k].at)
    BY <2>4 DEF WrongDrawn
  <2>8. Coloured(q, Size)
    BY <1>3, <2>4, <2>7 DEF Coloured
  <2>. QED
    BY <2>1, <2>3, <2>4, <2>5, <2>6, <2>8
<1>. QED
  BY <1>4, <1>5

-----------------------------------------------------------------------------
(* The breaks are the greedy ones of the text alone, and every other       *)
(* character is drawn once, in order, where they put it.                   *)
LEMMA LinesFromPicture == Readable => LinesStandStill
<1>. SUFFICES ASSUME Readable PROVE LinesStandStill
  OBVIOUS
<1> DEFINE p == drawTypingTest
<1>1. p \in Pictures /\ Walked(p, Size) /\ Placed(p, Size)
  BY PictureShown
<1>2. Size = Len(generatedText) /\ DOMAIN generatedText = 1..Size /\ Positions = 1..Size
  BY TextDrawn
<1>. HIDE DEF p
<1>3. Greedy(generatedText, p.hidden)
  <2>1. /\ p.hidden \subseteq 1..Size
        /\ \A s \in p.hidden : generatedText[s] = Space
        /\ \A s \in 1..Size : generatedText[s] = Space =>
             (s \in p.hidden <=>
                NextSpace(generatedText, s + 1) - 1 - LineStart(p.hidden, s) > Columns)
    BY <1>1 DEF Walked
  <2>. QED
    BY <1>2, <2>1 DEF Greedy, SpacesOf
<1>4. {cell.at : cell \in Range(p.cells)} = Positions \ p.hidden
  BY <1>1, <1>2 DEF Range, Placed
<1>5. \A k, l \in DOMAIN p.cells : k < l => p.cells[k].at < p.cells[l].at
  BY <1>1 DEF Placed
<1>6. \A cell \in Range(p.cells) :
         /\ cell.place = PlaceOf(p.hidden, cell.at)
         /\ WordsFit(generatedText) => cell.place.col < Columns
  BY <1>1 DEF Range, Placed
<1>. QED
  BY <1>3, <1>4, <1>5, <1>6 DEF LinesStandStill, p

(* The drawing shows where the errors are. *)
LEMMA ErrorsFromPicture == Readable => ErrorsShown
<1>. SUFFICES ASSUME Readable PROVE ErrorsShown
  OBVIOUS
<1> DEFINE p == drawTypingTest
           seenWrong == WrongPositions \ p.hidden
<1>1. p \in Pictures /\ Walked(p, Size) /\ Placed(p, Size) /\ Coloured(p, Size)
  BY PictureShown
<1>2. typingCursor \in 0..Size /\ Size \in Nat
  BY TextDrawn
<1>. HIDE DEF p
<1>3. ASSUME NEW k \in DOMAIN p.cells
      PROVE  LET cell == p.cells[k]
             IN  /\ cell.underlined <=> cell.at \in Typed /\ \E i \in seenWrong : i <= cell.at
                 /\ cell.colour = "wrong" <=> cell.at \in seenWrong
                 /\ cell.colour = "unwritten" <=> cell.at \notin Typed
  <2> DEFINE cell == p.cells[k]
  <2>1. cell.at \in (1..Size) \ p.hidden
    BY <1>1 DEF Placed
  <2>2. /\ cell.underlined = (cell.at <= typingCursor /\ WrongDrawn(p, cell.at) # {})
        /\ cell.colour = "wrong" <=> WrongAt(cell.at)
        /\ cell.colour = "unwritten" <=> cell.at > typingCursor
    BY <1>1 DEF Coloured
  <2>. HIDE DEF cell
  <2>3. cell.at \in Typed <=> cell.at <= typingCursor
    BY <1>2, <2>1 DEF Typed
  <2>4. WrongAt(cell.at) <=> cell.at \in seenWrong
    BY <1>2, <2>1 DEF WrongAt, WrongPositions, Typed
  <2>5. WrongDrawn(p, cell.at) # {} <=> \E i \in seenWrong : i <= cell.at
    BY <1>2, <2>1 DEF WrongDrawn, WrongAt, WrongPositions, Typed
  <2>6. cell.at > typingCursor <=> cell.at \notin Typed
    BY <1>2, <2>1, <2>3
  <2>. QED
    BY <2>2, <2>3, <2>4, <2>5, <2>6 DEF cell
<1>4. \A cell \in Range(p.cells) :
         /\ cell.underlined <=> cell.at \in Typed /\ \E i \in seenWrong : i <= cell.at
         /\ cell.colour = "wrong" <=> cell.at \in seenWrong
         /\ cell.colour = "unwritten" <=> cell.at \notin Typed
  BY <1>3 DEF Range
<1>. QED
  BY <1>4 DEF ErrorsShown, p

(* The text stands still while it is typed: the picture breaks it where    *)
(* the greedy line breaking does, whatever has been typed.                 *)
THEOREM LinesStill == Spec => []LinesStandStill
<1>1. CountInv /\ NulFromCursor => LinesStandStill
  BY LinesFromPicture DEF Readable, CountInv
<1>. QED
  BY <1>1, CountInvariant, ZerosFromCursor, PTL

(* Every picture has one mark of the cursor, at the place of the character *)
(* it waits for.                                                           *)
THEOREM CursorMarked == Spec => []CursorMarkedOnce
<1>1. CountInv /\ NulFromCursor => CursorMarkedOnce
  BY PictureShown DEF Readable, CountInv, CursorMarkedOnce
<1>. QED
  BY <1>1, CountInvariant, ZerosFromCursor, PTL

(* What is drawn as wrong is wrong, and the underlining begins at the      *)
(* first of it.                                                            *)
THEOREM ErrorsDrawn == Spec => []ErrorsShown
<1>1. CountInv /\ NulFromCursor => ErrorsShown
  BY ErrorsFromPicture DEF Readable, CountInv
<1>. QED
  BY <1>1, CountInvariant, ZerosFromCursor, PTL
=============================================================================
