------------------------------- MODULE Typing -------------------------------
(***************************************************************************)
(* The typing session of WriteWise: typing/typing.c with the calls that    *)
(* proj.c makes into it.  One global record typingInfo serves both the     *)
(* training screen and the race screen; every handler below runs to its    *)
(* end inside one pass of the main loop, so each is one action.            *)
(*                                                                         *)
(* A text is a sequence of characters.  typedText and mistakes are the two *)
(* heap buffers generateText allocates, seen as functions on the positions *)
(* of the text; the positions after the cursor hold NUL.  Speed and        *)
(* accuracy are floating-point functions of three integers, so the model   *)
(* keeps those integers (the record "shown") instead of the quotients.     *)
(***************************************************************************)
EXTENDS Integers, Sequences, FiniteSets

CONSTANTS
    Char,       \* the characters a key can produce
    Texts,      \* the texts generateText can produce (25 dictionary words)
    NUL,        \* the byte 0 that fills typedText after the cursor
    Backspace,  \* the key BACKSPACE_SCANCODE
    NoChar,     \* any key for which getCharFromMakecode returns 0
    FrameRate,  \* timer interrupts per second (60 in proj_main_loop)
    Countdown,  \* seconds between a race's text and its start (5)
    MaxTicks    \* bound: the number of timer interrupts a behaviour has

ASSUME CharAssumption == /\ NUL \notin Char
                         /\ Backspace \notin Char
                         /\ NoChar \notin Char
                         /\ Backspace # NoChar
ASSUME TextAssumption == Texts \subseteq (Seq(Char) \ {<<>>})
ASSUME TimeAssumption == /\ FrameRate \in Nat \ {0, 1}
                         /\ Countdown \in Nat
                         /\ MaxTicks \in Nat

VARIABLES
    app,              \* currAppState, the screens without a session as one
    status,           \* typingInfo.status
    generatedText,    \* typingInfo.generatedText, <<>> for NULL
    typedText,        \* typingInfo.typedText
    mistakes,         \* typingInfo.mistakes
    typingCursor, typedChars, wrongChars, totalWrongChars,
    timeStart, timeEnd,
    shown,            \* what wpm, cpm and acc were last computed from
    won,              \* racingInfo.won
    startTime,        \* racingInfo.startTime
    now               \* timer_get_elapsed_count()

buffers  == <<generatedText, typedText, mistakes>>
counters == <<typingCursor, typedChars, wrongChars, totalWrongChars>>
times    == <<timeStart, timeEnd>>
race     == <<won, startTime>>
vars == <<app, status, buffers, counters, times, shown, race, now>>

Screens  == {"mainState", "trainingState", "raceState"}
Statuses == {"unready", "ready", "typing", "finished"}
Keys     == Char \cup {Backspace, NoChar}

Size == Len(generatedText)
Positions == 1..Size

-----------------------------------------------------------------------------
(* calcTypingStatus: the three integers behind cpm, wpm and acc. *)
Stats(chars, wrong, ticks) == [chars |-> chars, wrong |-> wrong, ticks |-> ticks]

NoStats == Stats(0, 0, 0)

(* The fields resetTypingInfo and generateText both set to zero. *)
ClearSession ==
    /\ typingCursor' = 0
    /\ typedChars' = 0
    /\ wrongChars' = 0
    /\ totalWrongChars' = 0
    /\ timeStart' = 0
    /\ timeEnd' = 0
    /\ shown' = NoStats

resetTypingInfo ==
    /\ ClearSession
    /\ generatedText' = <<>>
    /\ typedText' = <<>>
    /\ mistakes' = <<>>
    /\ status' = "unready"

generateText(text) ==
    /\ ClearSession
    /\ generatedText' = text
    /\ typedText' = [i \in 1..Len(text) |-> NUL]
    /\ mistakes' = [i \in 1..Len(text) |-> FALSE]
    /\ status' = "ready"

resetRacingInfo ==
    /\ won' = FALSE
    /\ startTime' = 0

(* startTyping at the tick "at". *)
startTyping(at) ==
    /\ status' = "typing"
    /\ timeStart' = at
    /\ timeEnd' = at
    /\ UNCHANGED <<buffers, counters, shown>>

Init ==
    /\ app = "mainState"
    /\ status = "unready"
    /\ generatedText = <<>>
    /\ typedText = <<>>
    /\ mistakes = <<>>
    /\ typingCursor = 0
    /\ typedChars = 0
    /\ wrongChars = 0
    /\ totalWrongChars = 0
    /\ timeStart = 0
    /\ timeEnd = 0
    /\ shown = NoStats
    /\ won = FALSE
    /\ startTime = 0
    /\ now = 0

-----------------------------------------------------------------------------
(* Entering and leaving the screens (changeState and its callers). *)

EnterTraining(text) ==
    /\ app = "mainState"
    /\ app' = "trainingState"
    /\ generateText(text)
    /\ UNCHANGED <<race, now>>

EnterRace ==
    /\ app = "mainState"
    /\ app' = "raceState"
    /\ resetTypingInfo
    /\ resetRacingInfo
    /\ UNCHANGED now

(* ESC: the session is left as it is, whatever its status. *)
LeaveToMain ==
    /\ app # "mainState"
    /\ app' = "mainState"
    /\ UNCHANGED <<status, buffers, counters, times, shown, race, now>>

(* The button "New Test" of the training screen. *)
NewTest(text) ==
    /\ app = "trainingState"
    /\ generateText(text)
    /\ UNCHANGED <<app, race, now>>

(* The button "New Race" of the race screen. *)
NewRace ==
    /\ app = "raceState"
    /\ status = "finished"
    /\ resetTypingInfo
    /\ resetRacingInfo
    /\ UNCHANGED <<app, now>>

(* checkIfReady with both players ready; proj.c calls it in any status. *)
RaceAgreed(text) ==
    /\ app = "raceState"
    /\ generateText(text)
    /\ startTime' = Countdown * FrameRate + now
    /\ UNCHANGED <<app, won, now>>

(* INFO_EXIT from the opponent. *)
OpponentLeft ==
    /\ app = "raceState"
    /\ resetTypingInfo
    /\ resetRacingInfo
    /\ UNCHANGED <<app, now>>

-----------------------------------------------------------------------------
(* Keys (typingInputHandler). *)

(* The key reaches the handler and the session takes it: in training the *)
(* first key of any kind starts the clock, in a race the countdown does. *)
Listening ==
    \/ app = "trainingState" /\ status \in {"ready", "typing"}
    \/ app = "raceState" /\ status = "typing"

Starting == status = "ready"
began == IF Starting THEN now ELSE timeStart

KeepTyping ==
    /\ status' = "typing"
    /\ timeStart' = began
    /\ timeEnd' = IF Starting THEN now ELSE timeEnd
    /\ UNCHANGED <<shown, won>>

(* endTyping, once the counters have the values "chars" and "wrong". *)
MutEndTyping(chars, wrong, since) ==
    /\ status' = "finished"
    /\ timeStart' = since
    /\ timeEnd' = now
    /\ UNCHANGED shown
endTyping(chars, wrong, since) ==
    /\ status' = "finished"
    /\ timeStart' = since
    /\ timeEnd' = now
    /\ shown' = Stats(chars, wrong, now - since)

One(b) == IF b THEN 1 ELSE 0

(* Does the character before the cursor count in each error counter? *)
FlaggedBefore == mistakes[typingCursor]
WrongBefore == typedText[typingCursor] # generatedText[typingCursor]

MutWrongKept == wrongChars
WrongAfterBackspace == wrongChars - One(FlaggedBefore /\ WrongBefore)

MutTotalUnguarded == totalWrongChars - 1
MutTotalIfWrong == totalWrongChars - One(FlaggedBefore /\ WrongBefore)
MutTotalKept == totalWrongChars
TotalAfterBackspace == totalWrongChars - One(FlaggedBefore)

ErasedText == [typedText EXCEPT ![typingCursor] = NUL]

Erase ==
    /\ Listening
    /\ typingCursor > 0
    /\ typingCursor' = typingCursor - 1
    /\ typedChars' = typedChars - 1
    /\ totalWrongChars' = TotalAfterBackspace
    /\ wrongChars' = WrongAfterBackspace
    /\ typedText' = ErasedText
    /\ KeepTyping
    /\ UNCHANGED <<app, generatedText, mistakes, startTime, now>>

(* The whole text is there and nothing in it is wrong. *)
MutComplete(chars, wrong) == chars = Size
Complete(chars, wrong) == chars = Size /\ wrong = 0

MutNoFlags(wrong) == mistakes
FlagsAfter(wrong) == [mistakes EXCEPT ![typingCursor + 1] = @ \/ wrong]

TypeChar(c) ==
    LET at == typingCursor + 1
        wrong == c # generatedText[at]
    IN /\ Listening
       /\ typingCursor < Size
       /\ totalWrongChars' = totalWrongChars + One(mistakes[at] \/ wrong)
       /\ wrongChars' = wrongChars + One(wrong)
       /\ mistakes' = FlagsAfter(wrong)
       /\ typedText' = [typedText EXCEPT ![at] = c]
       /\ typingCursor' = at
       /\ typedChars' = typedChars + 1
       /\ IF Complete(typedChars', wrongChars')
          THEN /\ endTyping(typedChars', totalWrongChars', began)
               /\ won' = (won \/ app = "raceState")
          ELSE KeepTyping
       /\ UNCHANGED <<app, generatedText, startTime, now>>

(* A key with no effect on the text: Backspace at its start, a character *)
(* past its end, a key without a character.                              *)
IdleKey(key) ==
    /\ Listening
    /\ \/ key = NoChar
       \/ key = Backspace /\ typingCursor = 0
       \/ key \in Char /\ typingCursor = Size
    /\ KeepTyping
    /\ UNCHANGED <<app, buffers, counters, startTime, now>>

-----------------------------------------------------------------------------
(* INFO_WON from the opponent, in the race. *)
OpponentWon ==
    /\ app = "raceState"
    /\ status = "typing"
    /\ endTyping(typedChars, totalWrongChars, timeStart)
    /\ won' = FALSE
    /\ UNCHANGED <<app, buffers, counters, startTime, now>>

(* The timer branch of the main loop at the tick "at": the numbers of a   *)
(* running session are refreshed every half second, and the countdown of  *)
(* a race is evaluated.                                                   *)
updateTypingInfo(at) ==
    IF status = "typing"
    THEN /\ timeEnd' = at
         /\ shown' = Stats(typedChars, totalWrongChars, at - timeStart)
    ELSE UNCHANGED <<timeEnd, shown>>

timeLeft(at) == ((startTime - at) \div FrameRate) + 1

MutCountdownOver(at) == timeLeft(at) <= 1
CountdownOver(at) == timeLeft(at) <= 0

Tick ==
    /\ now < MaxTicks
    /\ now' = now + 1
    /\ IF app = "raceState" /\ status = "ready" /\ CountdownOver(now')
       THEN startTyping(now')
       ELSE /\ IF app # "mainState" /\ now' % (FrameRate \div 2) = 0
               THEN updateTypingInfo(now')
               ELSE UNCHANGED <<timeEnd, shown>>
            /\ UNCHANGED <<status, timeStart, buffers, counters>>
    /\ UNCHANGED <<app, race>>

Next ==
    \/ \E text \in Texts : EnterTraining(text) \/ NewTest(text) \/ RaceAgreed(text)
    \/ EnterRace
    \/ LeaveToMain
    \/ NewRace
    \/ OpponentLeft
    \/ Erase
    \/ \E c \in Char : TypeChar(c)
    \/ \E key \in Keys : IdleKey(key)
    \/ OpponentWon
    \/ Tick

Spec == Init /\ [][Next]_vars

-----------------------------------------------------------------------------
TypeOK ==
    /\ app \in Screens
    /\ status \in Statuses
    /\ generatedText \in Texts \cup {<<>>}
    /\ (generatedText = <<>>) <=> (status = "unready")
    /\ typedText \in [Positions -> Char \cup {NUL}]
    /\ mistakes \in [Positions -> BOOLEAN]
    /\ typingCursor \in 0..Size
    /\ typedChars \in Nat
    /\ wrongChars \in Nat
    /\ totalWrongChars \in Nat
    /\ timeStart \in Nat
    /\ timeEnd \in Nat
    /\ shown \in [chars : Nat, wrong : Nat, ticks : Nat]
    /\ won \in BOOLEAN
    /\ startTime \in Nat
    /\ now \in 0..MaxTicks

Typed == 1..typingCursor
WrongPositions == {i \in Typed : typedText[i] # generatedText[i]}
FlaggedPositions == {i \in Typed : mistakes[i]}

(* The three running counters of typing.c say what the two buffers say:    *)
(* as many characters as the cursor passed, as many wrong ones as differ   *)
(* from the text, as many total errors as positions once mistyped.  They   *)
(* are unsigned in the code, so one decrement too many would wrap.         *)
CountersExact ==
    /\ typedChars = typingCursor
    /\ wrongChars = Cardinality(WrongPositions)
    /\ totalWrongChars = Cardinality(FlaggedPositions)

(* A position that holds a wrong character is flagged as a mistake, the    *)
(* condition under which Backspace gives wrongChars back.                  *)
WrongIsFlagged == \A i \in WrongPositions : mistakes[i]

(* typedText is zero from the cursor on and nowhere before it: drawing     *)
(* stops at the first zero byte and must reach the cursor.                 *)
NulFromCursor == \A i \in Positions : (typedText[i] = NUL) <=> (i > typingCursor)

(* A race is won, and a training test ended, only with the whole text      *)
(* typed without an error; a race lost to INFO_WON ends anywhere.          *)
FinishedRight ==
    status = "finished" /\ (won \/ app = "trainingState") => typedText = generatedText

(* The numbers on the finished screen are those of the final counters and  *)
(* times, however far the half-second refresh lagged behind.               *)
FinalNumbers ==
    status = "finished" => shown = Stats(typedChars, totalWrongChars, timeEnd - timeStart)

(* Accuracy is between 0 and 100: the numerator typedChars -               *)
(* totalWrongChars, unsigned in the code, never wraps.                     *)
AccuracyDefined == totalWrongChars <= typedChars /\ shown.wrong <= shown.chars

(* While keys are still awaited a full text has an error left to erase:    *)
(* the handler never misses the moment the text is right.                  *)
NeverStuckComplete ==
    status = "typing" /\ typingCursor = Size => WrongPositions # {}

(* In a race nobody types before the countdown has run out.                *)
NoHeadStart ==
    app = "raceState" /\ status \in {"typing", "finished"} => timeStart > startTime

(* The keys of a typist who erases while something is wrong and otherwise  *)
(* types the next character.                                               *)
DiligentKey ==
    IF WrongPositions # {}
    THEN Erase
    ELSE typingCursor < Size /\ TypeChar(generatedText[typingCursor + 1])

AnyKey == Erase \/ (\E c \in Char : TypeChar(c)) \/ (\E key \in Keys : IdleKey(key))

FairSpec == Spec /\ WF_vars(DiligentKey)

(* A typist who from some moment on is diligent ends every session that is *)
(* not abandoned: no sequence of errors leaves the counters in a state     *)
(* from which the text can no longer be completed.                         *)
DiligenceFinishes ==
    <>[][AnyKey => DiligentKey]_vars =>
        []((status = "typing" /\ app # "mainState") =>
             <>(status # "typing" \/ app = "mainState"))
=============================================================================
