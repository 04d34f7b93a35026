# WriteWise: specifications, model checking and proofs

WriteWise (`src/proj/src`) is a typing trainer for MINIX 3: a program that runs
on the bare graphics mode, the PS/2 keyboard and mouse, the timer, the real-time
clock and the serial port. It has two modes. In *training* the player types a
random text of 25 words; in a *race* two machines, joined by a serial cable,
agree on a text, count down together and type it against each other.

This directory holds TLA+ modules of that program, configurations for TLC,
proofs for TLAPS, and `PROJECT.json`, which maps each definition to the lines
it models and lists runs, mutants, findings, hazards and theorems.

## 1. Inventory

One process runs one loop (`proj_main_loop`, proj.c:194-360): it receives a
notification and runs the handlers of the devices that raised it, in the order
timer, mouse, keyboard, serial port. Within one machine nothing is concurrent;
each handler runs to its end. Concurrency is between the two machines.

| Component | Source | State | Operations | Interacts with |
|---|---|---|---|---|
| Typing session | typing/typing.c | `typingInfo`: text, typed text, mistake flags, four counters, two times, speed/accuracy, status | generate, reset, start, key, refresh, end | called by the main loop and the buttons; `endRace` sends a byte |
| Race | proj.c, `racingInfo` in typing.c | ready flags, seeds, start time, won, `waitingForSeed` | Ready/Unready, New Race, checkIfReady, reactions to bytes | serial protocol, typing session |
| Serial protocol | serialPort.c | `receivingSerialPort`, `indexSerialPort`, `bitsSerialPort`, `waitingAckSerialPort`, its start time | send/read of codes and six kinds of values, clear FIFO | UART; the main loop reads one byte per interrupt |
| Application state | proj.c | `currAppState` | changeState, ESC, screen loaders | everything |
| Buttons, cursor | ui/ui.c | button table, cursor, last press | mouseUpdate, add/clear/draw | callbacks in proj.c |
| Keyboard | keyboard.c, scancode.c | two-byte and modifier flags, layout | keyboard_ih, getCharFromMakecode | typing handler |
| Mouse | mouse.c | byte index, packet | mouse_int_h | ui.c |
| KBC | KBC.c | - | polled reads and writes with ten attempts | keyboard, mouse |
| Text generation | typing.c:7-29, data.c | dictionary, buffers | loadDictionary, generateText | typing session |
| Text layout | typing.c:137-194 | - | drawTypingTest | graphics |
| Driver set | lib.c | mode, theme, frame rate | init/exit of all drivers | all drivers |
| Graphics, timer, RTC | graphics.c, timer.c, rtc.c | frame buffer, tick counter, date | register access | main loop |

The rest of the repository is not this program: the course labs (`lab0` to
`lab5`), vendored MINIX headers (`.minix-src`) and generated documentation.

What is hard here, and what makes each part right:

* **Typing session.** Three unsigned counters are maintained incrementally from
  flags set many keys earlier. Right means: they always equal what the buffers
  say, none wraps, and a text can always be finished.
* **Race and serial protocol.** Two machines, bytes in flight in both
  directions, every acknowledgment clears both FIFOs, values whose bytes look
  like codes, an acknowledgment timeout that retries nothing. Right means: same
  text on both sides, both race or neither does, a loss is the other's win,
  nobody waits for ever, and the receiver never writes past its buffer.
* **Keyboard, mouse.** State machines over a byte stream with prefixes and lost
  bytes. Right means: a key is taken for what it is; packets resynchronise.
* **Screens and buttons.** Callbacks that replace the table being iterated, presses
  that outlast their screen. Right means: one click does one thing, and none of a
  screen that was not there when the button was released.
* **Drivers.** Partial failure of initialisation. Right means: what was
  subscribed is unsubscribed.

`PROJECT.json` lists the hazards at their lines, each with the properties that
catch it or the reason none does.

## 2. Modules

| Module | Models |
|---|---|
| `Typing` | the typing session of one machine, with the parts of proj.c that call it |
| `TextGen` | loadDictionary and the loop of generateText, as functions |
| `TextLayout` | the line wrapping that `_drawText` and `drawTypingTest` share, and a reference for it |
| `DrawnText` | the picture `drawTypingTest` draws of a `Typing` state |
| `SerialCodes` | the codes of serialPort.h and the widths of typed values |
| `Race` | two machines in the race screen, and the cable between them |
| `RaceContract` | what a race promises its two players; implemented by `Race` |
| `Link` | one direction of the serial driver, with every fault it handles |
| `Channel` | what the driver promises to the program; implemented by `Link` |
| `Keyboard` | keyboard_ih and a PS/2 keyboard in front of it |
| `Mouse` | mouse_int_h and a PS/2 mouse in front of it |
| `Program` | start, screens, buttons, cursor, resolutions and exit |
| `MCTyping`, `MCRace`, `MCLink`, `MCKeyboard`, `MCMouse`, `MCProgram` | the instances TLC checks |
| `TypingProofs`, `LinkProofs`, `KeyboardProofs`, `MouseProofs`, `ProgramProofs` | the theorems about one component each (`TypingProofs` also about `DrawnText`) |
| `RaceProofs` | the theorems about the race that need no restriction |
| `RaceAgreement` | what two machines agree on when nothing is lost |
| `RaceImplements` | the race implements `RaceContract` |

How they fit together. `Program` owns the screen: its click on a button of the
training or race screen is an action of `Typing` or `Race`, its mouse packet is
what `Mouse` hands over. `Keyboard` hands the scancode to
`keyboardScancodeHandler`, whose effects are `Esc` and `AnyKey` of `Program` and
the keys of `Typing`. `Typing` leaves the opponent free; `Race` has both
machines and reduces a session to its status and text. `Race` takes the driver
as it works without failures, and `Link` takes the driver alone with all of them.

### Typing and the picture of it

| Variable | Code |
|---|---|
| `app` | `currAppState`; the screens that have no session are one value, `"mainState"` |
| `status`, `generatedText`, `typedText`, `mistakes`, `typingCursor`, `typedChars`, `wrongChars`, `totalWrongChars`, `timeStart`, `timeEnd` | the fields of `typingInfo` |
| `shown` | `cpm`, `wpm`, `acc`, as the three integers they are computed from |
| `won`, `startTime` | the fields of `racingInfo` this part uses |
| `now` | `timer_get_elapsed_count()` |

An action is a whole handler. `TypeChar`, `Erase` and `IdleKey` split
`typingInputHandler` by what the key is; in training the first key of any kind
starts the clock, inside the same action. `TypeChar` ends the session (and wins
the race) in the same step when it completes the text. `Tick` is the timer
branch with the half-second refresh and the countdown. Where the code depends
on the opponent (`RaceAgreed`, `OpponentWon`, `OpponentLeft`) the opponent is
free, so `Typing` says what holds whatever the other machine does: it admits
`RaceAgreed` in every status because `checkIfReady` does not look at it.

`DrawnText` adds no state. `drawTypingTest` walks through the text in two loops, one
up to the first zero of `typedText` and one over the rest, which share a pen, a
pointer to the next space and the underlining; the module takes the same steps, as a
recursive function of the position, and yields cells, cursor marks and the spaces a line break
swallowed. `TextLayout` says without a pen what the breaks must be (`Greedy`), and
the properties compare. A column is one `xStep`: the fonts are monospaced.
`TextGen` yields the texts of `MCTyping`, and `MCGeneration` compares what
`generateText` leaves in its buffers with the chosen words joined by spaces.

### Race and RaceContract

A machine is a record: the screen, the status and text of its session, its
`racingInfo`, and what serialPort.c remembers. Texts are abstracted to what
determines them, the number `srandom` is given: `checkIfReady` passes the sum of the
seeds, a `uint64_t`, to a parameter that is `unsigned`, and `Unsigned` keeps the low
bytes of it as that conversion does. A handler is an operator from a record to
`[s, clear, out]`: the new record, whether the FIFOs were cleared, and the bytes
sent after that. `Perform` applies it to the machine and the cable. A clear
loses any number of the opponent's bytes that may have arrived (up to the FIFO's
size) and possibly the own byte still in the transmitter. `Interrupt` reads one
byte; `Overrun` loses one at a full FIFO. Nothing is reset that the code does
not reset: `receiving`, `bits`, `waitingForSeed` and `waitingAck` survive leaving
and re-entering the race.

Assumed and not in the code: the transmitter accepts every byte
(`serialPortSendByte` retries for 200 ms) and register reads succeed (`Link` has
neither assumption); the five seconds of the countdown outlast the bytes in
flight (guard of `Tick`); 25 words take longer than the difference of the two
countdowns (guard of `FinishText`).

`RaceContract` has no bytes: each player is away, in the lobby, counting down,
typing, won or lost, with words. `Race` implements it by the stage its record is
in, under `AttentiveSpec`. What it cannot say, because it has no seeds, is on which
requests a race begins: `BeginsOnStandingRequest`.

### Link and Channel

`Race` needs both directions and the whole program, so the faults of the driver
have a module of their own with one direction: a send that gives up between two
bytes (`GiveUp`), a failed identification that handles the previous byte again
(`HandleStaleByte`), a failed read that announces the previous value again
(`AnnounceStaleByte`), clears by either end (`ClearTransmitter`, `AckLate`,
`EnterRace` and inside `ReadByte`), overruns (in `SendByte`), and a receiver who
leaves in the middle of a value. Each byte carries the number of its message and
its place, for the properties only. `Channel` promises that messages delivered
are whole, at most once and in order, except one wrong delivery for each fault;
once a value with a code among its bytes has been sent it promises nothing,
because a torn value then produces as many false messages as it has bytes.

Abstracted: the bytes of one value are alike; a full FIFO loses the byte that
comes; a read that fails inside a value changes nothing (the byte stays), so it
is not an action; whether a request is answered depends on the session, which is
free here.

### Keyboard and Mouse

`keyboard_ih` alone decides nothing; what can go wrong is the agreement of its flags
with the keys, over a stream that is read late. So the module has the device too
(`held`, `capsLock`, `wire`, `midway`): a queue of events, each a byte or the prefix and
a byte, and each remembering Shift and Caps Lock as they were after it. `Interrupt`
reads one byte: `Prefix`, `Modifier` or `Key`, the three ways through the handler.
`ReadFails` is its first branch; the byte stays in the controller and is read again,
and an event whose prefix was forgotten is marked `cut`.
`taken` is the scancode handed to `keyboardScancodeHandler`, with the event it came
from. `Shifted` is the choice of `getCharFromMakecode` between the two rows of the
layout. The device is a PS/2 keyboard as the code expects it; a full queue takes no
key, and keys with more than one prefix (Pause, Print Screen) are left out.

`Mouse` is built alike. The device sends a report as three bytes (`sending`, `read`),
`mouseBytes` is the buffer of which `byteIndex` is the length, `Interrupt` is
`mouse_int_h` with `mouse_sync_bytes` and `mouse_bytes_to_packet`. The program may
subscribe at any byte of a report. A report is *quiet* when none of its reads
failed and its two movement bytes lack the bit of a first byte.

Both take `readKBCOutput` as one step: its ten polls end in a byte or in a failure
that leaves the byte in the controller. That the controller interrupts again for a
byte left unread is assumed; it is not in this code.

### Program

| Variable | Code |
|---|---|
| `phase`, `subs` | where `proj_main_loop` is; the interrupts subscribed |
| `ui.app`, `.table`, `.theme`, `.mode` | `currAppState`, whose buttons are in `_buttons`, `currentTheme`, `currentMode` |
| `ui.vbe`, `.res` | what the video card shows; `modeInfo`, which is zero when it could not be read |
| `ui.frame`, `.frameBuffer`, `.staticBuffer` | the mode that `frameSize` and the two buffers were sized for |
| `ui.cursor`, `.left`, `.pressed` | `cursor` and `moreMouseInfo` |
| `aim` | history: the screen and the buttons under the cursor when the mouse button went down |
| `ui.ran`, `faults`, `ui.freed`, `.overrun`, `.unmapped` | history for the properties |

`MousePacket` is the whole mouse branch: on the start screen the change to the main
screen, then `mouseUpdate` with the loop over the ten indices, each looked up in
the table as the callbacks before it left it. `setMinixMode` has four outcomes,
one for each way the BIOS and the kernel can answer. Drawing fails exactly when
there is no resolution (`vg_draw_pixel` checks every pixel against `modeInfo`), and
a screen whose drawing fails has cleared its buttons already.

## 3. Runs

| Run | Instance and bounds | Shows |
|---|---|---|
| `typing` | texts `a`, `a a`, `aa a` of a letter and the space, 3 columns, 4 ticks per second, countdown 1 s, 6 ticks | the counters, flags, buffers and times of a session; a diligent typist finishes; the text stands still while it is typed, has one cursor, and shows the errors that keep it from completing |
| `race_any` | bytes lost, re-entry, no promise of the players; values of 3 and 2 bytes, seeds whose bytes announce values of both widths; two clicks of one machine, two visits of the other, FIFO of 5 | the receive buffer: no value is begun with a stale index or read past its width |
| `race_careful` | nothing lost, players wait for their answers; re-entry, seeds of two bytes, some of them codes | same text, no restart, a loss only to the opponent's win of that race, no bytes of an old race in a new one |
| `race_committed` | moreover nobody takes Ready back nor clicks past an unread WON; fairness | both race or neither; the flags agree; a race begins on the opponent's standing request; `RaceContract` is implemented; two ready players race; a race ends for both |
| `link` | 3 messages of any event, two of the types, fill bytes plain or codes; 2 faults; FIFO of 3; values of 3 and 2 bytes | the index stays inside the buffer; framing is exact while nothing is lost; `Channel` is implemented |
| `keyboard` | a letter, the comma, a prefixed key, Shift, Ctrl, Alt, Caps Lock; 2 events queued; reads fail at any moment | the right key, in the case it was pressed in; the flags are the modifiers once all is read |
| `mouse` | movements whose bytes do and do not look like first bytes, of both signs, every flag; reads fail at any moment | alignment is lost only by a failed read, regained by a quiet report, and a packet is the report |
| `program` | ten points (every button, points that are buttons on two screens and in two resolutions, two points within one click), any mode answer, 0, 1 or 10 failing exits | a release runs each button once and none of a screen that comes up during the click; the table is the screen's; no buffer is used in another size; nothing is left behind; ESC leads out |
| `race_winners` | `CommittedSpec`, one click each | **finding**: two winners |
| `race_texts` | no restriction; values of 2 bytes whose low byte determines the text | **finding**: different texts after a lost announcement |
| `race_alone` | `CarefulSpec`, Unready allowed | **finding**: one player races alone |
| `keyboard_right` | the right Ctrl and ESC | **finding**: ESC is taken for a two-byte key |

Why the bounds are enough. The code treats positions of a text alike and
compares one character at a time, so three positions with a repeated letter
have every relation between cursor, flags and errors; one text is finished by
the key that starts its clock, one fits its line, one breaks. Longer lines are
compared with the reference as pure functions (`MCLayout`, all phrases of two
and of four words of one to four letters). Six ticks cover two
refreshes, a whole countdown and a race after it. In `Race` three clicks reach
Ready, Unready and Ready again, or a second race; two visits reach every
re-entry; seeds of two or three bytes have a first and a last byte (and, with three, a
middle one) to be interrupted in. In `race_any` values of both widths are begun by the
bytes of seeds, left half read by a machine that leaves the screen, and gone on with
when it is back. The FIFO just holds a Ready with its seed, so that whatever is
sent besides overruns it. Only one machine clicks in `race_any`: what two requests lead
to is the matter of the next two runs.
In `Link` three messages give a torn value,
the message that is swallowed for its rest, and one that must again arrive
whole; two faults may hit the same value. In `Keyboard` two events queued leave
a modifier and the key it applies to both unread. `Mouse` has no bound. In
`Program` only the points and the failing exits are bounded. The theorems of
section 5 have none of these bounds.

Fairness. `race_committed` (`FairAttentiveSpec`) assumes weak fairness of the
serial interrupt and of the timer: both are hardware and the loop serves each
notification it gets. Players are owed nothing. `typing` assumes only that the
typist keeps typing, and its liveness property only speaks of one who from some
moment on erases errors. `program` assumes that the start and the exit
run on and that somebody who wants out keeps pressing ESC; its property only
speaks of users who stop using the mouse.

The restrictions on the cable (`Lossless`) and on players (`Patient`,
`Committed`, `Attentive`) are stated in `Race` as step predicates. `race_careful` gives
the first two to TLC as action constraints of `Spec`, which are the steps of
`CarefulSpec`, taken apart by action. They are needed: the race findings are what happens without the first three. Without `Lossless`
nobody need ever race, since nothing is retransmitted. Without `Attentive` a player
may press the race button while the opponent's INFO_WON lies unread: New Race, then
Ready, and that byte ends the wait for the answer to Ready (section 4). With three
clicks each TLC finds a player racing alone in that way, in 37 states of
`CommittedSpec`; the two clicks of `race_committed` do not reach it, and the proof
showed it first.

Only `program` ends (`CHECK_DEADLOCK FALSE`); every other run is checked for deadlock
too.

## 4. Findings

1. Two winners: each machine takes its own last key as the win and ignores an
   INFO_WON that arrives afterwards (proj.c:324), against "the first to finish"
   (proj.c:555).
2. Different texts, against "the given words" (proj.c:555): the clear before
   INFO_READY_ACK (serialPort.c:233) takes the INFO_ULONG of the seed behind INFO_READY.
   If the lowest byte of that seed is 0xF2, the code INFO_ULONG, it announces the
   rest, and the opponent's INFO_ACK is its last byte: b1 b2 ... b7 0xF0 is read in place of
   0xF2 b1 ... b7. The low bytes of the sum differ, and these are what `generateText`
   takes; a byte lost at the other end of a seed would not matter. The run has values
   of two bytes and an `unsigned` of one, and the trace is the same with eight and four.
3. One player races alone: INFO_NREADY_ACK zeroes the ready flag and the seed of
   a race that has started (proj.c:343).
4. The prefix of a right Ctrl or Alt is charged to the next key: the modifier cases
   return before `isTwoBytes` is cleared (keyboard.c:35-53), against the comment at
   keyboard.h:43.

Seen while modelling, and not the subject of a run:

* A press is forgotten by nobody but `initUI`. Pressed on the settings screen's first
  button where the main screen has Training, then ESC, then released: Training opens
  (ui.c:159-167). Likewise a click anywhere on the start screen is a press on the main
  screen the same packet brings up (proj.c:251), and its release opens what lies there.
  `ReleaseRunsWhatLiesThere` says so: what a release runs was pressed if the
  screen is still the one pressed on; otherwise it is what the new screen has at
  the same place. The comment at ui.h:35, "function called when button is clicked",
  does not say where the press belongs.
* `totalWrongChars` is documented as a total (typing.h:39) and goes down on
  Backspace (typing.c:67). The counters are consistent with that.
* Any byte ends the wait for an answer (proj.c:336-350). A machine that asks for
  its next race before it has read the INFO_WON of the last one takes that byte for
  the answer, ignores the INFO_READY_ACK behind it, and never counts as ready: the
  opponent, who has both requests, counts down alone. `Attentive` excludes it.
* `setMinixMode` sets `frameSize` before the video memory is mapped; when the
  mapping fails, the old, smaller buffer is cleared with the new size.
  `WritesWithinBuffers` excludes that by its premise (`ui.unmapped`).
* A first `setMinixMode` that fails after the switch leaves the console in
  graphics mode (proj.c:197): `CleanExit` excludes it (`"mode" \in faults`).
* `initAllDrivers` leaves what it had subscribed when a later device fails, and
  `exitAllDrivers` stops at its first failure: `CleanExit` excludes both.
* `exit_graphic_mode` frees the frame buffer each time it is retried: `CleanExit`
  excludes `"vg_exit"`. Changes of resolution and texts leak a buffer each.
* A wrongly typed space at the end of a drawn line is not drawn as wrong, because
  the wrap comes first (typing.c:165); `ErrorsShown` excludes `hidden` positions.
* Caps Lock held down toggles with every repeated make code, and releasing one of
  two Shift keys clears the flag: conditions `CapsOnce` and `OneShift`.
* `random()` near RAND_MAX chooses a word beyond the dictionary (typing.c:16).

## 5. Proofs

**TypingProofs**, for every set of texts, alphabet, frame rate, countdown and number
of ticks. Each action keeps

    CountInv == TypeOK /\ CountersExact /\ WrongIsFlagged /\ TimesOrdered

`TypeOK` and `CountersExact` alone are not inductive. Backspace gives
`wrongChars` back only at a flagged position, so a wrong position without a flag
(excluded by `WrongIsFlagged`) would leave the counter too high; and the time
shown is a difference, natural only because `timeStart <= timeEnd <= now`
(`TimesOrdered`) while a session runs. The steps that matter are `TypeCharInv` and
`EraseInv`: one position joins or leaves the prefix, the wrong set and the
flagged set, and the cardinalities move by what the code adds or subtracts.

From it follow `TypeCorrect` (no unsigned counter drops below zero),
`CountersCorrect`, `WrongFlagged`, `AccuracyCorrect` (a subset's cardinality),
`NeverStuck` and `FinishCorrect` (a full prefix with no wrong position is the
text), `HeadStart` (arithmetic of the countdown), `ZerosFromCursor`
and `FinalShown`. Assumptions: `CharAssumption`, `TextAssumption`, `TimeAssumption`.

The second half proves the three properties of the picture for every text and every
width of a line. They are invariants of the session, but the induction is over how far
the picture has been drawn: `DrawnInv(p, n)` says of the picture after n characters where
the pen stands (`Walked`), which characters are drawn and where (`Placed`), whether the
cursor is marked (`Marked`), and what is coloured and underlined (`Coloured`). `Walked`
is the difficult part. The code decides a break from the pen alone; that this is the
greedy break of the text (`BreaksIs`) needs that the pen's column counts from the last
break, and that a later break changes neither the line nor the place of an earlier
character (`PlaceStable`). That no character lies outside the width is not inductive: what
is kept is that the whole current word fits. `NextSpaceFacts` replaces `strchr` by what it
finds, `FirstZeroIs` ends the first loop at the cursor (from `ZerosFromCursor`), and
`DrawnWhole` is the induction. Theorems: `LinesStill`, `CursorMarked`, `ErrorsDrawn`; they
also need `ColumnsAssumption`.

**RaceProofs**, for every pair of machines, seed, width, FIFO size and timeout, and
every loss of bytes. The invariant `RaceInv` says of each machine that its record
has its fields, its buffer is a sequence, and `Framed`: inside a value it holds
fewer bytes than the value has, outside none. Nothing is assumed of the cable, so
the proof goes handler by handler, for an arbitrary byte: a handler is `Calm` if it
leaves the receiver alone, and `Fair` if it
at least keeps the machine `Good`. `ByteFair` is the heart (a byte of a value, an
announcement, an event), `PerformFair` lifts a fair handler to a step of the
system. `BufferSafe` follows. `NewRaceSilent` needs besides that the
cable carries sequences (`CableInv`), so that a handler without output leaves it as it
was. `RaceTypes` is the type invariant; the one step of it that is not bookkeeping is
that a seed read is a natural number. `SeedRoundTrip` says that `SeedValue` undoes
`SeedBytes` for every time that fits an unsigned long: both are recursive functions of
the number of bytes, and `SetInduction`, which has the set of numbers in question in
place of a predicate, does the induction the library's theorems cannot be used for.
Assumptions: `LenAssumption`; for `NewRaceSilent` also `PeerAssumption` and
`BoundAssumption`; for `RaceTypes` also `SeedAssumption` and `ClickAssumption`.

**RaceAgreement**, for every pair of machines, seeds, widths, countdown and timeout, on
a cable that loses nothing and with patient players. `SameText`, `LoserBeatenHere` and
`NobodyRacesAlone` are far from inductive: each byte under way may still change a flag,
a seed or a result. The invariant `Agreement` therefore parses the cable. `Wire` says
that the bytes from one machine to the other are what is left of at most one request (a
`Phase`: READY with its seed, the seed behind its code, some bytes of the seed, NREADY,
or nothing) and behind it one of eleven sequences of `Replies`. `Pact` relates, given
these, the flags, seeds, texts and results of the two machines, in both directions
(`Half`): which request excludes which reply (`Order`), what seed of the other each
knows or is about to read (`Seeds`), what it is told of the race (`Result`). `Accord`
is what holds besides if nobody takes Ready back or clicks past an unread WON: each
knows of the other what is so or on its way, and no race is one machine's alone. While
one machine is away the other has nothing to read but INFO_EXIT (`Alone`).

The proof separates the flags from the bytes: for each thing a handler may read there
is a lemma on `Pact` (section 1), one on `Accord`, one on the bytes (section 2), and
one that combines them for the handler (section 3); sections 4 and 5 have the steps of
two machines, entering, leaving and reading the notice of it included. `CarefulAgrees`
and `AttentiveAgrees` say that the invariant holds, and from it follow `RaceTexts`,
`RaceLosers` and `RaceGoesOn` under `CarefulSpec`, `RaceTogether` and `RaceFlags` under
`AttentiveSpec`. That the first three need no promise about Unready or the unread WON is
part of the result. Assumptions: `PeerAssumption`, `BoundAssumption`,
`ClickAssumption`, `SeedAssumption`, `LenAssumption`.

**RaceImplements** proves `AttentiveSpec => ImplementsContract`. What a handler shows
the player is found from the handler alone (`ReadShows` for any byte: nothing, the start
of a race, a loss, or the return to the lobby). Whether `RaceContract` allows it depends on the
opponent, and `Agreement` is used before the step and after it: the machine that begins
finds the other in the lobby or on the same words because the invariant holds again
(`Facing`), INFO_EXIT is never read while the opponent is there (`ByteOfOpponent`), a
countdown does not end with the other in the lobby. `RaceBegins` (section 4 of the
module) is about the same steps: a machine begins only by reading a byte (`OnlyReadsBegin`:
the last of a seed, or INFO_READY_ACK), and `Agreement` before that step says that the seed
it takes or has taken is the opponent's present one. The refinement needs one invariant
of its own, `Owned`: the seeds of a machine are its own clicks' and its opponent's, so
that the text is one of `SeedSums`. Same assumptions.

**LinkProofs** proves the same of the driver with its faults, for all six types and
any pattern of failures: `LinkInv` is `DriverOK` (the index is below the width of the
type being read and zero outside a value), `LineOK` (what is half sent belongs to a
message that exists, and no more bytes of it are sent than it has) and `RestOK`. The
two steps that matter are `TypedByte`, where the index grows or goes back, and
`AnnounceStaleByte`, which may change the type being awaited and is safe only because
outside a value the index is zero. Assumptions: `LenAssumption`, `LinkAssumption`.

Its second part proves the refinement `Spec => AbstractChannel!Spec`. The step
condition of `WrongDelivery` is that there is credit, `faults > wrong`, so the
invariant must count: `CreditInv` says that, as long as no value has a code among its
bytes, `Debt <= faults - wrong`. The debt is the number of values announced on the line
of which something is missing (`Torn`), plus one if the value being read is not, or will
not be, complete (`Current`). A fault adds one debt at most (`DebtMore`), reading an
announcement moves one from the line to the driver (`DebtMoved`), a wrong delivery ends
one. `OrderInv` says that the bytes read and those on the line are in the order of
sending; hence a message delivered whole is later than the last one. `PartInv` bounds a
byte's place by its message's length: without it the last bytes of an event could be
taken for codes. One lemma per action ends in `Kept`: the invariant holds again and the
step is one of Channel or a stutter. That the receiver may clear, leave, come back and
reread in any order costs nothing but such debts.

The third part proves `FramingExact` without the restriction on the values. While
nothing has been lost, the byte last read and those on the line follow each other
without a gap up to the last one handed over (`NoGap`), and the driver reads the message
that byte is of (`Reading`); a byte inside a value is then the next one of that value
whatever its code.

**KeyboardProofs** proves of `Spec`, failed reads included, for every set of keys and
every queue: `TypeCorrect` (the types; a prefix that has been read belongs to a prefixed
event still queued, and no key is handed over as 0xE0) and `KeysRecognised`, if
the modifiers have no prefix, and `CaseAsPressed` and `FlagsAgree` (of the four modifier flags), if moreover one Shift
is used and Caps Lock does not repeat. The first rests on
`isTwoBytes` being true exactly while a prefix has been read and not forgotten, and on
`OneCut`: only the event under way can have been cut. The second needs the whole
queue: `Chain` says that what an event says of Shift and Caps Lock is what the event
before it says (the program's flags, for the first event) changed by the event's own
key, and `ChainEnd` that the last one agrees with the keys held. `ChainQueue` extends
the chain by an event, `ChainRead` moves the flags past the first, and `ModifierByte`
shows that the switch of keyboard_ih has the effect the event records, byte by byte.
`FlagsAgree` adds `HeldInv`: Ctrl and Alt are held exactly if their last event in the
queue is a make, or, if none is queued, if the driver's flag is set.
The three conditions are `PlainModifiers`, `OneShift` and `CapsOnce`;
`keyboard_right` shows what happens without the first. Assumptions:
`KeyAssumption`, `CapacityAssumption`.

**MouseProofs**, for every set of reports and any pattern of failed reads: the type
invariant (the third byte is the last `mouseBytes` takes), `QuietRealigns`,
`StaysAligned` and `ReportedTruly`. The invariant says that while program and mouse
agree the bytes gathered are those of the report being sent, and that in a quiet
report the program is either in step or waiting for a first byte it will not find
in the two that are left. `ReportedTruly` rests on the arithmetic of nine-bit
movements split into a byte and a sign bit. Assumption: `ReportAssumption`.

**ProgramProofs**, for every place of the mouse, every answer of the BIOS and every set
of failing calls. The invariant `ProgramInv` is `TypeOK`, `WritesWithinBuffers` and `CleanExit`, with what is known while the drivers start
(`StartInv`) and while the loop runs (`LoopInv`: what is shown is `Sound`, that is, the
table is the screen's, the cursor lies in the resolution, and the buffers have its size;
and a press is `Aimed`: either the screen is the one pressed on, with the same buttons
under the press, or ESC or the start screen has changed it for good, since no ESC leads
back). `ProgramNext` proves of every step that it keeps the invariant and that a release is
as `ReleaseRunsWhatLiesThere` says.
The difficulty is the click: ten steps through a table that a callback replaces. The
model has them as a recursive function of the index; `ClickSteps` shows that it takes
one step at each, and `ClickAllKeeps` proves `Clicked` by `SetInduction`: what ran
lay under the press, and if a callback has replaced the table, no later place of the
new one lies under the cursor. Theorems: `ProgramTypes`, `ClickRight`,
`TableOfScreen`, `BuffersKept`, `ExitsClean`. Assumptions: `PointAssumption`,
`FailureAssumption`.

Every invariant and every action property a passing run checks is a theorem, and so is
each of the two refinements. Only model-checked: all liveness (`DiligenceFinishes`, `ReadyGetRace`,
`RaceEnds`, `EscLeadsOut`; ENABLED is out of the prover's reach), and what `TextGen` returns
for the dictionaries and random numbers of `MCGeneration`.

## 6. Not modelled, and the plan

The modules cover the program's own logic. Of the repository's 262 725 lines the
program is about two in a hundred: the rest is vendored MINIX headers, generated
documentation and the course labs, which no model of WriteWise can cover. Of the
program what is left out is

* tables and pixels: glyphs, layouts of keys, colours, shapes, font sizes;
* register output that nothing reads back: the i8254, VBE and UART set-up, and
  the reading of the real-time clock (its result is not looked at, and nothing
  depends on its values);
* functions nothing calls: `mouse_write`, `writeKBCCommand`, `serialPortSendNack`,
  `removeButton`, the RGB drawing functions;
* floating point: the edges of buttons are exact percentages, the index of a word
  an exact quotient, speed and accuracy the integers they are computed from;
* the heap beyond the sizes of the buffers: leaks are described in section 4;
* what the keyboard controller does after a read that gave up.

Next: the texts of `TextGen` for every dictionary, by `SetInduction` over the words
chosen, as for the bytes of a seed: that the index of a word stays inside the dictionary
for every number `random()` returns but the last, and that `generateText` leaves the chosen
words joined by spaces, with no space behind the last.
