-------------------------------- MODULE Race --------------------------------
(***************************************************************************)
(* Two copies of WriteWise racing over a serial cable: the race screen of  *)
(* proj.c (ready button, handshake, countdown, result) on top of the byte  *)
(* protocol of serialPort.c.  Each machine runs one loop, so each of its   *)
(* handlers is one action; the two machines and the cable interleave.      *)
(*                                                                         *)
(* A handler is an operator on one machine's record that mirrors a C       *)
(* function; what it does to the UART is a small record [s, clear, out]:   *)
(* the machine's new state, whether serialPortClearFIFO was called, and    *)
(* the bytes sent after that.                                              *)
(*                                                                         *)
(* chan[p] holds the bytes on their way from p: in p's transmitter, on the *)
(* wire, or in the receive FIFO of the opponent.  How many of them have    *)
(* arrived is not state: an interrupt needs one, a clear finds any number  *)
(* up to the FIFO's capacity.                                              *)
(***************************************************************************)
EXTENDS SerialCodes, SequencesExt

CONSTANTS
    Peer,          \* the two machines
    Seed,          \* Seed[p][n]: time(NULL) when p asks for its n-th race
    CountdownTicks,\* 5 * frameRate
    AckTicks,      \* ACK_TIMEOUT * frameRate
    FifoSize,      \* capacity of the UART's receive FIFO (16)
    MaxClicks,     \* bound: clicks on the race button, of each machine
    MaxVisits      \* bound: entries to the race screen, of each machine

ASSUME PeerAssumption == IsFiniteSet(Peer) /\ Cardinality(Peer) = 2
ASSUME BoundAssumption == /\ CountdownTicks \in Nat
                          /\ AckTicks \in Nat
                          /\ FifoSize \in Nat \ {0}
                          /\ MaxClicks \in [Peer -> Nat]
                          /\ MaxVisits \in [Peer -> Nat]
ASSUME ClickAssumption == \A p \in Peer : Len(Seed[p]) >= MaxClicks[p]

VARIABLES
    peer,      \* the state of each machine
    chan,      \* the bytes sent by each machine and not yet read
    inTHR,     \* the last byte of chan[p] is still in p's transmitter
    clicks,    \* clicks on the race button so far (the clock of the seeds)
    visits,    \* entries to the race screen so far
    dropped,   \* history: a clear or an overrun lost bytes of this protocol
    wonText    \* history: the text each machine last won with

vars == <<peer, chan, inTHR, clicks, visits, dropped, wonText>>

Other(p) == CHOOSE q \in Peer : q # p

NoText == <<>>

-----------------------------------------------------------------------------
(* Seeds as bytes, the least significant first (uint64_t on x86). *)
Shifted(n) ==
    LET shifted[i \in 0..LongLen] == IF i = 0 THEN n ELSE shifted[i - 1] \div 256
    IN shifted

SeedBytes(n) == [i \in 1..LongLen |-> Shifted(n)[i - 1] % 256]

SeedValue(bytes) ==
    LET top[k \in 0..LongLen] ==
          IF k = 0 THEN 0 ELSE bytes[LongLen - k + 1] + 256 * top[k - 1]
    IN top[LongLen]

(* What an unsigned keeps of a uint64_t: the low bytes. *)
Unsigned(n) == SubSeq(SeedBytes(n), 1, ShortLen)

(* A time(NULL) is not zero and fits the bytes of an unsigned long. *)
ASSUME SeedAssumption ==
    \A p \in Peer : /\ Seed[p] \in Seq(Nat \ {0})
                    /\ \A i \in DOMAIN Seed[p] : Shifted(Seed[p][i])[LongLen] = 0

(* What a handler leaves: no output, an output, a reply behind a clear. *)
Quiet(s)      == [s |-> s, clear |-> FALSE, out |-> <<>>]
Clear(s)      == [s |-> s, clear |-> TRUE, out |-> <<>>]
Send(s, out)  == [s |-> s, clear |-> FALSE, out |-> out]
Reply(s, out) == [s |-> s, clear |-> TRUE, out |-> out]

-----------------------------------------------------------------------------
(* typing.c and proj.c on one machine's record. *)

resetTypingInfo(s) == [s EXCEPT !.status = "unready", !.text = NoText]

resetRacingInfo(s) ==
    [s EXCEPT !.readyMe = FALSE, !.readyYou = FALSE,
              !.seedMe = 0, !.seedYou = 0, !.won = FALSE]

resetInfo(s) == resetRacingInfo(resetTypingInfo(s))

BothReady(s) == s.readyMe /\ s.readyYou /\ s.seedMe # 0 /\ s.seedYou # 0

(* generateText, whose parameter takes the low bytes of the sum of the     *)
(* seeds, and the start of the countdown.  A text is known by what srandom *)
(* is given.                                                               *)
checkIfReady(s) ==
    IF BothReady(s)
    THEN [s EXCEPT !.status = "ready",
                   !.text = Unsigned(s.seedMe + s.seedYou),
                   !.left = CountdownTicks]
    ELSE s

(* waitingAckSerialPort and waitingAckStartTime, as an age in ticks that *)
(* stops growing once the timeout has passed.                            *)
awaitAck(s) == [s EXCEPT !.waitingAck = TRUE, !.ackAge = 0]

AckLate(s) == s.waitingAck /\ s.ackAge > AckTicks

(* The button at the centre of the race screen is two buttons, Ready and  *)
(* New Race, on the same rectangle: a click runs both callbacks in turn.  *)
readyButton(s, seed) ==
    IF s.status # "unready" THEN Quiet(s)
    ELSE IF s.readyMe
         THEN Send([s EXCEPT !.waitingAck = TRUE], <<INFO_NREADY>>)
         ELSE Send(awaitAck([s EXCEPT !.seedMe = seed]),
                   <<INFO_READY, INFO_ULONG>> \o SeedBytes(seed))

resetButton(s) == IF s.status = "finished" THEN resetInfo(s) ELSE s

MutRaceClick(s, seed) == readyButton(resetButton(s), seed)
raceClick(s, seed) ==
    LET r == readyButton(s, seed) IN [r EXCEPT !.s = resetButton(r.s)]

-----------------------------------------------------------------------------
(* The serial branch of the main loop on one byte. *)

(* A uint64_t is the opponent's seed if one is awaited. *)
MutTakeSeed(s, seed) ==
    IF s.waitingForSeed
    THEN [checkIfReady(s) EXCEPT !.seedYou = seed, !.waitingForSeed = FALSE]
    ELSE s
takeSeed(s, seed) ==
    IF s.waitingForSeed
    THEN [checkIfReady([s EXCEPT !.seedYou = seed]) EXCEPT !.waitingForSeed = FALSE]
    ELSE s

ValueOpen(s) == Len(s.bits) < Width(s.receiving)

MutValueDone(s) == [s EXCEPT !.receiving = INFO_ACK]
ValueDone(s) == [s EXCEPT !.receiving = INFO_ACK, !.bits = <<>>]

(* serialPortReadULong and its five likes: the bytes of a value are taken *)
(* one by one, the last of them is answered.                              *)
readTyped(s, byte) ==
    LET t == [s EXCEPT !.bits = Append(@, byte)]
    IN IF ValueOpen(t)
       THEN Quiet(t)
       ELSE Reply(IF t.receiving = INFO_ULONG
                  THEN takeSeed(ValueDone(t), SeedValue(t.bits))
                  ELSE ValueDone(t),
                  <<INFO_ACK>>)

MutAnswerReady(s) == [s EXCEPT !.readyMe = TRUE]
AnswerReady(s)    == checkIfReady([s EXCEPT !.readyMe = TRUE])
AnswerNReady(s)   == [s EXCEPT !.readyMe = FALSE, !.seedMe = 0]

(* An answer, if one is awaited: whatever the byte, the wait is over. *)
readAnswer(s, byte) ==
    LET done(t) == [t EXCEPT !.waitingAck = FALSE]
    IN CASE ~s.waitingAck -> Quiet(s)
         [] s.waitingAck /\ byte = INFO_ACK -> Quiet(done(s))
         [] s.waitingAck /\ byte = INFO_READY_ACK -> Quiet(done(AnswerReady(s)))
         [] s.waitingAck /\ byte = INFO_NREADY_ACK -> Quiet(done(AnswerNReady(s)))
         [] OTHER -> Clear(done(s))

MutAsks(s, byte) == byte = INFO_READY
Asks(s, byte)      == s.status = "unready" /\ byte = INFO_READY
TakesBack(s, byte) == s.status = "unready" /\ byte = INFO_NREADY

MutWonAnyTime(s, byte) == byte = INFO_WON
OpponentWins(s, byte) == s.status = "typing" /\ byte = INFO_WON

MutOpponentLeaves(s) == resetTypingInfo(s)
OpponentLeaves(s) == resetInfo(s)

(* A code outside a value: serial_port_ih and the default case. *)
readEvent(s, byte) ==
    CASE Asks(s, byte) ->
           Reply([s EXCEPT !.readyYou = TRUE, !.waitingForSeed = TRUE], <<INFO_READY_ACK>>)
      [] TakesBack(s, byte) -> Reply([s EXCEPT !.readyYou = FALSE], <<INFO_NREADY_ACK>>)
      [] OpponentWins(s, byte) ->
           readAnswer([s EXCEPT !.status = "finished", !.won = FALSE], byte)
      [] byte = INFO_EXIT -> readAnswer(OpponentLeaves(s), byte)
      [] OTHER -> readAnswer(s, byte)

AnnouncesValue(byte) == byte \in TypedCodes

readByte(s, byte) ==
    CASE s.receiving \in TypedCodes -> readTyped(s, byte)
      [] s.receiving \notin TypedCodes /\ AnnouncesValue(byte) ->
           Quiet([s EXCEPT !.receiving = byte])
      [] OTHER -> readEvent(s, byte)

(* endTyping and endRace, on the key that completes the text. *)
MutEndRace(s) == Quiet([s EXCEPT !.status = "finished", !.won = TRUE])
endRace(s) == Send([s EXCEPT !.status = "finished", !.won = TRUE], <<INFO_WON>>)

-----------------------------------------------------------------------------
Least(m, n) == IF m < n THEN m ELSE n

(* Machine p does what r says, having left rx unread: a clear empties its *)
(* receive FIFO, and its transmitter if a byte is still there.            *)
Perform(p, rx, r, harmless) ==
    LET arrived == IF r.clear THEN Least(Len(rx), FifoSize) ELSE 0
        waiting == IF r.clear /\ inTHR[p] /\ chan[p] # <<>> THEN 1 ELSE 0
    IN \E lostRx \in 0..arrived, lostTx \in 0..waiting :
         /\ peer' = [peer EXCEPT ![p] = r.s]
         /\ chan' = [chan EXCEPT
                       ![Other(p)] = SubSeq(rx, lostRx + 1, Len(rx)),
                       ![p] = SubSeq(chan[p], 1, Len(chan[p]) - lostTx) \o r.out]
         /\ dropped' = (dropped \/ lostTx > 0 \/ lostRx \notin {0, harmless})
         /\ inTHR' = [inTHR EXCEPT
                        ![p] = r.out # <<>> \/ (@ /\ ~r.clear),
                        ![Other(p)] = @ /\ lostRx < Len(rx)]

Idle == [app |-> "mainState", status |-> "unready", text |-> NoText,
         left |-> 0, readyMe |-> FALSE, readyYou |-> FALSE,
         seedMe |-> 0, seedYou |-> 0, won |-> FALSE,
         waitingForSeed |-> FALSE, waitingAck |-> FALSE, ackAge |-> 0,
         receiving |-> INFO_ACK, bits |-> <<>>]

Init ==
    /\ peer = [p \in Peer |-> Idle]
    /\ chan = [p \in Peer |-> <<>>]
    /\ inTHR = [p \in Peer |-> FALSE]
    /\ clicks = [p \in Peer |-> 0]
    /\ visits = [p \in Peer |-> 0]
    /\ dropped = FALSE
    /\ wonText = [p \in Peer |-> NoText]

Racing(p) == peer[p].status # "unready"
Present == \A p \in Peer : peer[p].app = "raceState"

-----------------------------------------------------------------------------
(* changeState(raceState): what serialPort.c remembers is not reset. *)
EnterRace(p) ==
    /\ peer[p].app = "mainState"
    /\ visits[p] < MaxVisits[p]
    /\ visits' = [visits EXCEPT ![p] = @ + 1]
    /\ Perform(p, chan[Other(p)], Clear([resetInfo(peer[p]) EXCEPT !.app = "raceState"]),
               Len(chan[Other(p)]))
    /\ UNCHANGED <<clicks, wonText>>

(* ESC on the race screen. *)
LeaveRace(p) ==
    /\ peer[p].app = "raceState"
    /\ Perform(p, chan[Other(p)],
               Send([peer[p] EXCEPT !.app = "mainState"], <<INFO_EXIT>>), 0)
    /\ UNCHANGED <<clicks, visits, wonText>>

Click(p) ==
    /\ peer[p].app = "raceState"
    /\ clicks[p] < MaxClicks[p]
    /\ clicks' = [clicks EXCEPT ![p] = @ + 1]
    /\ Perform(p, chan[Other(p)], raceClick(peer[p], Seed[p][clicks'[p]]), 0)
    /\ UNCHANGED <<visits, wonText>>

(* The key that completes the text (module Typing).                       *)
(* 25 words take longer than the few bytes by which the two countdowns    *)
(* differ: nobody completes them before the opponent may type.            *)
FinishText(p) ==
    /\ peer[p].app = "raceState"
    /\ peer[p].status = "typing"
    /\ peer[Other(p)].status # "ready"
    /\ Perform(p, chan[Other(p)], endRace(peer[p]), 0)
    /\ wonText' = [wonText EXCEPT ![p] = peer[p].text]
    /\ UNCHANGED <<clicks, visits>>

(* A received-data interrupt: one byte is read. *)
Interrupt(p) ==
    LET rx == chan[Other(p)]
    IN /\ peer[p].app = "raceState"
       /\ rx # <<>>
       /\ Perform(p, Tail(rx), readByte(peer[p], Head(rx)), 0)
       /\ UNCHANGED <<clicks, visits, wonText>>

(* A byte that finds the receive FIFO of p full. *)
Overrun(p) ==
    LET rx == chan[Other(p)]
    IN /\ Len(rx) > FifoSize
       /\ chan' = [chan EXCEPT ![Other(p)] =
                     SubSeq(rx, 1, FifoSize) \o SubSeq(rx, FifoSize + 2, Len(rx))]
       /\ inTHR' = [inTHR EXCEPT ![Other(p)] = @ /\ Len(rx) > FifoSize + 1]
       /\ dropped' = TRUE
       /\ UNCHANGED <<peer, clicks, visits, wonText>>

(* A timer interrupt: the countdown of a race in the race screen, the     *)
(* acknowledgment timeout in every screen.  The five seconds of the       *)
(* countdown outlast the bytes in flight: it does not run out before the  *)
(* opponent has read what p sent.                                         *)
Tick(p) ==
    LET s == peer[p]
        aged == [s EXCEPT !.left = IF @ < 0 THEN @ ELSE @ - 1,
                          !.ackAge = IF @ > AckTicks THEN @ ELSE @ + 1]
        t == IF s.app = "raceState" /\ s.status = "ready" /\ aged.left < 0
             THEN [aged EXCEPT !.status = "typing"] ELSE aged
        r == IF AckLate(t) THEN Clear(t) ELSE Quiet(t)
    IN /\ Present /\ s.status = "ready" /\ s.left = 0 => chan[p] = <<>>
       /\ Perform(p, chan[Other(p)], r, 0)
       /\ UNCHANGED <<clicks, visits, wonText>>

Next ==
    \E p \in Peer :
        \/ EnterRace(p)
        \/ LeaveRace(p)
        \/ Click(p)
        \/ FinishText(p)
        \/ Interrupt(p)
        \/ Overrun(p)
        \/ Tick(p)

Spec == Init /\ [][Next]_vars

-----------------------------------------------------------------------------
(* Restrictions on the cable and on the players, for the properties the    *)
(* protocol only has under them.                                           *)
Answers == {INFO_ACK, INFO_READY_ACK, INFO_NREADY_ACK}

(* Everything p sent has been read, and p has read every answer to it. *)
Settled(p) ==
    /\ chan[p] = <<>>
    /\ Range(chan[Other(p)]) \cap Answers = {}
    /\ peer[Other(p)].receiving = INFO_ACK

Leaves(p) == peer[p].app = "raceState" /\ peer'[p].app = "mainState"
Clicks(p) == clicks'[p] # clicks[p]
Enters(p) == visits'[p] # visits[p]

(* No clear and no overrun ever costs a byte the protocol needs. *)
Lossless == ~dropped'

(* Players click or leave only when settled, do not leave in the middle of *)
(* a value, and come back only to an idle cable.  The two players may      *)
(* still click, leave and enter at the same time.                          *)
Patient == \A p \in Peer :
    /\ Clicks(p) => Settled(p)
    /\ Leaves(p) => Settled(p) /\ peer[p].receiving = INFO_ACK
    /\ Enters(p) => /\ chan'[Other(p)] = <<>>
                    /\ peer[Other(p)].app = "raceState" => chan[p] = <<>>

(* Nobody takes Ready back. *)
Committed == \A p \in Peer : Clicks(p) => ~peer[p].readyMe \/ Racing(p)

(* Nobody presses the race button past the news that the opponent has won. *)
Attentive == \A p \in Peer : Clicks(p) => INFO_WON \notin Range(chan[Other(p)])

CarefulSpec == Init /\ [][Next /\ Lossless /\ Patient]_vars
CommittedSpec == Init /\ [][Next /\ Lossless /\ Patient /\ Committed]_vars
AttentiveSpec == Init /\ [][Next /\ Lossless /\ Patient /\ Committed /\ Attentive]_vars

(* The UART raises an interrupt for every byte it receives and the timer  *)
(* never stops; players owe nothing.                                      *)
Fairness == \A p \in Peer : /\ WF_vars(Interrupt(p) /\ Lossless)
                            /\ WF_vars(Tick(p) /\ Lossless)

FairAttentiveSpec == AttentiveSpec /\ Fairness

-----------------------------------------------------------------------------
Machine ==
    [app : {"mainState", "raceState"},
     status : {"unready", "ready", "typing", "finished"},
     text : Seq(Byte), left : -1..CountdownTicks, won : BOOLEAN,
     readyMe : BOOLEAN, readyYou : BOOLEAN, seedMe : Nat, seedYou : Nat,
     waitingForSeed : BOOLEAN, waitingAck : BOOLEAN, ackAge : 0..(AckTicks + 1),
     receiving : TypedCodes \cup {INFO_ACK}, bits : Seq(Byte)]

(* Of its variables serialPort.c keeps the receiver in a value or waiting  *)
(* for a code, whatever arrives; the countdown ends at -1.                 *)
TypeOK ==
    /\ peer \in [Peer -> Machine]
    /\ chan \in [Peer -> Seq(Byte)]
    /\ inTHR \in [Peer -> BOOLEAN]
    /\ clicks \in [Peer -> Nat]
    /\ visits \in [Peer -> Nat]
    /\ dropped \in BOOLEAN
    /\ wonText \in [Peer -> Seq(Byte)]

Running(p) == peer[p].status \in {"ready", "typing"}
Still == \A p \in Peer : chan[p] = <<>>

(* bitsSerialPort is never written past the value being received, and is  *)
(* empty whenever the receiver waits for a code, whatever bytes arrive,   *)
(* are lost or are cleared in between.                                    *)
FrameWithinBuffer ==
    \A p \in Peer : IF peer[p].receiving \in TypedCodes
                    THEN Len(peer[p].bits) < Width(peer[p].receiving)
                    ELSE peer[p].bits = <<>>

(* A race begins on the request by which the opponent stands at that      *)
(* moment: the seed in it is the one the opponent keeps for its own text,  *)
(* never that of a request taken back, left behind or made anew since.     *)
BeginsOnStandingRequest ==
    [][\A p \in Peer : ~Racing(p) /\ Racing(p)' =>
         peer'[p].seedYou = peer[Other(p)].seedMe]_vars

(* The click that asks for a new race is not taken as "Ready" as well,    *)
(* although both buttons cover the same rectangle.                        *)
NewRaceSendsNothing ==
    [][\A p \in Peer : clicks'[p] # clicks[p] /\ peer[p].status = "finished" =>
         chan'[p] = chan[p] /\ peer'[p].status = "unready"]_vars

(* Both players type the same words: the "given words" of the             *)
(* instructions screen.                                                   *)
SameText == \A p, q \in Peer : Racing(p) /\ Racing(q) => peer[p].text = peer[q].text

(* Once every byte has been read, both machines are in the race or none   *)
(* is; a player never counts down or types alone.                         *)
NobodyRacesAlone ==
    Present /\ Still => \A p, q \in Peer : Running(p) => Running(q)

(* Once every byte has been read, each machine shows of the opponent what *)
(* the opponent shows of itself, before the race as during it.            *)
ReadyFlagsAgree ==
    Present /\ Still /\ (\A p \in Peer : ~Racing(p) \/ Running(p)) =>
        \A p \in Peer : peer[p].readyYou = peer[Other(p)].readyMe

(* A race that has begun is not begun again with a new text. *)
NoRestart ==
    [][\A p \in Peer : Racing(p) /\ peer'[p].status = "ready" =>
         peer[p].status = "ready" /\ peer'[p].text = peer[p].text]_vars

(* Nobody is told "Lost" unless the opponent has won this very race. *)
LoserBeatenHere ==
    \A p \in Peer : peer[p].status = "finished" /\ ~peer[p].won =>
        wonText[Other(p)] = peer[p].text

(* Only one of the two players is shown "Won" for a race. *)
OneWinner ==
    \A p, q \in Peer : p # q => ~(/\ peer[p].status = "finished" /\ peer[p].won
                                  /\ peer[q].status = "finished" /\ peer[q].won
                                  /\ peer[p].text = peer[q].text)

(* Two players who are ready get their race, unless one of them takes it  *)
(* back or leaves.                                                        *)
ReadyGetRace ==
    \A p \in Peer :
        (Present /\ \A q \in Peer : ~Racing(q) /\ peer[q].readyMe) ~>
            (Racing(p) \/ ~Present \/ \E q \in Peer : ~peer[q].readyMe)

(* Nobody is left typing once the opponent has won. *)
RaceEnds ==
    \A p \in Peer :
        (Present /\ Running(p) /\ peer[Other(p)].status = "finished") ~>
            (~Running(p) \/ ~Present)

-----------------------------------------------------------------------------
(* The stage of each player in the terms of RaceContract. *)
Stage(p) ==
    LET s == peer[p]
    IN CASE s.app = "mainState" -> "away"
         [] s.app # "mainState" /\ s.status = "unready" -> "lobby"
         [] s.app # "mainState" /\ s.status = "ready" -> "countdown"
         [] s.app # "mainState" /\ s.status = "typing" -> "typing"
         [] s.app # "mainState" /\ s.status = "finished" /\ s.won -> "won"
         [] OTHER -> "lost"

SeedTexts ==
    UNION {{Unsigned(m + n) : m \in Range(Seed[p]), n \in Range(Seed[q])} : p, q \in Peer}

Contract == INSTANCE RaceContract WITH
    Words <- SeedTexts,
    NoWords <- NoText,
    stage <- [p \in Peer |-> Stage(p)],
    words <- [p \in Peer |-> IF Stage(p) = "away" THEN NoText ELSE peer[p].text],
    completed <- wonText

(* Behind the bytes the two machines run the race of RaceContract: they    *)
(* begin on the same words, nobody types while the other waits, nobody     *)
(* loses to an opponent who has not completed these words.                 *)
ImplementsContract == Contract!Spec
=============================================================================
