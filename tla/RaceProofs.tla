----------------------------- MODULE RaceProofs -----------------------------
(***************************************************************************)
(* Proofs about the race, for every pair of machines, every seeds, widths, *)
(* FIFO size and timeouts, and with bytes lost in any way Race allows.     *)
(*                                                                         *)
(* The theorems follow from what a single handler does to one machine,    *)
(* whatever byte it is given, so nothing is assumed of the cable.  Good is *)
(* the part of a machine's state they rest on; Fair relates a machine      *)
(* before and after a handler.                                             *)
(***************************************************************************)
EXTENDS Race, TLAPS, FiniteSetTheorems, WellFoundedInduction

(* The fields of a machine. *)
Fields == {"app", "status", "text", "left", "readyMe", "readyYou", "seedMe",
           "seedYou", "won", "waitingForSeed", "waitingAck", "ackAge",
           "receiving", "bits"}

RunningStatus == {"ready", "typing"}

(* A sequence of anything. *)
Sequence(b) == \E S : b \in Seq(S)

(* The receiver of one machine is within its buffer. *)
Framed(s) == IF s.receiving \in TypedCodes
             THEN Len(s.bits) < Width(s.receiving)
             ELSE s.bits = <<>>

(* What a handler may rely on: the fields, and the receiver within its     *)
(* buffer.                                                                 *)
Good(s) == DOMAIN s = Fields /\ Sequence(s.bits) /\ Framed(s)

(* The race agrees with both requests. *)
Agreed(s) ==
    /\ s.readyMe /\ s.readyYou
    /\ s.seedMe # 0 /\ s.seedYou # 0
    /\ s.text = Unsigned(s.seedMe + s.seedYou)

(* A handler that leaves the receiver alone and starts no race unagreed. *)
Calm(s, t) ==
    /\ DOMAIN t = Fields
    /\ t.receiving = s.receiving
    /\ t.bits = s.bits
    /\ t.status \in RunningStatus /\ s.status \notin RunningStatus => Agreed(t)

(* A handler that keeps the receiver within its buffer and starts no race  *)
(* unagreed.                                                               *)
Fair(s, t) ==
    /\ Good(t)
    /\ t.status \in RunningStatus /\ s.status \notin RunningStatus => Agreed(t)

(* Whoever begins a race has agreed to it. *)
StartsAgreed == \A p \in Peer : ~Running(p) /\ Running(p)' => Agreed(peer'[p])

(* The invariant behind the theorems of this section. *)
RaceInv == DOMAIN peer = Peer /\ \A p \in Peer : Good(peer[p])

-----------------------------------------------------------------------------
(* Appending a byte of any kind lengthens a sequence by one. *)
LEMMA AppendAny ==
  ASSUME NEW b, Sequence(b), NEW x
  PROVE Sequence(Append(b, x)) /\ Len(Append(b, x)) = Len(b) + 1 /\ Len(b) \in Nat
<1>1. PICK S : b \in Seq(S)
  BY DEF Sequence
<1>2. b \in Seq(S \cup {x})
  BY <1>1
<1>3. Append(b, x) \in Seq(S \cup {x}) /\ Len(Append(b, x)) = Len(b) + 1 /\ Len(b) \in Nat
  BY <1>2
<1>. QED
  BY <1>3 DEF Sequence

(* The empty sequence is one. *)
LEMMA EmptySequence == Sequence(<<>>)
<1>. <<>> \in Seq({})
  OBVIOUS
<1>. QED
  BY DEF Sequence

(* Codes and widths are integers of the expected kind. *)
LEMMA Codes == /\ INFO_ACK \notin TypedCodes
               /\ \A code : Width(code) \in Nat \ {0}
  BY LenAssumption
  DEF TypedCodes, LongCodes, ShortCodes, Width, INFO_ACK, INFO_ULONG, INFO_LONG,
      INFO_DOUBLE, INFO_UINT, INFO_INT, INFO_FLOAT, INFO_BITS

(* A calm handler keeps what Good says. *)
LEMMA CalmFair == ASSUME NEW s, Good(s), NEW t, Calm(s, t) PROVE Fair(s, t)
  BY DEF Good, Calm, Fair, Framed

-----------------------------------------------------------------------------
(* Resetting the session and the race of a machine is calm. *)
LEMMA ResetCalm ==
  ASSUME NEW s, DOMAIN s = Fields
  PROVE Calm(s, resetInfo(s))
  BY DEF Calm, Fields, resetInfo, resetTypingInfo, resetRacingInfo, RunningStatus

(* checkIfReady starts a race only when both players and seeds are there. *)
LEMMA CheckCalm ==
  ASSUME NEW s, DOMAIN s = Fields
  PROVE Calm(s, checkIfReady(s)) /\ checkIfReady(s).waitingForSeed = s.waitingForSeed
  BY DEF Calm, Fields, checkIfReady, BothReady, Agreed, RunningStatus

(* Two calm handlers in a row are calm if no race runs in between. *)
LEMMA CalmTwice ==
  ASSUME NEW s, NEW t, NEW u, Calm(s, t), t.status \notin RunningStatus, Calm(t, u)
  PROVE Calm(s, u)
  BY DEF Calm

(* An answer starts a race only through checkIfReady. *)
LEMMA AnswerCalm ==
  ASSUME NEW s, DOMAIN s = Fields, NEW byte
  PROVE Calm(s, readAnswer(s, byte).s)
<1>1. Calm(s, [s EXCEPT !.waitingAck = FALSE])
  BY DEF Calm, Fields
<1>2. Calm(s, [AnswerReady(s) EXCEPT !.waitingAck = FALSE])
  <2>1. DOMAIN [s EXCEPT !.readyMe = TRUE] = Fields
    OBVIOUS
  <2>2. Calm([s EXCEPT !.readyMe = TRUE], AnswerReady(s))
    BY <2>1, CheckCalm DEF AnswerReady
  <2>3. Calm(s, AnswerReady(s))
    BY <2>2 DEF Calm, Fields
  <2>. QED
    BY <2>3 DEF Calm, Fields, Agreed
<1>3. Calm(s, [AnswerNReady(s) EXCEPT !.waitingAck = FALSE])
  BY DEF Calm, Fields, AnswerNReady
<1>4. Calm(s, s)
  BY DEF Calm
<1>. QED
  BY <1>1, <1>2, <1>3, <1>4 DEF readAnswer, Quiet, Clear

(* No code of the race touches the receiver; of all of them only an answer *)
(* starts a race.                                                          *)
LEMMA EventCalm ==
  ASSUME NEW s, DOMAIN s = Fields, NEW byte
  PROVE Calm(s, readEvent(s, byte).s)
<1>1. Calm(s, [s EXCEPT !.readyYou = TRUE, !.waitingForSeed = TRUE])
  <2>1. Calm(s, [s EXCEPT !.readyYou = TRUE])
    BY DEF Calm, Fields
  <2>. QED
    BY DEF Calm, Fields
<1>2. Calm(s, [s EXCEPT !.readyYou = FALSE])
  BY DEF Calm, Fields
<1>3. Calm(s, readAnswer([s EXCEPT !.status = "finished", !.won = FALSE], byte).s)
  <2> DEFINE t == [s EXCEPT !.status = "finished", !.won = FALSE]
  <2>1. Calm(s, t) /\ t.status = "finished" /\ DOMAIN t = Fields
    BY DEF Calm, Fields, RunningStatus
  <2>2. Calm(t, readAnswer(t, byte).s)
    BY <2>1, AnswerCalm
  <2>. QED
    BY <2>1, <2>2, CalmTwice DEF RunningStatus
<1>4. Calm(s, readAnswer(OpponentLeaves(s), byte).s)
  <2> DEFINE t == OpponentLeaves(s)
  <2>1. Calm(s, t)
    BY ResetCalm DEF OpponentLeaves
  <2>2. t.status = "unready"
    BY DEF OpponentLeaves, resetInfo, resetTypingInfo, resetRacingInfo, Fields
  <2>3. Calm(t, readAnswer(t, byte).s)
    BY <2>1, AnswerCalm DEF Calm
  <2>. QED
    BY <2>1, <2>2, <2>3, CalmTwice DEF RunningStatus
<1>5. Calm(s, readAnswer(s, byte).s)
  BY AnswerCalm
<1>. QED
  BY <1>1, <1>2, <1>3, <1>4, <1>5 DEF readEvent, Reply

(* A value that is not awaited changes nothing; an awaited one may start   *)
(* the race.                                                               *)
LEMMA TakeSeedCalm ==
  ASSUME NEW s, DOMAIN s = Fields, NEW seed
  PROVE Calm(s, takeSeed(s, seed))
<1> DEFINE t == [s EXCEPT !.seedYou = seed]
<1>1. DOMAIN t = Fields /\ t.receiving = s.receiving /\ t.bits = s.bits /\ t.status = s.status
  BY DEF Fields
<1>2. Calm(s, checkIfReady(t))
  BY <1>1, CheckCalm DEF Calm
<1>3. Calm(s, [checkIfReady(t) EXCEPT !.waitingForSeed = FALSE])
  BY <1>2 DEF Calm, Fields, Agreed
<1>4. Calm(s, s)
  BY DEF Calm
<1>. QED
  BY <1>3, <1>4 DEF takeSeed

(* One byte of a value: the buffer stays short of the value, or the value  *)
(* is complete and the buffer is given up.                                 *)
LEMMA TypedFair ==
  ASSUME NEW s, Good(s), s.receiving \in TypedCodes, NEW byte
  PROVE Fair(s, readTyped(s, byte).s)
<1> DEFINE t == [s EXCEPT !.bits = Append(@, byte)]
<1>1. /\ DOMAIN t = Fields
      /\ t.bits = Append(s.bits, byte)
      /\ t.receiving = s.receiving
      /\ t.status = s.status
  BY DEF Good, Fields
<1>2. Sequence(t.bits)
  BY <1>1, AppendAny DEF Good
<1>3. CASE ValueOpen(t)
  <2>1. Framed(t)
    BY <1>1, <1>3 DEF ValueOpen, Framed
  <2>2. Fair(s, t)
    BY <1>1, <1>2, <2>1 DEF Fair, Good
  <2>. QED
    BY <1>3, <2>2 DEF readTyped, Quiet
<1>4. CASE ~ValueOpen(t)
  <2>1. /\ DOMAIN ValueDone(t) = Fields
        /\ ValueDone(t).bits = <<>>
        /\ ValueDone(t).receiving = INFO_ACK
        /\ ValueDone(t).status = s.status
    BY <1>1 DEF ValueDone, Fields
  <2>2. Good(ValueDone(t))
    BY <2>1, Codes, EmptySequence DEF Good, Framed
  <2>3. Fair(s, ValueDone(t))
    BY <2>1, <2>2 DEF Fair
  <2>4. Fair(s, takeSeed(ValueDone(t), SeedValue(t.bits)))
    BY <2>1, <2>2, TakeSeedCalm, CalmFair DEF Fair
  <2>. QED
    BY <1>4, <2>3, <2>4 DEF readTyped, Reply
<1>. QED
  BY <1>3, <1>4

(* Whatever byte arrives in whatever state, the receiver stays inside its  *)
(* buffer.                                                                 *)
LEMMA ByteFair ==
  ASSUME NEW s, Good(s), NEW byte
  PROVE Fair(s, readByte(s, byte).s)
<1>1. CASE s.receiving \in TypedCodes
  BY <1>1, TypedFair DEF readByte
<1>2. CASE s.receiving \notin TypedCodes /\ AnnouncesValue(byte)
  <2> DEFINE t == [s EXCEPT !.receiving = byte]
  <2>1. DOMAIN t = Fields /\ t.bits = <<>> /\ t.receiving = byte /\ t.status = s.status
    BY <1>2 DEF Good, Framed, Fields
  <2>2. Len(t.bits) < Width(byte)
    BY <2>1, Codes
  <2>3. Good(t)
    BY <1>2, <2>1, <2>2, EmptySequence DEF Good, Framed, AnnouncesValue
  <2>4. Fair(s, t)
    BY <2>1, <2>3 DEF Fair
  <2>. QED
    BY <1>2, <2>4 DEF readByte, Quiet
<1>3. CASE s.receiving \notin TypedCodes /\ ~AnnouncesValue(byte)
  BY <1>3, EventCalm, CalmFair DEF readByte, Good
<1>. QED
  BY <1>1, <1>2, <1>3

(* A click neither touches the receiver nor starts a race. *)
LEMMA ClickCalm ==
  ASSUME NEW s, DOMAIN s = Fields, NEW seed
  PROVE Calm(s, raceClick(s, seed).s)
<1>1. /\ DOMAIN readyButton(s, seed).s = Fields
      /\ readyButton(s, seed).s.status = s.status
      /\ readyButton(s, seed).s.bits = s.bits
      /\ readyButton(s, seed).s.receiving = s.receiving
  BY DEF readyButton, awaitAck, Quiet, Send, Fields
<1> DEFINE t == readyButton(s, seed).s
<1>2. Calm(s, t)
  BY <1>1 DEF Calm
<1>3. Calm(s, resetInfo(t))
  BY <1>1, ResetCalm DEF Calm
<1>4. raceClick(s, seed).s = resetButton(t)
  BY DEF raceClick, readyButton, Quiet, Send
<1>. QED
  BY <1>2, <1>3, <1>4 DEF resetButton

-----------------------------------------------------------------------------
(* A machine that a handler treats fairly keeps the invariant, and the     *)
(* other machine does not move.                                            *)
LEMMA PerformFair ==
  ASSUME RaceInv, NEW p \in Peer, NEW rx, NEW r, NEW harmless,
         Perform(p, rx, r, harmless), Fair(peer[p], r.s)
  PROVE RaceInv' /\ StartsAgreed
<1>1. peer' = [peer EXCEPT ![p] = r.s]
  BY DEF Perform
<1>2. DOMAIN peer' = Peer /\ peer'[p] = r.s
  BY <1>1 DEF RaceInv
<1>3. \A q \in Peer : q # p => peer'[q] = peer[q]
  BY <1>1 DEF RaceInv
<1>4. RaceInv'
  BY <1>2, <1>3 DEF RaceInv, Fair
<1>5. ASSUME NEW q \in Peer, ~Running(q), Running(q)' PROVE Agreed(peer'[q])
  <2>1. CASE q = p
    BY <1>2, <1>5, <2>1 DEF Running, Fair, RunningStatus
  <2>2. CASE q # p
    BY <1>3, <1>5, <2>2 DEF Running
  <2>. QED
    BY <2>1, <2>2
<1>. QED
  BY <1>4, <1>5 DEF StartsAgreed, Agreed

(* A step that leaves the machines alone keeps both facts. *)
LEMMA StillFair ==
  ASSUME RaceInv, UNCHANGED peer
  PROVE RaceInv' /\ StartsAgreed
  BY DEF RaceInv, StartsAgreed, Running

(* The countdown ends a race that is ready and starts none. *)
LEMMA TickFair ==
  ASSUME RaceInv, NEW p \in Peer, Tick(p)
  PROVE RaceInv' /\ StartsAgreed
<1> DEFINE s == peer[p]
           aged == [s EXCEPT !.left = IF @ < 0 THEN @ ELSE @ - 1,
                             !.ackAge = IF @ > AckTicks THEN @ ELSE @ + 1]
           t == IF s.app = "raceState" /\ s.status = "ready" /\ aged.left < 0
                THEN [aged EXCEPT !.status = "typing"] ELSE aged
           r == IF AckLate(t) THEN Clear(t) ELSE Quiet(t)
<1>1. DOMAIN s = Fields
  BY DEF RaceInv, Good
<1>2. DOMAIN aged = Fields /\ aged.status = s.status /\ aged.bits = s.bits
      /\ aged.receiving = s.receiving
  BY <1>1 DEF Fields
<1>3. Calm(s, t)
  <2>1. CASE s.app = "raceState" /\ s.status = "ready" /\ aged.left < 0
    <3>1. t = [aged EXCEPT !.status = "typing"]
      BY <2>1
    <3>. HIDE DEF aged, t
    <3>. QED
      BY <1>2, <2>1, <3>1 DEF Calm, Fields, RunningStatus
  <2>2. CASE ~(s.app = "raceState" /\ s.status = "ready" /\ aged.left < 0)
    <3>1. t = aged
      BY <2>2
    <3>. HIDE DEF aged, t
    <3>. QED
      BY <1>2, <3>1 DEF Calm
  <2>. QED
    BY <2>1, <2>2
<1>4. r.s = t
  BY DEF Clear, Quiet
<1>5. Perform(p, chan[Other(p)], r, 0)
  BY DEF Tick
<1>6. Fair(s, t)
  <2>. HIDE DEF t
  <2>. QED
    BY <1>3, CalmFair DEF RaceInv
<1>. HIDE DEF t, r
<1>. QED
  BY <1>4, <1>5, <1>6, PerformFair

(* Every step of the two machines and the cable. *)
LEMMA RaceNext ==
  ASSUME RaceInv, [Next]_vars
  PROVE RaceInv' /\ StartsAgreed
<1>. SUFFICES ASSUME NEW p \in Peer,
                     \/ EnterRace(p) \/ LeaveRace(p) \/ Click(p) \/ FinishText(p)
                     \/ Interrupt(p) \/ Overrun(p) \/ Tick(p)
              PROVE RaceInv' /\ StartsAgreed
  BY StillFair DEF Next, vars
<1>1. Good(peer[p]) /\ DOMAIN peer[p] = Fields
  BY DEF RaceInv, Good
<1>2. CASE EnterRace(p)
  <2> DEFINE t == [resetInfo(peer[p]) EXCEPT !.app = "raceState"]
  <2>1. Calm(peer[p], resetInfo(peer[p]))
    BY <1>1, ResetCalm
  <2>2. Calm(peer[p], t)
    BY <2>1 DEF Calm, Fields, Agreed
  <2>3. Fair(peer[p], Clear(t).s)
    BY <1>1, <2>2, CalmFair DEF Clear
  <2>. QED
    BY <1>2, <2>3, PerformFair DEF EnterRace
<1>3. CASE LeaveRace(p)
  <2> DEFINE t == [peer[p] EXCEPT !.app = "mainState"]
  <2>1. Calm(peer[p], t)
    BY <1>1 DEF Calm, Fields
  <2>2. Fair(peer[p], Send(t, <<INFO_EXIT>>).s)
    BY <1>1, <2>1, CalmFair DEF Send
  <2>. QED
    BY <1>3, <2>2, PerformFair DEF LeaveRace
<1>4. CASE Click(p)
  <2>1. \A seed : Fair(peer[p], raceClick(peer[p], seed).s)
    BY <1>1, ClickCalm, CalmFair
  <2>. QED
    BY <1>4, <2>1, PerformFair DEF Click
<1>5. CASE FinishText(p)
  <2>1. Calm(peer[p], endRace(peer[p]).s)
    BY <1>1 DEF Calm, Fields, endRace, Send, RunningStatus
  <2>. QED
    BY <1>1, <1>5, <2>1, CalmFair, PerformFair DEF FinishText
<1>6. CASE Interrupt(p)
  <2>1. \A byte : Fair(peer[p], readByte(peer[p], byte).s)
    BY <1>1, ByteFair
  <2>. QED
    BY <1>6, <2>1, PerformFair DEF Interrupt
<1>7. CASE Overrun(p)
  BY <1>7, StillFair DEF Overrun
<1>8. CASE Tick(p)
  BY <1>8, TickFair
<1>. QED
  BY <1>2, <1>3, <1>4, <1>5, <1>6, <1>7, <1>8

(* Both machines begin with an empty buffer, waiting for a code. *)
LEMMA RaceInit == Init => RaceInv
  BY Codes, EmptySequence DEF Init, RaceInv, Good, Idle, Fields, Framed

(* The invariant holds throughout, for any loss on the cable. *)
THEOREM RaceInvariant == Spec => []RaceInv
  BY RaceInit, RaceNext, PTL DEF Spec

(* bitsSerialPort is never written past the value being received, whatever *)
(* bytes arrive, are lost or are cleared, in whatever screen.              *)
THEOREM BufferSafe == Spec => []FrameWithinBuffer
<1>1. RaceInv => FrameWithinBuffer
  BY DEF RaceInv, Good, Framed, FrameWithinBuffer
<1>. QED
  BY <1>1, RaceInvariant, PTL

-----------------------------------------------------------------------------
(* The cable carries sequences of bytes. *)
CableInv ==
    /\ DOMAIN chan = Peer /\ DOMAIN clicks = Peer
    /\ \A p \in Peer : Sequence(chan[p])

(* A machine has an opponent. *)
LEMMA TwoPeers == ASSUME NEW p \in Peer PROVE Other(p) \in Peer /\ Other(p) # p
<1>1. \E q \in Peer : q # p
  <2>. SUFFICES ASSUME \A q \in Peer : q = p PROVE FALSE
    OBVIOUS
  <2>1. Peer = {p}
    OBVIOUS
  <2>2. Cardinality(Peer) = 1
    BY <2>1, FS_Singleton
  <2>. QED
    BY <2>2, PeerAssumption
<1>. QED
  BY <1>1 DEF Other

(* Sequences put end to end are a sequence. *)
LEMMA Joined ==
  ASSUME NEW a, NEW b, Sequence(a), Sequence(b)
  PROVE Sequence(a \o b)
<1>1. PICK S, T : a \in Seq(S) /\ b \in Seq(T)
  BY DEF Sequence
<1>2. a \in Seq(S \cup T) /\ b \in Seq(S \cup T)
  BY <1>1
<1>3. a \o b \in Seq(S \cup T)
  BY <1>2
<1>. QED
  BY <1>3 DEF Sequence

(* A part of a sequence is a sequence. *)
LEMMA Part ==
  ASSUME NEW a, Sequence(a), NEW m \in Nat \ {0}, NEW n \in Int, n <= Len(a)
  PROVE Sequence(SubSeq(a, m, n))
<1>1. PICK S : a \in Seq(S)
  BY DEF Sequence
<1>2. SubSeq(a, m, n) \in Seq(S)
  BY <1>1
<1>. QED
  BY <1>2 DEF Sequence

(* The length of a sequence is a number. *)
LEMMA SequenceLen == ASSUME NEW a, Sequence(a) PROVE Len(a) \in Nat
  BY DEF Sequence

(* What a handler sends is a sequence of bytes. *)
LEMMA CodesSent ==
  /\ Sequence(<<>>)
  /\ \A x : Sequence(<<x>>)
  /\ \A x, y, n : Sequence(<<x, y>> \o SeedBytes(n))
<1>1. Sequence(<<>>)
  BY EmptySequence
<1>2. \A x : Sequence(<<x>>)
  <2>. TAKE x
  <2>1. <<x>> \in Seq({x})
    OBVIOUS
  <2>. QED
    BY <2>1 DEF Sequence
<1>3. \A x, y : Sequence(<<x, y>>)
  <2>. TAKE x, y
  <2>1. <<x, y>> \in Seq({x, y})
    OBVIOUS
  <2>. QED
    BY <2>1 DEF Sequence
<1>4. \A n : Sequence(SeedBytes(n))
  <2>. TAKE n
  <2> DEFINE byte(i) == Shifted(n)[i - 1] % 256
             S == {byte(i) : i \in 1..LongLen}
  <2>1. LongLen \in Nat
    BY LenAssumption
  <2>2. SeedBytes(n) = [i \in 1..LongLen |-> byte(i)]
    BY DEF SeedBytes
  <2>. HIDE DEF byte
  <2>3. SeedBytes(n) \in [1..LongLen -> S]
    BY <2>2
  <2>. HIDE DEF S
  <2>4. SeedBytes(n) \in Seq(S)
    BY <2>1, <2>3
  <2>. QED
    BY <2>4 DEF Sequence
<1>5. \A x, y, n : Sequence(<<x, y>> \o SeedBytes(n))
  BY <1>3, <1>4, Joined
<1>. QED
  BY <1>1, <1>2, <1>5

(* An answer sends nothing. *)
LEMMA AnswerOut == ASSUME NEW s, NEW byte PROVE Sequence(readAnswer(s, byte).out)
  BY CodesSent DEF readAnswer, Quiet, Clear

(* What is sent in reply to a byte is a sequence. *)
LEMMA ByteOut == ASSUME NEW s, NEW byte PROVE Sequence(readByte(s, byte).out)
<1>1. Sequence(readTyped(s, byte).out)
  BY CodesSent DEF readTyped, Quiet, Reply
<1>2. Sequence(readEvent(s, byte).out)
  BY CodesSent, AnswerOut DEF readEvent, Reply
<1>. QED
  BY <1>1, <1>2, CodesSent DEF readByte, Quiet

(* What a click sends is a sequence. *)
LEMMA ClickOut == ASSUME NEW s, NEW seed PROVE Sequence(raceClick(s, seed).out)
<1>1. raceClick(s, seed).out = readyButton(s, seed).out
  BY DEF raceClick, readyButton, Quiet, Send
<1>2. Sequence(readyButton(s, seed).out)
  BY CodesSent DEF readyButton, Quiet, Send
<1>. QED
  BY <1>1, <1>2

(* A handler that sends a sequence keeps the cable. *)
LEMMA PerformCable ==
  ASSUME CableInv, NEW p \in Peer, NEW rx, Sequence(rx), NEW r, Sequence(r.out), NEW harmless,
         Perform(p, rx, r, harmless)
  PROVE DOMAIN chan' = Peer /\ \A q \in Peer : Sequence(chan'[q])
<1>1. PICK lostRx \in Nat, lostTx \in {0, 1} :
        chan' = [chan EXCEPT
                   ![Other(p)] = SubSeq(rx, lostRx + 1, Len(rx)),
                   ![p] = SubSeq(chan[p], 1, Len(chan[p]) - lostTx) \o r.out]
  <2> DEFINE arrived == IF r.clear THEN Least(Len(rx), FifoSize) ELSE 0
             waiting == IF r.clear /\ inTHR[p] /\ chan[p] # <<>> THEN 1 ELSE 0
             Lost(lostRx, lostTx) ==
               chan' = [chan EXCEPT
                          ![Other(p)] = SubSeq(rx, lostRx + 1, Len(rx)),
                          ![p] = SubSeq(chan[p], 1, Len(chan[p]) - lostTx) \o r.out]
  <2>1. arrived \in Nat /\ waiting \in {0, 1}
    BY BoundAssumption, SequenceLen DEF Least
  <2>2. \E lostRx \in 0..arrived, lostTx \in 0..waiting : Lost(lostRx, lostTx)
    BY DEF Perform
  <2>. HIDE DEF arrived, waiting, Lost
  <2>3. \E lostRx \in Nat, lostTx \in {0, 1} : Lost(lostRx, lostTx)
    BY <2>1, <2>2
  <2>. QED
    BY <2>3 DEF Lost
<1>2. Sequence(SubSeq(rx, lostRx + 1, Len(rx)))
  BY SequenceLen, Part
<1>3. Sequence(SubSeq(chan[p], 1, Len(chan[p]) - lostTx) \o r.out)
  <2>1. Sequence(chan[p]) /\ Len(chan[p]) \in Nat
    BY SequenceLen DEF CableInv
  <2>2. Sequence(SubSeq(chan[p], 1, Len(chan[p]) - lostTx))
    BY <2>1, Part
  <2>. QED
    BY <2>2, Joined
<1>4. DOMAIN chan' = Peer
  BY <1>1 DEF CableInv
<1>5. ASSUME NEW q \in Peer PROVE Sequence(chan'[q])
  <2> DEFINE u == SubSeq(rx, lostRx + 1, Len(rx))
             w == SubSeq(chan[p], 1, Len(chan[p]) - lostTx) \o r.out
  <2>. HIDE DEF u, w
  <2>1. chan' = [chan EXCEPT ![Other(p)] = u, ![p] = w]
    BY <1>1 DEF u, w
  <2>2. chan'[q] \in {u, w, chan[q]}
    BY <2>1 DEF CableInv
  <2>. QED
    BY <1>2, <1>3, <2>2 DEF CableInv, u, w
<1>. QED
  BY <1>4, <1>5

(* Nothing is on the cable at first. *)
LEMMA CableInit == Init => CableInv
  BY EmptySequence DEF Init, CableInv

(* Every step keeps sequences on the cable. *)
LEMMA CableNext == CableInv /\ [Next]_vars => CableInv'
<1>. SUFFICES ASSUME CableInv, NEW p \in Peer,
                     \/ EnterRace(p) \/ LeaveRace(p) \/ Click(p) \/ FinishText(p)
                     \/ Interrupt(p) \/ Overrun(p) \/ Tick(p)
              PROVE CableInv'
  BY DEF Next, vars, CableInv
<1>1. DOMAIN clicks' = Peer
  BY DEF CableInv, EnterRace, LeaveRace, Click, FinishText, Interrupt, Overrun, Tick
<1> DEFINE rx == chan[Other(p)]
<1>2. Sequence(rx) /\ Len(rx) \in Nat
  BY TwoPeers, SequenceLen DEF CableInv
<1>. SUFFICES DOMAIN chan' = Peer /\ \A q \in Peer : Sequence(chan'[q])
  BY <1>1 DEF CableInv
<1>3. CASE EnterRace(p)
  <2>1. \A s : Sequence(Clear(s).out)
    BY CodesSent DEF Clear
  <2>. QED
    BY <1>2, <1>3, <2>1, PerformCable DEF EnterRace
<1>4. CASE LeaveRace(p)
  <2>1. \A s : Sequence(Send(s, <<INFO_EXIT>>).out)
    BY CodesSent DEF Send
  <2>. QED
    BY <1>2, <1>4, <2>1, PerformCable DEF LeaveRace
<1>5. CASE Click(p)
  BY <1>2, <1>5, ClickOut, PerformCable DEF Click
<1>6. CASE FinishText(p)
  <2>1. Sequence(endRace(peer[p]).out)
    BY CodesSent DEF endRace, Send
  <2>. QED
    BY <1>2, <1>6, <2>1, PerformCable DEF FinishText
<1>7. CASE Interrupt(p)
  <2>1. Sequence(Tail(rx))
    <3>1. PICK S : rx \in Seq(S)
      BY <1>2 DEF Sequence
    <3>2. Tail(rx) \in Seq(S)
      BY <1>7, <3>1 DEF Interrupt
    <3>. QED
      BY <3>2 DEF Sequence
  <2>. QED
    BY <1>7, <2>1, ByteOut, PerformCable DEF Interrupt
<1>8. CASE Overrun(p)
  <2> DEFINE u == SubSeq(rx, 1, FifoSize) \o SubSeq(rx, FifoSize + 2, Len(rx))
  <2>1. Sequence(u)
    <3>1. Len(rx) > FifoSize /\ FifoSize \in Nat \ {0}
      BY <1>8, BoundAssumption DEF Overrun
    <3>. QED
      BY <1>2, <3>1, Part, Joined
  <2>2. chan' = [chan EXCEPT ![Other(p)] = u]
    BY <1>8 DEF Overrun
  <2>. HIDE DEF u
  <2>. QED
    BY <2>1, <2>2 DEF CableInv
<1>9. CASE Tick(p)
  <2>1. \A s : Sequence(Clear(s).out) /\ Sequence(Quiet(s).out)
    BY CodesSent DEF Clear, Quiet
  <2>2. PICK r : Perform(p, rx, r, 0) /\ \E s : r \in {Clear(s), Quiet(s)}
    BY <1>9, Zenon DEF Tick
  <2>. QED
    BY <1>2, <2>1, <2>2, PerformCable
<1>. QED
  BY <1>3, <1>4, <1>5, <1>6, <1>7, <1>8, <1>9

(* A click that finds the race finished resets the session and leaves the  *)
(* cable as it is.                                                         *)
LEMMA FinishedClick ==
  ASSUME RaceInv, CableInv, NEW p \in Peer, Click(p), peer[p].status = "finished"
  PROVE chan'[p] = chan[p] /\ peer'[p].status = "unready"
<1>1. DOMAIN peer = Peer /\ DOMAIN peer[p] = Fields /\ DOMAIN chan = Peer /\ Sequence(chan[p])
  BY DEF RaceInv, Good, CableInv
<1>2. \A seed : /\ raceClick(peer[p], seed).s = resetInfo(peer[p])
                /\ raceClick(peer[p], seed).clear = FALSE
                /\ raceClick(peer[p], seed).out = <<>>
  BY DEF raceClick, readyButton, resetButton, Quiet
<1>3. PICK r : /\ Perform(p, chan[Other(p)], r, 0)
               /\ r.s = resetInfo(peer[p]) /\ r.clear = FALSE /\ r.out = <<>>
  BY <1>2 DEF Click
<1>4. peer'[p].status = "unready"
  <2>1. peer'[p] = resetInfo(peer[p])
    BY <1>1, <1>3 DEF Perform
  <2>. QED
    BY <1>1, <2>1 DEF resetInfo, resetRacingInfo, resetTypingInfo, Fields
<1>5. \E u : chan' = [chan EXCEPT ![Other(p)] = u,
                                  ![p] = SubSeq(chan[p], 1, Len(chan[p]) - 0) \o <<>>]
  <2> DEFINE rx == chan[Other(p)]
             waiting == IF r.clear /\ inTHR[p] /\ chan[p] # <<>> THEN 1 ELSE 0
             Lost(lostRx, lostTx) ==
               chan' = [chan EXCEPT
                          ![Other(p)] = SubSeq(rx, lostRx + 1, Len(rx)),
                          ![p] = SubSeq(chan[p], 1, Len(chan[p]) - lostTx) \o r.out]
  <2>1. waiting = 0
    BY <1>3
  <2>2. \E lostTx \in 0..waiting : \E lostRx : Lost(lostRx, lostTx)
    BY <1>3 DEF Perform
  <2>3. \E lostRx : Lost(lostRx, 0)
    <3>. HIDE DEF Lost, waiting
    <3>. QED
      BY <2>1, <2>2
  <2>. QED
    BY <1>3, <2>3
<1>6. SubSeq(chan[p], 1, Len(chan[p]) - 0) \o <<>> = chan[p]
  <2>1. PICK S : chan[p] \in Seq(S)
    BY <1>1 DEF Sequence
  <2>. QED
    BY <2>1
<1>. QED
  BY <1>1, <1>4, <1>5, <1>6

(* New Race, on whose rectangle Ready lies as well, never asks the         *)
(* opponent for anything, for every loss of bytes and every player.        *)
THEOREM NewRaceSilent == Spec => NewRaceSendsNothing
<1> DEFINE Silent == \A p \in Peer : clicks'[p] # clicks[p] /\ peer[p].status = "finished" =>
                       chan'[p] = chan[p] /\ peer'[p].status = "unready"
<1>1. RaceInv /\ CableInv /\ [Next]_vars => [Silent]_vars
  <2>. SUFFICES ASSUME RaceInv, CableInv, NEW q \in Peer,
                       \/ EnterRace(q) \/ LeaveRace(q) \/ Click(q) \/ FinishText(q)
                       \/ Interrupt(q) \/ Overrun(q) \/ Tick(q),
                       NEW p \in Peer, clicks'[p] # clicks[p], peer[p].status = "finished"
                PROVE chan'[p] = chan[p] /\ peer'[p].status = "unready"
    BY DEF Next
  <2>1. Click(q)
    BY DEF EnterRace, LeaveRace, FinishText, Interrupt, Overrun, Tick
  <2>2. p = q
    BY <2>1 DEF Click, CableInv
  <2>. QED
    BY <2>1, <2>2, FinishedClick
<1>. QED
  BY <1>1, CableInit, CableNext, RaceInvariant, PTL DEF Spec, NewRaceSendsNothing

-----------------------------------------------------------------------------
-----------------------------------------------------------------------------
(* Recursion over the bytes of a value.  TLAPS has induction over          *)
(* predicates only; over sets it follows from the least element of the     *)
(* numbers a set lacks.                                                    *)
Less == {pair \in Nat \X Nat : pair[1] < pair[2]}

(* No set of natural numbers goes down for ever. *)
LEMMA LessWellFounded == IsWellFoundedOn(Less, Nat)
  BY NatLessThanWellFounded DEF OpToRel, Less

(* A set of numbers that has 0, and with every number below n the next     *)
(* one, has them all.                                                      *)
LEMMA SetInduction ==
  ASSUME NEW S, 0 \in S, \A n \in Nat : n \in S => n + 1 \in S
  PROVE  Nat \subseteq S
<1> DEFINE T == Nat \ S
<1>. SUFFICES ASSUME T # {} PROVE FALSE
  OBVIOUS
<1>1. T \subseteq Nat
  OBVIOUS
<1>. HIDE DEF T
<1>2. PICK x \in T : \A y \in T : ~ (<<y, x>> \in Less)
  BY <1>1, WFMin, LessWellFounded
<1>3. \A y \in T : ~(y < x)
  <2>. SUFFICES ASSUME NEW y \in T, y < x PROVE FALSE
    OBVIOUS
  <2>1. <<y, x>> \in Nat \X Nat
    BY <1>1
  <2>. QED
    BY <2>1, <1>2 DEF Less
<1>4. x # 0
  BY DEF T
<1>5. x - 1 \in Nat /\ x - 1 < x
  BY <1>1, <1>4
<1>6. x - 1 \notin T
  BY <1>3, <1>5
<1>. QED
  BY <1>5, <1>6 DEF T

(* The value shifted right by a byte at a time.                            *)
LEMMA ShiftedSteps ==
  ASSUME NEW n \in Nat
  PROVE /\ Shifted(n)[0] = n
        /\ \A i \in 0..LongLen : Shifted(n)[i] \in Nat
        /\ \A i \in 1..LongLen : Shifted(n)[i] = Shifted(n)[i - 1] \div 256
<1> DEFINE Steps(f, k) ==
             f = [i \in 0..k |-> IF i = 0 THEN n ELSE f[i - 1] \div 256]
           Possible(k) == \E f : Steps(f, k)
           S == {k \in Nat : Possible(k)}
<1>1. 0 \in S
  <2>1. Steps([i \in 0..0 |-> n], 0)
    OBVIOUS
  <2>. QED
    BY <2>1
<1>2. ASSUME NEW k \in Nat, k \in S PROVE k + 1 \in S
  <2>1. PICK f : Steps(f, k)
    BY <1>2
  <2> DEFINE g == [i \in 0..(k + 1) |-> IF i <= k THEN f[i] ELSE f[k] \div 256]
  <2>2. ASSUME NEW i \in 0..(k + 1)
        PROVE g[i] = IF i = 0 THEN n ELSE g[i - 1] \div 256
    <3>1. CASE i = 0
      BY <2>1, <3>1
    <3>2. CASE i \in 1..k
      BY <2>1, <3>2
    <3>3. CASE i = k + 1
      BY <3>3
    <3>. QED
      BY <3>1, <3>2, <3>3
  <2>3. Steps(g, k + 1)
    BY <2>2
  <2>4. Possible(k + 1)
    <3>. HIDE DEF g, Steps
    <3>. QED
      BY <2>3
  <2>. HIDE DEF Possible
  <2>. QED
    BY <2>4
<1>3. LongLen \in Nat
  BY LenAssumption
<1>4. Possible(LongLen)
  <2>. HIDE DEF Possible
  <2>1. Nat \subseteq S
    <3>. HIDE DEF S
    <3>. QED
      BY <1>1, <1>2, SetInduction
  <2>. QED
    BY <1>3, <2>1
<1> DEFINE shifted == CHOOSE f : Steps(f, LongLen)
<1>5. Steps(shifted, LongLen)
  BY <1>4
<1>6. Shifted(n) = shifted
  BY DEF Shifted
<1>. HIDE DEF shifted
<1>7. shifted[0] = n
  BY <1>3, <1>5
<1>8. \A i \in 1..LongLen : shifted[i] = shifted[i - 1] \div 256
  BY <1>3, <1>5
<1> DEFINE Natural == {i \in Nat : i \in 0..LongLen => shifted[i] \in Nat}
<1>9. 0 \in Natural
  BY <1>7
<1>10. ASSUME NEW i \in Nat, i \in Natural PROVE i + 1 \in Natural
  <2>. SUFFICES ASSUME i + 1 \in 0..LongLen PROVE shifted[i + 1] \in Nat
    OBVIOUS
  <2>1. shifted[i] \in Nat
    BY <1>3, <1>10
  <2>2. shifted[i + 1] = shifted[i] \div 256
    BY <1>3, <1>8
  <2>. QED
    BY <2>1, <2>2
<1>11. Nat \subseteq Natural
  <2>. HIDE DEF Natural
  <2>. QED
    BY <1>9, <1>10, SetInduction
<1>. QED
  BY <1>3, <1>6, <1>7, <1>8, <1>11

(* A value read byte by byte from the top.                                 *)
LEMMA ValueSteps ==
  ASSUME NEW bytes
  PROVE \E top : /\ top[0] = 0
                 /\ \A k \in 1..LongLen : top[k] = bytes[LongLen - k + 1] + 256 * top[k - 1]
                 /\ SeedValue(bytes) = top[LongLen]
<1> DEFINE With(k, x) == bytes[LongLen - k + 1] + 256 * x
           Steps(f, m) == f = [k \in 0..m |-> IF k = 0 THEN 0 ELSE With(k, f[k - 1])]
           Possible(m) == \E f : Steps(f, m)
           S == {m \in Nat : Possible(m)}
<1>1. 0 \in S
  <2>1. Steps([k \in 0..0 |-> 0], 0)
    OBVIOUS
  <2>. QED
    BY <2>1
<1>2. ASSUME NEW m \in Nat, m \in S PROVE m + 1 \in S
  <2>1. PICK f : Steps(f, m)
    BY <1>2
  <2> DEFINE g == [k \in 0..(m + 1) |-> IF k <= m THEN f[k]
                                         ELSE With(m + 1, f[m])]
  <2>. HIDE DEF With
  <2>2. ASSUME NEW k \in 0..(m + 1)
        PROVE g[k] = IF k = 0 THEN 0 ELSE With(k, g[k - 1])
    <3>1. CASE k = 0
      BY <2>1, <3>1
    <3>2. CASE k \in 1..m
      BY <2>1, <3>2
    <3>3. CASE k = m + 1
      BY <3>3
    <3>. QED
      BY <3>1, <3>2, <3>3
  <2>3. Steps(g, m + 1)
    BY <2>2
  <2>4. Possible(m + 1)
    <3>. HIDE DEF g, Steps
    <3>. QED
      BY <2>3
  <2>. HIDE DEF Possible
  <2>. QED
    BY <2>4
<1>3. LongLen \in Nat
  BY LenAssumption
<1>4. Possible(LongLen)
  <2>. HIDE DEF Possible
  <2>1. Nat \subseteq S
    <3>. HIDE DEF S
    <3>. QED
      BY <1>1, <1>2, SetInduction
  <2>. QED
    BY <1>3, <2>1
<1> DEFINE top == CHOOSE f : Steps(f, LongLen)
<1>5. Steps(top, LongLen)
  BY <1>4
<1>6. SeedValue(bytes) = top[LongLen]
  BY DEF SeedValue
<1>. HIDE DEF top
<1>. QED
  BY <1>3, <1>5, <1>6

(* A number is its low byte and the rest. *)
LEMMA SplitByte == \A x \in Nat : (x % 256) + 256 * (x \div 256) = x /\ x % 256 \in 0..255
  OBVIOUS

(* A number is sent as bytes. *)
LEMMA BytesOfNumber == ASSUME NEW n \in Nat PROVE SeedBytes(n) \in [1..LongLen -> Byte]
<1>1. LongLen \in Nat
  BY LenAssumption
<1>2. ASSUME NEW i \in 1..LongLen PROVE Shifted(n)[i - 1] % 256 \in Byte
  <2>1. Shifted(n)[i - 1] \in Nat
    BY <1>1, ShiftedSteps
  <2>. QED
    BY <2>1, SplitByte DEF Byte
<1>. QED
  BY <1>2 DEF SeedBytes

(* A seed that the bytes of an unsigned long hold. *)
Fits(n) == n \in Nat \ {0} /\ Shifted(n)[LongLen] = 0

(* What is sent of a value that fits is what is read of it.                *)
LEMMA SeedRoundTrip ==
  ASSUME NEW n, Fits(n)
  PROVE /\ SeedBytes(n) \in Seq(Byte)
        /\ Len(SeedBytes(n)) = LongLen
        /\ SeedValue(SeedBytes(n)) = n
<1>1. LongLen \in Nat
  BY LenAssumption
<1>2. n \in Nat
  BY DEF Fits
<1>3. SeedBytes(n) \in [1..LongLen -> Byte]
  BY <1>2, BytesOfNumber
<1>4. SeedBytes(n) \in Seq(Byte) /\ Len(SeedBytes(n)) = LongLen
  BY <1>1, <1>3
<1>5. PICK top : /\ top[0] = 0
                 /\ \A k \in 1..LongLen : top[k] = SeedBytes(n)[LongLen - k + 1] + 256 * top[k - 1]
                 /\ SeedValue(SeedBytes(n)) = top[LongLen]
  BY ValueSteps
<1> DEFINE S == {k \in Nat : k \in 0..LongLen => top[k] = Shifted(n)[LongLen - k]}
<1>6. 0 \in S
  BY <1>1, <1>5 DEF Fits
<1>7. ASSUME NEW k \in Nat, k \in S PROVE k + 1 \in S
  <2>. SUFFICES ASSUME k + 1 \in 0..LongLen PROVE top[k + 1] = Shifted(n)[LongLen - (k + 1)]
    OBVIOUS
  <2> DEFINE x == Shifted(n)[LongLen - k - 1]
  <2>1. top[k] = Shifted(n)[LongLen - k]
    BY <1>1, <1>7
  <2>2. x \in Nat /\ Shifted(n)[LongLen - k] = x \div 256
    BY <1>1, <1>2, ShiftedSteps
  <2>3. SeedBytes(n)[LongLen - k] = x % 256
    BY <1>1 DEF SeedBytes
  <2>4. top[k + 1] = SeedBytes(n)[LongLen - k] + 256 * top[k]
    BY <1>1, <1>5
  <2>. HIDE DEF x
  <2>5. top[k + 1] = x
    BY <2>1, <2>2, <2>3, <2>4, SplitByte
  <2>. QED
    BY <2>5, <1>1 DEF x
<1>8. Nat \subseteq S
  <2>. HIDE DEF S
  <2>. QED
    BY <1>6, <1>7, SetInduction
<1>9. top[LongLen] = Shifted(n)[0]
  BY <1>1, <1>8
<1>. QED
  BY <1>2, <1>4, <1>5, <1>9, ShiftedSteps

(* Any bytes of a value read to a natural number.                          *)
LEMMA ValueNatural ==
  ASSUME NEW bytes \in Seq(Byte), Len(bytes) = LongLen
  PROVE SeedValue(bytes) \in Nat
<1>1. LongLen \in Nat
  BY LenAssumption
<1>2. PICK top : /\ top[0] = 0
                 /\ \A k \in 1..LongLen : top[k] = bytes[LongLen - k + 1] + 256 * top[k - 1]
                 /\ SeedValue(bytes) = top[LongLen]
  BY ValueSteps
<1> DEFINE S == {k \in Nat : k \in 0..LongLen => top[k] \in Nat}
<1>3. 0 \in S
  BY <1>2
<1>4. ASSUME NEW k \in Nat, k \in S PROVE k + 1 \in S
  <2>. SUFFICES ASSUME k + 1 \in 0..LongLen PROVE top[k + 1] \in Nat
    OBVIOUS
  <2>1. top[k] \in Nat
    BY <1>1, <1>4
  <2>2. bytes[LongLen - (k + 1) + 1] \in Nat
    <3>1. LongLen - (k + 1) + 1 \in 1..Len(bytes)
      BY <1>1
    <3>2. bytes[LongLen - (k + 1) + 1] \in Byte
      BY <3>1
    <3>3. \A x \in Byte : x \in Nat
      BY DEF Byte
    <3>. QED
      BY <3>2, <3>3
  <2>3. top[k + 1] = bytes[LongLen - (k + 1) + 1] + 256 * top[k]
    BY <1>1, <1>2
  <2>. QED
    BY <2>1, <2>2, <2>3
<1>5. Nat \subseteq S
  <2>. HIDE DEF S
  <2>. QED
    BY <1>3, <1>4, SetInduction
<1>. QED
  BY <1>1, <1>2, <1>5

-----------------------------------------------------------------------------
(* Types: what a handler makes of a machine, and what it sends.            *)
Typed(r) == r.s \in Machine /\ r.out \in Seq(Byte)

(* The codes of the protocol are bytes. *)
LEMMA CodesAreBytes ==
  /\ INFO_ACK \in Byte /\ INFO_READY \in Byte /\ INFO_NREADY \in Byte
  /\ INFO_READY_ACK \in Byte /\ INFO_NREADY_ACK \in Byte /\ INFO_WON \in Byte
  /\ INFO_EXIT \in Byte /\ INFO_ULONG \in Byte
  BY DEF Byte, INFO_ACK, INFO_READY, INFO_NREADY, INFO_READY_ACK, INFO_NREADY_ACK,
         INFO_WON, INFO_EXIT, INFO_ULONG, INFO_BITS

(* Giving one field of a machine a value of its type.                      *)
LEMMA FieldTyped ==
  ASSUME NEW s \in Machine
  PROVE /\ DOMAIN s = Fields
        /\ \A n \in -1..CountdownTicks : [s EXCEPT !.left = n] \in Machine
        /\ \A n \in 0..(AckTicks + 1) : [s EXCEPT !.ackAge = n] \in Machine
        /\ \A b \in Seq(Byte) : [s EXCEPT !.bits = b] \in Machine
        /\ \A c \in TypedCodes \cup {INFO_ACK} : [s EXCEPT !.receiving = c] \in Machine
        /\ \A n \in Nat : [s EXCEPT !.seedMe = n] \in Machine
        /\ \A b \in BOOLEAN : [s EXCEPT !.waitingAck = b] \in Machine
  BY DEF Machine, Fields

(* No bytes are a sequence of bytes. *)
LEMMA EmptyBytes == <<>> \in Seq(Byte)
  OBVIOUS

(* A reset keeps the types of a machine. *)
LEMMA ResetTyped == \A s \in Machine : resetInfo(s) \in Machine
<1>1. <<>> \in Seq(Byte)
  BY EmptyBytes
<1>. HIDE DEF Byte
<1>. QED
  BY <1>1 DEF Machine, resetInfo, resetRacingInfo, resetTypingInfo, NoText

(* The low bytes of a number are bytes. *)
LEMMA UnsignedTyped == ASSUME NEW n \in Nat PROVE Unsigned(n) \in Seq(Byte)
<1>1. LongLen \in Nat /\ ShortLen \in 1..LongLen
  BY LenAssumption
<1>2. SeedBytes(n) \in [1..LongLen -> Byte]
  BY BytesOfNumber
<1>3. SeedBytes(n) \in Seq(Byte) /\ Len(SeedBytes(n)) = LongLen
  BY <1>1, <1>2
<1>. HIDE DEF Byte
<1>. QED
  BY <1>1, <1>3 DEF Unsigned

(* So does the start of a race, its text being the low bytes of the sum of *)
(* the seeds.                                                              *)
LEMMA CheckTyped == \A s \in Machine : checkIfReady(s) \in Machine
<1>. SUFFICES ASSUME NEW s \in Machine, BothReady(s) PROVE checkIfReady(s) \in Machine
  BY DEF checkIfReady
<1>1. CountdownTicks \in -1..CountdownTicks
  BY BoundAssumption
<1>2. Unsigned(s.seedMe + s.seedYou) \in Seq(Byte)
  <2>1. s.seedMe + s.seedYou \in Nat
    BY DEF Machine
  <2>. QED
    BY <2>1, UnsignedTyped
<1>3. [s EXCEPT !.status = "ready"] \in Machine
  BY DEF Machine
<1>4. \A t \in Machine, b \in Seq(Byte) : [t EXCEPT !.text = b] \in Machine
  BY DEF Machine
<1>5. \A t \in Machine, n \in -1..CountdownTicks : [t EXCEPT !.left = n] \in Machine
  BY DEF Machine
<1>. HIDE DEF Machine
<1>6. [[[s EXCEPT !.status = "ready"] EXCEPT !.text = Unsigned(s.seedMe + s.seedYou)]
         EXCEPT !.left = CountdownTicks] \in Machine
  BY <1>1, <1>2, <1>3, <1>4, <1>5
<1>7. DOMAIN s = Fields
  BY DEF Machine, Fields
<1>. QED
  BY <1>6, <1>7 DEF checkIfReady, Fields

(* So does an answer, which sends nothing. *)
LEMMA AnswerTyped ==
  ASSUME NEW s \in Machine, NEW byte
  PROVE Typed(readAnswer(s, byte))
<1>1. /\ [s EXCEPT !.waitingAck = FALSE] \in Machine
      /\ [s EXCEPT !.readyMe = TRUE] \in Machine
      /\ AnswerNReady(s) \in Machine
  BY DEF Machine, AnswerNReady
<1>2. AnswerReady(s) \in Machine
  BY <1>1, CheckTyped DEF AnswerReady
<1>3. \A t \in Machine : [t EXCEPT !.waitingAck = FALSE] \in Machine
  BY DEF Machine
<1>4. <<>> \in Seq(Byte)
  OBVIOUS
<1>. QED
  BY <1>1, <1>2, <1>3, <1>4 DEF readAnswer, Typed, Quiet, Clear

(* So does a code, whatever it is. *)
LEMMA EventTyped ==
  ASSUME NEW s \in Machine, NEW byte
  PROVE Typed(readEvent(s, byte))
<1>1. /\ [s EXCEPT !.readyYou = TRUE, !.waitingForSeed = TRUE] \in Machine
      /\ [s EXCEPT !.readyYou = FALSE] \in Machine
      /\ [s EXCEPT !.status = "finished", !.won = FALSE] \in Machine
  BY DEF Machine
<1>2. OpponentLeaves(s) \in Machine
  BY ResetTyped DEF OpponentLeaves
<1>3. <<INFO_READY_ACK>> \in Seq(Byte) /\ <<INFO_NREADY_ACK>> \in Seq(Byte)
  BY CodesAreBytes
<1>. QED
  BY <1>1, <1>2, <1>3, AnswerTyped DEF readEvent, Typed, Reply

(* So does a seed, taken or not. *)
LEMMA SeedTyped ==
  ASSUME NEW s \in Machine, NEW seed \in Nat
  PROVE takeSeed(s, seed) \in Machine
<1>1. [s EXCEPT !.seedYou = seed] \in Machine
  BY DEF Machine
<1>2. checkIfReady([s EXCEPT !.seedYou = seed]) \in Machine
  BY <1>1, CheckTyped
<1>3. \A t \in Machine : [t EXCEPT !.waitingForSeed = FALSE] \in Machine
  BY DEF Machine
<1>. QED
  BY <1>2, <1>3 DEF takeSeed

(* So does a byte of a value. *)
LEMMA ValueTyped ==
  ASSUME NEW s \in Machine, Framed(s), s.receiving \in TypedCodes, NEW byte \in Byte
  PROVE Typed(readTyped(s, byte))
<1> DEFINE t == [s EXCEPT !.bits = Append(@, byte)]
<1>1. t \in Machine /\ t.bits = Append(s.bits, byte) /\ t.receiving = s.receiving
  <2>1. Append(s.bits, byte) \in Seq(Byte)
    BY DEF Machine
  <2>2. \A bits \in Seq(Byte) : [s EXCEPT !.bits = bits] \in Machine
    BY DEF Machine
  <2>3. t \in Machine
    <3>. HIDE DEF Machine
    <3>. QED
      BY <2>1, <2>2
  <2>. QED
    BY <2>3 DEF Machine
<1>2. <<>> \in Seq(Byte) /\ <<INFO_ACK>> \in Seq(Byte)
  BY CodesAreBytes
<1>3. ValueDone(t) \in Machine
  <2>1. [[t EXCEPT !.receiving = INFO_ACK] EXCEPT !.bits = <<>>] \in Machine
    BY <1>1, <1>2, FieldTyped
  <2>2. DOMAIN t = Fields
    BY <1>1, FieldTyped
  <2>. QED
    BY <2>1, <2>2 DEF ValueDone, Fields
<1>4. ASSUME ~ValueOpen(t), t.receiving = INFO_ULONG PROVE SeedValue(t.bits) \in Nat
  <2>1. s.bits \in Seq(Byte) /\ t.bits \in Seq(Byte) /\ Len(t.bits) = Len(s.bits) + 1
    BY <1>1 DEF Machine
  <2>2. Width(s.receiving) = LongLen
    BY <1>1, <1>4 DEF Width, LongCodes
  <2>3. Len(t.bits) = LongLen
    BY <1>1, <1>4, <2>1, <2>2, LenAssumption DEF Framed, ValueOpen
  <2>. QED
    BY <2>1, <2>3, ValueNatural
<1>5. ASSUME ~ValueOpen(t), t.receiving = INFO_ULONG
      PROVE takeSeed(ValueDone(t), SeedValue(t.bits)) \in Machine
  BY <1>3, <1>4, <1>5, SeedTyped
<1>. HIDE DEF t
<1>. QED
  BY <1>1, <1>2, <1>3, <1>5 DEF readTyped, Typed, Quiet, Reply, t

(* So does whatever byte arrives. *)
LEMMA ByteTyped ==
  ASSUME NEW s \in Machine, Framed(s), NEW byte \in Byte
  PROVE Typed(readByte(s, byte))
<1>1. CASE s.receiving \in TypedCodes
  BY <1>1, ValueTyped DEF readByte
<1>2. CASE s.receiving \notin TypedCodes /\ AnnouncesValue(byte)
  <2>1. [s EXCEPT !.receiving = byte] \in Machine
    BY <1>2, FieldTyped DEF AnnouncesValue
  <2>2. readByte(s, byte) = Quiet([s EXCEPT !.receiving = byte])
    BY <1>2 DEF readByte
  <2>. QED
    BY <2>1, <2>2 DEF Typed, Quiet
<1>3. CASE s.receiving \notin TypedCodes /\ ~AnnouncesValue(byte)
  BY <1>3, EventTyped DEF readByte
<1>. QED
  BY <1>1, <1>2, <1>3

(* Every seed fits its bytes. *)
LEMMA SeedsFit == \A p \in Peer : \A i \in DOMAIN Seed[p] : Fits(Seed[p][i])
  BY SeedAssumption DEF Fits

(* A click keeps the types and sends bytes. *)
LEMMA ClickTyped ==
  ASSUME NEW s \in Machine, NEW seed, Fits(seed)
  PROVE Typed(raceClick(s, seed))
<1>1. SeedBytes(seed) \in Seq(Byte) /\ seed \in Nat
  BY SeedRoundTrip DEF Fits
<1>2. /\ <<INFO_READY, INFO_ULONG>> \in Seq(Byte)
      /\ <<INFO_NREADY>> \in Seq(Byte) /\ <<>> \in Seq(Byte)
  BY CodesAreBytes
<1>3. <<INFO_READY, INFO_ULONG>> \o SeedBytes(seed) \in Seq(Byte)
  BY <1>1, <1>2
<1>4. [s EXCEPT !.seedMe = seed] \in Machine /\ [s EXCEPT !.waitingAck = TRUE] \in Machine
  BY <1>1 DEF Machine
<1>5. \A t \in Machine : awaitAck(t) \in Machine
  <2>. SUFFICES ASSUME NEW t \in Machine PROVE awaitAck(t) \in Machine
    OBVIOUS
  <2>1. 0 \in 0..(AckTicks + 1)
    BY BoundAssumption
  <2>2. [[t EXCEPT !.waitingAck = TRUE] EXCEPT !.ackAge = 0] \in Machine
    BY <2>1, FieldTyped
  <2>3. DOMAIN t = Fields
    BY FieldTyped
  <2>. QED
    BY <2>2, <2>3 DEF awaitAck, Fields
<1>6. Typed(readyButton(s, seed))
  BY <1>2, <1>3, <1>4, <1>5 DEF Typed, readyButton, Quiet, Send
<1>7. \A t \in Machine : resetButton(t) \in Machine
  BY ResetTyped DEF resetButton
<1>8. /\ raceClick(s, seed).s = resetButton(readyButton(s, seed).s)
      /\ raceClick(s, seed).out = readyButton(s, seed).out
  BY DEF raceClick, readyButton, Quiet, Send
<1>. QED
  BY <1>6, <1>7, <1>8 DEF Typed

(* What becomes of the machines and of the bytes when a handler that left  *)
(* rx unread loses the first lostRx of them and the last lostTx of its own. *)
Loses(p, rx, r, harmless, lostRx, lostTx) ==
    /\ peer' = [peer EXCEPT ![p] = r.s]
    /\ chan' = [chan EXCEPT
                  ![Other(p)] = SubSeq(rx, lostRx + 1, Len(rx)),
                  ![p] = SubSeq(chan[p], 1, Len(chan[p]) - lostTx) \o r.out]
    /\ dropped' = (dropped \/ lostTx > 0 \/ lostRx \notin {0, harmless})
    /\ inTHR' = [inTHR EXCEPT
                   ![p] = r.out # <<>> \/ (@ /\ ~r.clear),
                   ![Other(p)] = @ /\ lostRx < Len(rx)]

(* A handler loses some of the bytes to come and at most one of its own. *)
LEMMA PerformLoses ==
  ASSUME NEW r, NEW harmless, NEW p \in Peer, NEW rx \in Seq(Byte), TypeOK,
         Perform(p, rx, r, harmless)
  PROVE  \E lostRx \in Nat, lostTx \in {0, 1} : Loses(p, rx, r, harmless, lostRx, lostTx)
<1> DEFINE arrived == IF r.clear THEN Least(Len(rx), FifoSize) ELSE 0
           waiting == IF r.clear /\ inTHR[p] /\ chan[p] # <<>> THEN 1 ELSE 0
<1>1. arrived \in Nat /\ waiting \in {0, 1}
  BY BoundAssumption DEF Least
<1>2. \E lostRx \in 0..arrived,
      lostTx \in 0..waiting : Loses(p, rx, r, harmless, lostRx, lostTx)
  BY DEF Perform, Loses
<1>. HIDE DEF arrived, waiting, Loses
<1>. QED
  BY <1>1, <1>2

(* Performing a typed handler on a sequence of bytes. *)
LEMMA PerformTyped ==
  ASSUME TypeOK, NEW p \in Peer, NEW rx \in Seq(Byte), NEW r, Typed(r), NEW harmless,
         Perform(p, rx, r, harmless)
  PROVE /\ peer' \in [Peer -> Machine]
        /\ chan' \in [Peer -> Seq(Byte)]
        /\ inTHR' \in [Peer -> BOOLEAN]
        /\ dropped' \in BOOLEAN
<1>1. Other(p) \in Peer
  BY TwoPeers
<1>2. \E lostRx \in Nat, lostTx \in {0, 1} : Loses(p, rx, r, harmless, lostRx, lostTx)
  BY PerformLoses
<1>3. PICK lostRx \in Nat, lostTx \in {0, 1} : Loses(p, rx, r, harmless, lostRx, lostTx)
  BY <1>2
<1>4. SubSeq(rx, lostRx + 1, Len(rx)) \in Seq(Byte)
  OBVIOUS
<1>5. SubSeq(chan[p], 1, Len(chan[p]) - lostTx) \o r.out \in Seq(Byte)
  <2>1. chan[p] \in Seq(Byte) /\ r.out \in Seq(Byte)
    BY DEF TypeOK, Typed
  <2>2. Len(chan[p]) - lostTx \in Int /\ Len(chan[p]) - lostTx <= Len(chan[p])
    BY <2>1
  <2>3. SubSeq(chan[p], 1, Len(chan[p]) - lostTx) \in Seq(Byte)
    BY <2>1, <2>2
  <2>. QED
    BY <2>1, <2>3
<1>6. peer' \in [Peer -> Machine]
  BY <1>3 DEF TypeOK, Typed, Loses
<1>7. chan' \in [Peer -> Seq(Byte)]
  BY <1>1, <1>3, <1>4, <1>5 DEF TypeOK, Loses
<1>8. inTHR' \in [Peer -> BOOLEAN] /\ dropped' \in BOOLEAN
  BY <1>1, <1>3 DEF TypeOK, Loses
<1>. QED
  BY <1>6, <1>7, <1>8

(* What a timer interrupt makes of a machine.                              *)
Aged(s) == [s EXCEPT !.left = IF @ < 0 THEN @ ELSE @ - 1,
                     !.ackAge = IF @ > AckTicks THEN @ ELSE @ + 1]

(* And of its race, if it is on the race screen. *)
Timed(s) == IF s.app = "raceState" /\ s.status = "ready" /\ Aged(s).left < 0
            THEN [Aged(s) EXCEPT !.status = "typing"] ELSE Aged(s)

(* A timer interrupt keeps the types of a machine. *)
LEMMA TimedTyped == ASSUME NEW s \in Machine PROVE Timed(s) \in Machine
<1> DEFINE left == IF s.left < 0 THEN s.left ELSE s.left - 1
           age == IF s.ackAge > AckTicks THEN s.ackAge ELSE s.ackAge + 1
<1>1. left \in -1..CountdownTicks /\ age \in 0..(AckTicks + 1)
  BY BoundAssumption DEF Machine
<1>. HIDE DEF left, age
<1>2. [[s EXCEPT !.left = left] EXCEPT !.ackAge = age] \in Machine
  BY <1>1, FieldTyped
<1>3. DOMAIN s = Fields
  BY FieldTyped
<1>4. Aged(s) \in Machine
  BY <1>2, <1>3 DEF Aged, Fields, left, age
<1>5. \A t \in Machine : [t EXCEPT !.status = "typing"] \in Machine
  BY DEF Machine
<1>. QED
  BY <1>4, <1>5 DEF Timed

(* Tick does what Timed says and sends nothing. *)
LEMMA TickIs ==
  ASSUME NEW p \in Peer, Tick(p)
  PROVE \E clear \in BOOLEAN :
          Perform(p, chan[Other(p)], [s |-> Timed(peer[p]), clear |-> clear, out |-> <<>>], 0)
  BY DEF Tick, Timed, Aged, Clear, Quiet

(* Every step keeps the types, for any loss of bytes. *)
LEMMA TypesNext ==
  ASSUME TypeOK, RaceInv, [Next]_vars
  PROVE TypeOK'
<1>. SUFFICES ASSUME NEW p \in Peer,
                     \/ EnterRace(p) \/ LeaveRace(p) \/ Click(p) \/ FinishText(p)
                     \/ Interrupt(p) \/ Overrun(p) \/ Tick(p)
              PROVE TypeOK'
  BY DEF Next, vars, TypeOK
<1> DEFINE s == peer[p]
           rx == chan[Other(p)]
<1>1. s \in Machine /\ rx \in Seq(Byte) /\ Framed(s) /\ Other(p) \in Peer
  BY TwoPeers DEF TypeOK, RaceInv, Good
<1>2. CASE EnterRace(p)
  <2>1. resetInfo(s) \in Machine
    BY <1>1, ResetTyped
  <2>2. \A t \in Machine : [t EXCEPT !.app = "raceState"] \in Machine
    BY DEF Machine
  <2>3. Typed(Clear([resetInfo(s) EXCEPT !.app = "raceState"]))
    BY <2>1, <2>2 DEF Typed, Clear
  <2>. QED
    BY <1>1, <1>2, <2>3, PerformTyped DEF EnterRace, TypeOK
<1>3. CASE LeaveRace(p)
  <2>1. [s EXCEPT !.app = "mainState"] \in Machine
    BY <1>1 DEF Machine
  <2>2. Typed(Send([s EXCEPT !.app = "mainState"], <<INFO_EXIT>>))
    BY <2>1, CodesAreBytes DEF Typed, Send
  <2>. QED
    BY <1>1, <1>3, <2>2, PerformTyped DEF LeaveRace, TypeOK
<1>4. CASE Click(p)
  <2>1. clicks[p] \in Nat /\ clicks[p] < MaxClicks[p] /\ clicks'[p] = clicks[p] + 1
        /\ clicks' \in [Peer -> Nat]
    BY <1>4 DEF Click, TypeOK
  <2>2. clicks'[p] \in DOMAIN Seed[p]
    BY <2>1, SeedAssumption, ClickAssumption, BoundAssumption
  <2>3. Typed(raceClick(s, Seed[p][clicks'[p]]))
    BY <1>1, <2>2, SeedsFit, ClickTyped
  <2>. QED
    BY <1>1, <1>4, <2>1, <2>3, PerformTyped DEF Click, TypeOK
<1>5. CASE FinishText(p)
  <2>1. [s EXCEPT !.status = "finished", !.won = TRUE] \in Machine /\ s.text \in Seq(Byte)
    BY <1>1 DEF Machine
  <2>2. Typed(endRace(s))
    BY <2>1, CodesAreBytes DEF Typed, endRace, Send
  <2>. QED
    BY <1>1, <1>5, <2>1, <2>2, PerformTyped DEF FinishText, TypeOK
<1>6. CASE Interrupt(p)
  <2>1. Head(rx) \in Byte /\ Tail(rx) \in Seq(Byte)
    BY <1>1, <1>6 DEF Interrupt
  <2>2. Typed(readByte(s, Head(rx)))
    BY <1>1, <2>1, ByteTyped
  <2>. QED
    BY <1>6, <2>1, <2>2, PerformTyped DEF Interrupt, TypeOK
<1>7. CASE Overrun(p)
  <2>1. FifoSize \in Nat \ {0} /\ Len(rx) \in Nat /\ Len(rx) > FifoSize
    BY <1>1, <1>7, BoundAssumption DEF Overrun
  <2>2. SubSeq(rx, 1, FifoSize) \in Seq(Byte) /\
        SubSeq(rx, FifoSize + 2, Len(rx)) \in Seq(Byte)
    BY <1>1, <2>1
  <2>3. SubSeq(rx, 1, FifoSize) \o SubSeq(rx, FifoSize + 2, Len(rx)) \in Seq(Byte)
    BY <2>2
  <2>. QED
    <3>1. chan' \in [Peer -> Seq(Byte)]
      BY <1>1, <1>7, <2>3 DEF Overrun, TypeOK
    <3>2. inTHR' \in [Peer -> BOOLEAN]
      BY <1>1, <1>7 DEF Overrun, TypeOK
    <3>3. dropped' = TRUE /\ UNCHANGED <<peer, clicks, visits, wonText>>
      BY <1>7 DEF Overrun
    <3>. QED
      BY <3>1, <3>2, <3>3 DEF TypeOK
<1>8. CASE Tick(p)
  <2>1. PICK r : Typed(r) /\ Perform(p, rx, r, 0)
    <3>1. PICK clear \in BOOLEAN : Perform(p, rx, [s |-> Timed(s), clear |-> clear,
          out |-> <<>>], 0)
      BY <1>8, TickIs
    <3>2. Typed([s |-> Timed(s), clear |-> clear, out |-> <<>>])
      BY <1>1, TimedTyped, EmptyBytes DEF Typed
    <3>. QED
      BY <3>1, <3>2
  <2>. QED
    BY <1>1, <1>8, <2>1, PerformTyped DEF Tick, TypeOK
<1>. QED
  BY <1>2, <1>3, <1>4, <1>5, <1>6, <1>7, <1>8

(* The initial state has the types. *)
LEMMA TypesInit == Init => TypeOK
<1>1. Idle \in Machine
  <2>1. 0 \in -1..CountdownTicks /\ 0 \in 0..(AckTicks + 1) /\ <<>> \in Seq(Byte)
    BY BoundAssumption
  <2>. HIDE DEF Byte
  <2>. QED
    BY <2>1 DEF Machine, Idle, NoText
<1>. SUFFICES ASSUME Init PROVE TypeOK
  OBVIOUS
<1>2. peer \in [Peer -> Machine]
  BY <1>1 DEF Init
<1>3. chan \in [Peer -> Seq(Byte)]
  BY EmptyBytes DEF Init
<1>. QED
  BY <1>2, <1>3 DEF Init, TypeOK, NoText

(* The machines and the cable keep their types, whatever is lost: a value  *)
(* read from any bytes is a number, and the countdown stays in its range.  *)
THEOREM RaceTypes == Spec => []TypeOK
  BY TypesInit, TypesNext, RaceInvariant, PTL DEF Spec
=============================================================================
