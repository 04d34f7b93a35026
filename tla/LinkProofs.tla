----------------------------- MODULE LinkProofs -----------------------------
(***************************************************************************)
(* Proofs about Link, for every set of events, types and values, every     *)
(* width, FIFO size and number of messages and faults: its types, that it  *)
(* implements Channel, and that a line that loses nothing is framed        *)
(* exactly.                                                                *)
(*                                                                         *)
(* What matters in the types is the driver's part: indexSerialPort, which  *)
(* six readers of two widths share, stays below the width of the value     *)
(* being read and is zero outside a value, whatever is lost, fails or is   *)
(* left half read.                                                         *)
(*                                                                         *)
(* The refinement counts debts.  A value owes a wrong delivery if its      *)
(* announcement is on the line but not all of its bytes are, or if it is   *)
(* being read and not all of its bytes have come or will come.  Each fault *)
(* makes one such value at most and each wrong delivery ends one, as long  *)
(* as no value has a code among its bytes: then what is left of a value    *)
(* after its announcement is lost reads as nothing.  CreditInv says that   *)
(* the debts are covered by the faults not yet paid for, OrderInv that the *)
(* bytes on the line and those read are in the order of sending.           *)
(***************************************************************************)
EXTENDS Link, TLAPS, FiniteSets, FiniteSetTheorems

-----------------------------------------------------------------------------
(* 1. Types.                                                               *)

(* The driver's own variables. *)
DriverOK ==
    /\ receiving \in TypedCodes \cup {INFO_ACK}
    /\ bits \in Seq(Tagged)
    /\ IF InValue THEN Len(bits) < Width(receiving) ELSE bits = <<>>
    /\ serialPortByte \in Tagged

(* The sender and the line. *)
Message == [code : EventCodes \cup TypedCodes, fill : Byte]

LineOK ==
    /\ sent \in Seq(Message) /\ Len(sent) <= MaxMessages
    /\ out \in 0..(1 + LongLen)
    /\ sending \in BOOLEAN
    /\ sending => sent # <<>> /\ out < Total(sent[Len(sent)])
    /\ wire \in Seq(Tagged) /\ Len(wire) <= FifoSize

(* The flags and the history. *)
RestOK ==
    /\ inRace \in BOOLEAN
    /\ waitingAck \in BOOLEAN
    /\ lossless \in BOOLEAN
    /\ faults \in 0..MaxFaults
    /\ last \in 0..MaxMessages
    /\ wrong \in Nat

LinkInv == DriverOK /\ LineOK /\ RestOK

-----------------------------------------------------------------------------
(* The codes are bytes, every type has a width between one and LongLen,    *)
(* and INFO_ACK announces nothing.                                         *)
LEMMA CodeFacts ==
  /\ INFO_ACK \notin TypedCodes
  /\ EventCodes \cup TypedCodes \subseteq Byte
  /\ LongLen \in Nat
  /\ \A code : Width(code) \in 1..LongLen
  BY LenAssumption
  DEF INFO_ACK, INFO_NACK, INFO_ULONG, INFO_LONG, INFO_UINT, INFO_INT, INFO_FLOAT,
      INFO_DOUBLE, INFO_READY, INFO_NREADY, INFO_READY_ACK, INFO_NREADY_ACK, INFO_WON,
      INFO_EXIT, INFO_BITS, TypedCodes, LongCodes, ShortCodes, EventCodes, Byte, Width

(* A message is at most 1 + LongLen bytes long. *)
LEMMA TotalBound == ASSUME NEW m PROVE Total(m) \in 1..(1 + LongLen)
  BY CodeFacts DEF Total

(* A clear leaves a suffix of what has not been read. *)
LEMMA Suffix ==
  ASSUME NEW s \in Seq(Tagged), NEW k \in 0..Len(s)
  PROVE /\ SubSeq(s, k + 1, Len(s)) \in Seq(Tagged)
        /\ Len(SubSeq(s, k + 1, Len(s))) <= Len(s)
  OBVIOUS

LEMMA Cleared ==
  ASSUME NEW s \in Seq(Tagged), Len(s) <= FifoSize, serialPortClearFIFO(s)
  PROVE wire' \in Seq(Tagged) /\ Len(wire') <= FifoSize
<1>1. PICK k \in 0..Len(s) : wire' = SubSeq(s, k + 1, Len(s))
  BY DEF serialPortClearFIFO
<1>. QED
  BY <1>1, Suffix, LinkAssumption

(* The byte at the head of a non-empty line, and the rest. *)
LEMMA Arrived ==
  ASSUME LineOK, Interrupted
  PROVE /\ Head(wire) \in Tagged
        /\ Tail(wire) \in Seq(Tagged) /\ Len(Tail(wire)) <= FifoSize
  BY LinkAssumption DEF LineOK, Interrupted

(* A byte as the sender hands it over. *)
LEMMA NextByteOK == ASSUME LineOK, sending PROVE NextByte \in Tagged
<1>1. Len(sent) \in 1..MaxMessages /\ sent[Len(sent)] \in Message
  BY LinkAssumption DEF LineOK
<1>2. out \in 0..LongLen
  BY TotalBound, CodeFacts DEF LineOK
<1>3. Last(sent) = sent[Len(sent)]
  BY DEF Last
<1>. QED
  BY <1>1, <1>2, <1>3, CodeFacts DEF NextByte, Tagged, Message, Byte

(* Counting a delivery or a fault. *)
LEMMA DeliveredOK ==
  ASSUME RestOK, NEW n \in 0..MaxMessages, Delivered(n)
  PROVE last' \in 0..MaxMessages /\ wrong' \in Nat
  BY DEF RestOK, Delivered

LEMMA FaultOK ==
  ASSUME RestOK, NEW happened \in BOOLEAN, CountFault(happened)
  PROVE faults' \in 0..MaxFaults
  BY LinkAssumption DEF RestOK, CountFault

-----------------------------------------------------------------------------
(* A byte of a value: the index grows, or goes back to zero with the last. *)
LEMMA TypedByte ==
  ASSUME LinkInv, InValue, NEW b \in Tagged, NEW rest \in Seq(Tagged), Len(rest) <= FifoSize,
         readTyped(b, rest)
  PROVE /\ DriverOK'
        /\ wire' \in Seq(Tagged) /\ Len(wire') <= FifoSize
        /\ last' \in 0..MaxMessages /\ wrong' \in Nat
<1>. DEFINE bytes == Append(bits, b)
<1>. USE DEF LinkInv
<1>1. /\ bytes \in Seq(Tagged) /\ Len(bytes) = Len(bits) + 1
      /\ Head(bytes) \in Tagged /\ Len(bits) \in Nat
  BY DEF DriverOK
<1>2. /\ serialPortByte' = b
      /\ bits' = IF Full(bytes) THEN <<>> ELSE bytes
  BY DEF readTyped, BitsAfter
<1>3. CASE Full(bytes)
  <2>1. receiving' = INFO_ACK /\ ~InValue' /\ bits' = <<>>
    BY <1>2, <1>3, CodeFacts DEF readTyped, InValue
  <2>2. MessageIn(bytes) \in 0..MaxMessages
    <3>1. MessageIn(bytes) \in {Head(bytes).msg, 0}
      <4>. HIDE DEF bytes
      <4>. QED
        BY Zenon DEF MessageIn
    <3>2. Head(bytes).msg \in 0..MaxMessages
      BY <1>1 DEF Tagged
    <3>3. 0 \in 0..MaxMessages
      BY LinkAssumption
    <3>. HIDE DEF bytes
    <3>. QED
      BY <3>1, <3>2, <3>3
  <2>3. Delivered(MessageIn(bytes)) /\ serialPortClearFIFO(rest)
    BY <1>3 DEF readTyped
  <2>4. last' \in 0..MaxMessages /\ wrong' \in Nat
    BY <2>2, <2>3, DeliveredOK
  <2>5. wire' \in Seq(Tagged) /\ Len(wire') <= FifoSize
    BY <2>3, Cleared
  <2>. QED
    BY <1>2, <2>1, <2>4, <2>5 DEF DriverOK
<1>4. CASE ~Full(bytes)
  <2>1. /\ receiving' = receiving /\ bits' = bytes /\ wire' = rest
        /\ UNCHANGED delivery
    BY <1>2, <1>4 DEF readTyped
  <2>2. Len(bytes) < Width(receiving)
    BY <1>1, <1>4, CodeFacts DEF Full
  <2>3. InValue'
    BY <2>1 DEF InValue
  <2>. QED
    BY <1>1, <1>2, <2>1, <2>2, <2>3 DEF DriverOK, RestOK, delivery
<1>. QED
  BY <1>3, <1>4

(* What the default branch does with a byte. *)
LEMMA EventByte ==
  ASSUME RestOK, NEW b \in Tagged, NEW rest \in Seq(Tagged), Len(rest) <= FifoSize,
         handleEvent(b, rest)
  PROVE wire' \in Seq(Tagged) /\ Len(wire') <= FifoSize /\ waitingAck' \in BOOLEAN
  BY Cleared DEF handleEvent, RestOK

(* A byte outside a value, which may announce one. *)
LEMMA CodeByte ==
  ASSUME LinkInv, ~InValue, NEW b \in Tagged, NEW rest \in Seq(Tagged), Len(rest) <= FifoSize,
         readEvent(b, rest)
  PROVE /\ DriverOK'
        /\ wire' \in Seq(Tagged) /\ Len(wire') <= FifoSize
        /\ last' \in 0..MaxMessages /\ wrong' \in Nat
        /\ waitingAck' \in BOOLEAN
<1>. USE DEF LinkInv
<1>1. bits' = <<>> /\ bits = <<>> /\ serialPortByte' = b
  BY DEF readEvent, DriverOK
<1>2. CASE AnnouncesValue(b.byte)
  <2>1. /\ receiving' \in TypedCodes /\ InValue'
        /\ wire' = rest /\ UNCHANGED <<waitingAck, delivery>>
    BY <1>2 DEF readEvent, AnnouncesValue, InValue
  <2>2. Len(bits') < Width(receiving')
    BY <1>1, CodeFacts
  <2>. QED
    BY <1>1, <2>1, <2>2 DEF DriverOK, RestOK, delivery
<1>3. CASE ~AnnouncesValue(b.byte)
  <2>1. handleEvent(b, rest) /\ receiving' = receiving
    BY <1>3 DEF readEvent
  <2>2. ~InValue'
    BY <2>1 DEF InValue
  <2>3. last' \in 0..MaxMessages /\ wrong' \in Nat
    <3>1. b.msg \in 0..MaxMessages
      BY DEF Tagged
    <3>2. Delivered(b.msg) \/ UNCHANGED delivery
      BY <1>3 DEF readEvent
    <3>. QED
      BY <3>1, <3>2, DeliveredOK DEF RestOK, delivery
  <2>4. DriverOK'
    BY <1>1, <2>1, <2>2 DEF DriverOK
  <2>. QED
    BY <2>1, <2>3, <2>4, EventByte
<1>. QED
  BY <1>2, <1>3

-----------------------------------------------------------------------------
(* Steps that leave the driver, the sender or the rest alone. *)
LEMMA SameDriver == ASSUME DriverOK, UNCHANGED driver PROVE DriverOK'
  BY DEF DriverOK, InValue, driver

LEMMA SameSender ==
  ASSUME LineOK, UNCHANGED sender, wire' \in Seq(Tagged), Len(wire') <= FifoSize
  PROVE LineOK'
  BY DEF LineOK, sender, Total

LEMMA AnyTime ==
  ASSUME LineOK, RestOK, ClearAnyTime
  PROVE /\ wire' \in Seq(Tagged) /\ Len(wire') <= FifoSize
        /\ lossless' \in BOOLEAN /\ faults' \in 0..MaxFaults
<1>1. (InValue /\ wire' # wire) \in BOOLEAN
  OBVIOUS
<1>. QED
  BY <1>1, Cleared, FaultOK DEF ClearAnyTime, LineOK, RestOK

(* Before the first message nothing is half sent, read or delivered. *)
LEMMA LinkInit == Init => LinkInv
<1> SUFFICES ASSUME Init PROVE LinkInv
  OBVIOUS
<1>1. NoByte \in Tagged
  BY CodeFacts, LinkAssumption DEF NoByte, Tagged, Byte
<1>2. receiving = INFO_ACK /\ bits = <<>> /\ serialPortByte \in Tagged
  BY <1>1 DEF Init
<1>. <<>> \in Seq(Tagged) /\ <<>> \in Seq(Message) /\ Len(<<>>) = 0
  OBVIOUS
<1>3. DriverOK
  <2>1. ~InValue
    BY <1>2, CodeFacts DEF InValue
  <2>. QED
    BY <1>2, <2>1 DEF DriverOK
<1>4. LineOK
  <2>1. sent = <<>> /\ out = 0 /\ sending = FALSE /\ wire = <<>>
    BY DEF Init
  <2>2. out \in 0..(1 + LongLen) /\ Len(sent) <= MaxMessages /\ Len(wire) <= FifoSize
    BY <2>1, CodeFacts, LinkAssumption
  <2>. QED
    BY <2>1, <2>2 DEF LineOK
<1>5. RestOK
  <2>1. inRace \in BOOLEAN /\ waitingAck \in BOOLEAN /\ lossless \in BOOLEAN
    BY Zenon DEF Init
  <2>2. faults = 0 /\ last = 0 /\ wrong = 0
    BY DEF Init
  <2>3. faults \in 0..MaxFaults /\ last \in 0..MaxMessages /\ wrong \in Nat
    BY <2>2, LinkAssumption
  <2>. QED
    BY <2>1, <2>3 DEF RestOK
<1>. QED
  BY <1>3, <1>4, <1>5 DEF LinkInv

(* Every action keeps the invariant. *)
LEMMA LinkNext == LinkInv /\ [Next]_vars => LinkInv'
<1> SUFFICES ASSUME LinkInv, [Next]_vars PROVE LinkInv'
  OBVIOUS
<1>. USE DEF LinkInv
<1>1. ASSUME NEW m \in Message, Call(m) PROVE LinkInv'
  <2>1. DriverOK'
    BY <1>1, SameDriver DEF Call
  <2>2. LineOK'
    <3>1. /\ sent' \in Seq(Message) /\ Len(sent') = Len(sent) + 1
          /\ Len(sent') <= MaxMessages /\ sent' # <<>>
      BY <1>1, LinkAssumption DEF Call, LineOK
    <3>2. Total(sent'[Len(sent')]) \in 1..(1 + LongLen)
      BY TotalBound
    <3>. QED
      BY <1>1, <3>1, <3>2, CodeFacts DEF Call, LineOK, Total
  <2>3. RestOK'
    BY <1>1 DEF Call, RestOK, delivery
  <2>. QED
    BY <2>1, <2>2, <2>3
<1>2. CASE SendByte
  <2>1. DriverOK'
    BY <1>2, SameDriver DEF SendByte
  <2>2. LineOK'
    <3>1. Last(sent) = sent[Len(sent)] /\ sending
      BY <1>2 DEF SendByte, Last
    <3>2. out < Total(sent[Len(sent)]) /\ Total(sent[Len(sent)]) \in 1..(1 + LongLen)
      BY <3>1, TotalBound DEF LineOK
    <3>3. out' \in 0..(1 + LongLen) /\ out' = out + 1
      BY <1>2, <3>2, CodeFacts DEF SendByte, LineOK
    <3>4. sending' = (out' < Total(sent[Len(sent)])) /\ sent' = sent
      BY <1>2, <3>1 DEF SendByte
    <3>5. wire' \in Seq(Tagged) /\ Len(wire') <= FifoSize
      BY <1>2, <3>1, NextByteOK, LinkAssumption DEF SendByte, LineOK
    <3>6. (sending => sent # <<>> /\ out < Total(sent[Len(sent)]))'
      BY <3>1, <3>3, <3>4 DEF LineOK, Total
    <3>. QED
      BY <3>3, <3>4, <3>5, <3>6 DEF LineOK
  <2>3. RestOK'
    <3>1. CountFault(Len(wire) = FifoSize /\ out > 0)
      BY <1>2 DEF SendByte
    <3>2. faults' \in 0..MaxFaults
      BY <3>1, FaultOK
    <3>. QED
      BY <1>2, <3>2 DEF SendByte, RestOK, delivery
  <2>. QED
    BY <2>1, <2>2, <2>3
<1>3. CASE GiveUp
  <2>1. DriverOK'
    BY <1>3, SameDriver DEF GiveUp
  <2>2. LineOK'
    BY <1>3 DEF GiveUp, LineOK, Total
  <2>3. faults' \in 0..MaxFaults
    BY <1>3 DEF GiveUp, CountFault, LineOK, RestOK
  <2>4. RestOK'
    BY <1>3, <2>3 DEF GiveUp, RestOK, delivery
  <2>. QED
    BY <2>1, <2>2, <2>4
<1>4. CASE ClearTransmitter
  <2>1. DriverOK'
    BY <1>4, SameDriver DEF ClearTransmitter
  <2>2. wire' \in Seq(Tagged) /\ Len(wire') <= FifoSize
    BY <1>4, LinkAssumption DEF ClearTransmitter, LineOK, Front
  <2>3. LineOK'
    BY <1>4, <2>2, SameSender DEF ClearTransmitter
  <2>4. faults' \in 0..MaxFaults
    BY <1>4 DEF ClearTransmitter, CountFault, RestOK
  <2>5. RestOK'
    BY <1>4, <2>4 DEF ClearTransmitter, RestOK, delivery
  <2>. QED
    BY <2>1, <2>3, <2>5
<1>5. CASE ReadByte
  <2>. DEFINE b == Head(wire)
              rest == Tail(wire)
  <2>1. b \in Tagged /\ rest \in Seq(Tagged) /\ Len(rest) <= FifoSize
    BY <1>5, Arrived DEF ReadByte
  <2>2. /\ DriverOK'
        /\ wire' \in Seq(Tagged) /\ Len(wire') <= FifoSize
        /\ last' \in 0..MaxMessages /\ wrong' \in Nat
        /\ waitingAck' \in BOOLEAN
    <3>1. CASE InValue
      <4>1. readTyped(b, rest)
        BY <1>5, <3>1 DEF ReadByte
      <4>2. waitingAck' \in BOOLEAN
        BY <4>1 DEF readTyped, RestOK
      <4>. QED
        BY <2>1, <3>1, <4>1, <4>2, TypedByte
    <3>2. CASE ~InValue
      <4>1. readEvent(b, rest)
        BY <1>5, <3>2 DEF ReadByte
      <4>. QED
        BY <2>1, <3>2, <4>1, CodeByte
    <3>. QED
      BY <3>1, <3>2
  <2>3. LineOK'
    BY <1>5, <2>2, SameSender DEF ReadByte
  <2>4. RestOK'
    BY <1>5, <2>2 DEF ReadByte, RestOK
  <2>. QED
    BY <2>2, <2>3, <2>4
<1>6. CASE HandleStaleByte
  <2>1. DriverOK'
    BY <1>6, SameDriver DEF HandleStaleByte
  <2>2. handleEvent(serialPortByte, wire)
    BY <1>6 DEF HandleStaleByte
  <2>3. wire' \in Seq(Tagged) /\ Len(wire') <= FifoSize /\ waitingAck' \in BOOLEAN
    BY <2>2, EventByte DEF DriverOK, LineOK
  <2>4. LineOK'
    BY <1>6, <2>3, SameSender DEF HandleStaleByte
  <2>5. faults' \in 0..MaxFaults /\ wrong' \in Nat
    <3>1. CountFault(serialPortByte.byte \in EventCodes)
      BY <1>6 DEF HandleStaleByte
    <3>2. wrong' = wrong + (IF serialPortByte.byte \in EventCodes THEN 1 ELSE 0)
      BY <1>6 DEF HandleStaleByte
    <3>. QED
      BY <3>1, <3>2 DEF CountFault, RestOK
  <2>6. RestOK'
    BY <1>6, <2>3, <2>5 DEF HandleStaleByte, RestOK
  <2>. QED
    BY <2>1, <2>4, <2>6
<1>7. CASE AnnounceStaleByte
  <2>1. receiving' \in TypedCodes /\ InValue'
    BY <1>7 DEF AnnounceStaleByte, AnnouncesValue, InValue
  <2>2. bits' = <<>> /\ serialPortByte' = serialPortByte
    BY <1>7 DEF AnnounceStaleByte, DriverOK
  <2>3. DriverOK'
    BY <2>1, <2>2, CodeFacts DEF DriverOK
  <2>4. LineOK'
    BY <1>7 DEF AnnounceStaleByte, LineOK, sender, Total
  <2>5. faults' \in 0..MaxFaults
    BY <1>7, FaultOK DEF AnnounceStaleByte
  <2>6. RestOK'
    BY <1>7, <2>5 DEF AnnounceStaleByte, RestOK, delivery
  <2>. QED
    BY <2>3, <2>4, <2>6
<1>8. CASE AwaitAck \/ LeaveRace \/ UNCHANGED vars
  <2>1. DriverOK'
    BY <1>8, SameDriver DEF AwaitAck, LeaveRace, vars
  <2>2. LineOK'
    BY <1>8, SameSender DEF AwaitAck, LeaveRace, vars, LineOK
  <2>3. RestOK'
    BY <1>8 DEF AwaitAck, LeaveRace, vars, RestOK, delivery
  <2>. QED
    BY <2>1, <2>2, <2>3
<1>9. CASE AckLate \/ EnterRace
  <2>1. ClearAnyTime /\ UNCHANGED driver /\ UNCHANGED sender
    BY <1>9 DEF AckLate, EnterRace
  <2>2. DriverOK'
    BY <2>1, SameDriver
  <2>3. LineOK'
    BY <2>1, AnyTime, SameSender
  <2>4. RestOK'
    BY <1>9, <2>1, AnyTime DEF AckLate, EnterRace, RestOK, delivery
  <2>. QED
    BY <2>2, <2>3, <2>4
<1>10. ASSUME NEW code \in Events, Call(Event(code)) PROVE LinkInv'
  <2>1. Event(code) \in Message
    BY LinkAssumption DEF Event, Message, Byte
  <2>. QED
    BY <1>1, <1>10, <2>1
<1>11. ASSUME NEW code \in Types, NEW fill \in Fill, Call(Value(code, fill)) PROVE LinkInv'
  <2>1. Value(code, fill) \in Message
    BY LinkAssumption DEF Value, Message
  <2>. QED
    BY <1>1, <1>11, <2>1
<1>. QED
  BY <1>2, <1>3, <1>4, <1>5, <1>6, <1>7, <1>8, <1>9, <1>10, <1>11 DEF Next

(* The driver's and the line's variables keep their types and the index of *)
(* the receive buffer its bounds, at every step of every run.              *)
THEOREM LinkTypes == Spec => []TypeOK
<1>1. LinkInv => TypeOK
  BY DEF LinkInv, DriverOK, LineOK, RestOK, TypeOK, Message
<1>. QED
  BY <1>1, LinkInit, LinkNext, PTL DEF Spec

-----------------------------------------------------------------------------
(* 2. Link implements Channel.                                             *)

(* The byte of a message at a place of it. *)
ByteOf(n, part) ==
    [byte |-> IF part = 0 THEN sent[n].code ELSE sent[n].fill, msg |-> n, part |-> part]

(* A byte the sender has handed over; of two bytes, the earlier.           *)
SentBy(b, n, part) == b.msg < n \/ (b.msg = n /\ b.part < part)
Handed(b) == SentBy(b, Len(sent), out)
Before(a, b) == a.msg < b.msg \/ (a.msg = b.msg /\ a.part < b.part)

LineOrder ==
    /\ \A i \in 1..Len(wire) : /\ wire[i].msg \in 1..Len(sent)
                               /\ wire[i] = ByteOf(wire[i].msg, wire[i].part)
                               /\ Handed(wire[i])
    /\ \A i, j \in 1..Len(wire) : i < j => Before(wire[i], wire[j])

ReadOrder ==
    /\ \A i \in 1..Len(wire) : Before(serialPortByte, wire[i])
    /\ serialPortByte.msg # 0 => Handed(serialPortByte)
    /\ last <= serialPortByte.msg
    /\ \A q \in 1..Len(bits) : bits[q].msg <= serialPortByte.msg

OrderInv == LineOrder /\ ReadOrder

(* How many bytes of the message n have been handed over, or should have   *)
(* been; they are on the line, from the place i on and its part p on.      *)
Due(n) == IF n = Len(sent) /\ sending THEN out ELSE Total(sent[n])

Rest(i, n, p) ==
    \A q \in p..(Due(n) - 1) : /\ i + (q - p) + 1 \in 1..Len(wire)
                               /\ wire[i + (q - p) + 1] = ByteOf(n, q)

(* The values announced on the line of which something is missing.         *)
TornAt(i, n) == wire[i].msg = n /\ wire[i].part = 0 /\ ~Rest(i, n, 1)
Torn == {n \in 1..Len(sent) : sent[n].code \in TypedCodes /\
\E i \in 1..Len(wire) : TornAt(i, n)}

(* The value being read has all its bytes, so far.                         *)
Whole ==
    LET n == serialPortByte.msg
    IN /\ n \in 1..Len(sent) /\ last < n
       /\ receiving = sent[n].code
       /\ serialPortByte.part = Len(bits)
       /\ \A q \in 1..Len(bits) : bits[q] = ByteOf(n, q)
       /\ Rest(0, n, Len(bits) + 1)

Current == IF InValue /\ ~Whole THEN 1 ELSE 0
Debt == Cardinality(Torn) + Current

Clean == \A i \in DOMAIN sent : ~Coded(sent[i])

CreditInv == Clean => Debt <= faults - wrong

-----------------------------------------------------------------------------
(* Counting. *)
LEMMA TornFinite ==
  ASSUME LineOK, LineOK'
  PROVE /\ IsFiniteSet(Torn) /\ Cardinality(Torn) \in Nat
        /\ IsFiniteSet(Torn') /\ Cardinality(Torn)' \in Nat
<1>1. Len(sent) \in Int /\ Len(sent') \in Int
  BY DEF LineOK
<1>2. IsFiniteSet(1..Len(sent)) /\ IsFiniteSet(1..Len(sent'))
  BY <1>1, FS_Interval
<1>3. Torn \in SUBSET (1..Len(sent)) /\ Torn' \in SUBSET (1..Len(sent'))
  BY DEF Torn
<1>4. IsFiniteSet(Torn) /\ IsFiniteSet(Torn')
  BY <1>2, <1>3, FS_Subset
<1>. QED
  BY <1>4, FS_CardinalityType

LEMMA CurrentBit == Current \in {0, 1} /\ Current' \in {0, 1}
  BY DEF Current

(* No value is torn: the debt does not grow, unless by the current one.    *)
LEMMA DebtSame ==
  ASSUME LineOK, LineOK', Torn' \subseteq Torn
  PROVE /\ Debt' <= Debt + 1 /\ Debt \in Nat /\ Debt' \in Nat
        /\ Current' <= Current => Debt' <= Debt
        /\ Current' < Current => Debt' <= Debt - 1
<1>1. IsFiniteSet(Torn) /\ Cardinality(Torn) \in Nat /\ Cardinality(Torn)' \in Nat
  BY TornFinite
<1>2. Cardinality(Torn)' <= Cardinality(Torn)
  BY <1>1, FS_Subset
<1>3. Current \in {0, 1} /\ Current' \in {0, 1}
  BY CurrentBit
<1>. HIDE DEF Torn, Current
<1>. QED
  BY <1>1, <1>2, <1>3 DEF Debt

(* One value is torn. *)
LEMMA DebtMore ==
  ASSUME LineOK, LineOK', NEW n, Torn' \subseteq Torn \cup {n}, Current' <= Current
  PROVE Debt' <= Debt + 1
<1>1. IsFiniteSet(Torn) /\ Cardinality(Torn) \in Nat /\ Cardinality(Torn)' \in Nat
  BY TornFinite
<1>2. /\ IsFiniteSet(Torn \cup {n})
      /\ Cardinality(Torn \cup {n}) <= Cardinality(Torn) + 1
      /\ Cardinality(Torn \cup {n}) \in Nat
  BY <1>1, FS_AddElement, FS_CardinalityType
<1>3. Cardinality(Torn)' <= Cardinality(Torn \cup {n})
  BY <1>2, FS_Subset
<1>4. Current \in {0, 1} /\ Current' \in {0, 1}
  BY CurrentBit
<1>. HIDE DEF Torn, Current
<1>. QED
  BY <1>1, <1>2, <1>3, <1>4 DEF Debt

(* A torn value's announcement is read. *)
LEMMA DebtMoved ==
  ASSUME LineOK, LineOK', NEW n \in Torn, Torn' \subseteq Torn \ {n}, Current = 0
  PROVE Debt' <= Debt
<1>1. IsFiniteSet(Torn) /\ Cardinality(Torn) \in Nat /\ Cardinality(Torn)' \in Nat
  BY TornFinite
<1>2. IsFiniteSet(Torn \ {n}) /\ Cardinality(Torn \ {n}) = Cardinality(Torn) - 1
  BY <1>1, FS_RemoveElement
<1>3. Cardinality(Torn)' <= Cardinality(Torn \ {n})
  BY <1>2, FS_Subset
<1>4. Current' \in {0, 1}
  BY CurrentBit
<1>. HIDE DEF Torn
<1>. QED
  BY <1>1, <1>2, <1>3, <1>4 DEF Debt

-----------------------------------------------------------------------------
(* The types the arithmetic below needs. *)
LEMMA Numbers ==
  ASSUME LinkInv
  PROVE /\ Len(sent) \in Nat /\ DOMAIN sent = 1..Len(sent)
        /\ out \in Nat /\ Len(wire) \in Nat /\ Len(bits) \in Nat
        /\ \A n \in 1..Len(sent) : sent[n] \in Message
        /\ \A i \in 1..Len(wire) : wire[i] \in Tagged
        /\ \A q \in 1..Len(bits) : bits[q] \in Tagged
        /\ serialPortByte \in Tagged
        /\ last \in Nat /\ faults \in Nat /\ wrong \in Nat
        /\ \A b \in Tagged : b.msg \in Nat /\ b.part \in Nat
        /\ \A n : Total(n) \in Nat \ {0}
<1>1. sent \in Seq(Message) /\ wire \in Seq(Tagged) /\ bits \in Seq(Tagged)
  BY DEF LinkInv, DriverOK, LineOK
<1>2. /\ Len(sent) \in Nat /\ DOMAIN sent = 1..Len(sent)
      /\ Len(wire) \in Nat /\ Len(bits) \in Nat
      /\ \A n \in 1..Len(sent) : sent[n] \in Message
      /\ \A i \in 1..Len(wire) : wire[i] \in Tagged
      /\ \A q \in 1..Len(bits) : bits[q] \in Tagged
  <2>. HIDE DEF Message, Tagged
  <2>. QED
    BY <1>1
<1>3. out \in Nat /\ serialPortByte \in Tagged
  BY CodeFacts DEF LinkInv, DriverOK, LineOK
<1>4. last \in Nat /\ faults \in Nat /\ wrong \in Nat
  BY LinkAssumption DEF LinkInv, RestOK
<1>5. \A b \in Tagged : b.msg \in Nat /\ b.part \in Nat
  BY LinkAssumption, CodeFacts DEF Tagged
<1>6. \A n : Total(n) \in Nat \ {0}
  BY TotalBound, CodeFacts
<1>. QED
  BY <1>2, <1>3, <1>4, <1>5, <1>6

(* Bytes taken from the front of the line: the rest keeps its order, and   *)
(* what was complete behind them still is.                                 *)
LEMMA Dropped ==
  ASSUME LinkInv, LineOrder, UNCHANGED sender, NEW k \in 0..Len(wire),
         Len(wire') = Len(wire) - k, \A i \in 1..Len(wire') : wire'[i] = wire[i + k]
  PROVE /\ LineOrder'
        /\ \A i \in Nat, n \in 1..Len(sent), p \in Nat : Rest(i + k, n, p) => Rest(i, n, p)'
        /\ Torn' \subseteq Torn
<1>1. /\ UNCHANGED <<sent, out, sending>> /\ Len(wire) \in Nat
      /\ \A n : Due(n)' = Due(n)
      /\ \A n, p : ByteOf(n, p)' = ByteOf(n, p)
      /\ \A b : Handed(b)' = Handed(b)
  BY Numbers DEF sender, Due, ByteOf, Handed, Total
<1>2. \A i \in 1..Len(wire') : i + k \in 1..Len(wire) /\ wire'[i] = wire[i + k]
  BY <1>1
<1>3. LineOrder'
  <2>1. \A i \in 1..Len(wire') : /\ wire'[i].msg \in 1..Len(sent)
                                 /\ wire'[i] = ByteOf(wire'[i].msg, wire'[i].part)
                                 /\ Handed(wire'[i])
    BY <1>2 DEF LineOrder
  <2>2. \A i, j \in 1..Len(wire') : i < j => Before(wire'[i], wire'[j])
    <3>1. \A i, j \in 1..Len(wire') : i < j => i + k < j + k
      BY <1>1
    <3>. QED
      BY <1>2, <3>1 DEF LineOrder
  <2>. QED
    BY <1>1, <2>1, <2>2 DEF LineOrder, ByteOf, Handed, Before
<1>4. ASSUME NEW i \in Nat, NEW n \in 1..Len(sent), NEW p \in Nat, Rest(i + k, n, p)
      PROVE Rest(i, n, p)'
  <2>1. \A q \in p..(Due(n) - 1) : /\ i + (q - p) + 1 \in 1..Len(wire')
                                   /\ wire'[i + (q - p) + 1] = ByteOf(n, q)
    <3>. SUFFICES ASSUME NEW q \in p..(Due(n) - 1)
                  PROVE /\ i + (q - p) + 1 \in 1..Len(wire')
                        /\ wire'[i + (q - p) + 1] = ByteOf(n, q)
      OBVIOUS
    <3>1. /\ (i + k) + (q - p) + 1 \in 1..Len(wire)
          /\ wire[(i + k) + (q - p) + 1] = ByteOf(n, q)
      BY <1>4 DEF Rest
    <3>2. i + (q - p) + 1 \in 1..Len(wire') /\ (i + k) + (q - p) + 1 = (i + (q - p) + 1) + k
      BY <1>1, <3>1
    <3>. QED
      BY <1>2, <3>1, <3>2
  <2>. QED
    BY <1>1, <2>1 DEF Rest, ByteOf
<1>5. Torn' \subseteq Torn
  <2>. SUFFICES ASSUME NEW n \in 1..Len(sent), sent[n].code \in TypedCodes,
                       NEW i \in 1..Len(wire'), TornAt(i, n)'
                PROVE TornAt(i + k, n)
    BY <1>1, <1>2 DEF Torn
  <2>1. wire'[i].msg = n /\ wire'[i].part = 0 /\ ~Rest(i, n, 1)'
    BY DEF TornAt
  <2>. QED
    BY <1>2, <1>4, <2>1 DEF TornAt
<1>. QED
  BY <1>3, <1>4, <1>5

-----------------------------------------------------------------------------
(* The byte before the place i is the one before the part p of n. *)
Anchor(i, n, p) ==
    IF i = 0
    THEN serialPortByte.msg = n /\ serialPortByte.part = p - 1
    ELSE i \in 1..Len(wire) /\ wire[i].msg = n /\ wire[i].part = p - 1

(* What is there of the message being sent reaches to the end of the line. *)
LEMMA AtEnd ==
  ASSUME LinkInv, OrderInv, sending, NEW i \in Nat, NEW p \in Nat \ {0},
         Anchor(i, Len(sent), p), Rest(i, Len(sent), p)
  PROVE p <= out /\ i + (out - p) = Len(wire)
<1> DEFINE M == Len(sent)
           x == i + (out - p)
<1>1. /\ M \in Nat \ {0} /\ out \in Nat /\ Len(wire) \in Nat /\ Due(M) = out
      /\ \A j \in 1..Len(wire) : wire[j].msg \in Nat /\ wire[j].part \in Nat
  <2>1. sent # <<>> /\ sent \in Seq(Message)
    BY DEF LinkInv, LineOK
  <2>2. Len(sent) # 0
    BY <2>1
  <2>. QED
    BY <2>2, Numbers DEF Due
<1>2. p - 1 < out
  BY <1>1 DEF Anchor, OrderInv, LineOrder, ReadOrder, Handed, SentBy
<1>3. x \in 0..Len(wire)
  <2>1. CASE p = out
    BY <2>1, <1>1 DEF Anchor
  <2>2. CASE p # out
    <3>1. out - 1 \in p..(Due(M) - 1)
      BY <1>1, <1>2, <2>2
    <3>2. i + ((out - 1) - p) + 1 \in 1..Len(wire)
      BY <3>1 DEF Rest
    <3>. QED
      BY <3>2, <1>1
  <2>. QED
    BY <2>1, <2>2
<1>4. /\ x = 0 => serialPortByte.msg = M /\ serialPortByte.part = out - 1
      /\ x # 0 => wire[x].msg = M /\ wire[x].part = out - 1
  <2>1. CASE p = out
    BY <2>1, <1>1 DEF Anchor
  <2>2. CASE p # out
    <3>1. out - 1 \in p..(Due(M) - 1) /\ i + ((out - 1) - p) + 1 = x
      BY <1>1, <1>2, <2>2
    <3>2. x \in 1..Len(wire) /\ wire[x] = ByteOf(M, out - 1)
      BY <3>1 DEF Rest
    <3>. QED
      BY <3>2 DEF ByteOf
  <2>. QED
    BY <2>1, <2>2
<1>5. ASSUME x < Len(wire) PROVE FALSE
  <2>1. x + 1 \in 1..Len(wire) /\ (x # 0 => x \in 1..Len(wire) /\ x < x + 1)
    BY <1>1, <1>3, <1>5
  <2>2. wire[x + 1].msg \in 1..M /\ Handed(wire[x + 1])
    BY <2>1 DEF OrderInv, LineOrder
  <2>3. /\ x = 0 => Before(serialPortByte, wire[x + 1])
        /\ x # 0 => Before(wire[x], wire[x + 1])
    BY <2>1 DEF OrderInv, LineOrder, ReadOrder
  <2>4. wire[x + 1].part \in Nat /\ wire[x + 1].msg \in Nat
    BY <1>1, <2>1
  <2>. HIDE DEF x
  <2>5. wire[x + 1].msg = M /\ out - 1 < wire[x + 1].part
    <3>1. CASE x = 0
      BY <3>1, <1>1, <1>4, <2>2, <2>3, <2>4 DEF Before
    <3>2. CASE x # 0
      BY <3>2, <1>1, <1>4, <2>2, <2>3, <2>4 DEF Before
    <3>. QED
      BY <3>1, <3>2
  <2>. QED
    BY <1>1, <2>2, <2>4, <2>5 DEF Handed, SentBy
<1>6. x = Len(wire)
  <2>. HIDE DEF x
  <2>. QED
    BY <1>1, <1>3, <1>5
<1>. QED
  BY <1>1, <1>2, <1>6

(* A byte sent and not lost: nothing is torn by it. *)
LEMMA Appended ==
  ASSUME LinkInv, OrderInv, sending, UNCHANGED <<sent, driver, last>>,
         out' = out + 1, sending' = (out' < Total(Last(sent))),
         wire' = Append(wire, NextByte)
  PROVE OrderInv' /\ Torn' \subseteq Torn /\ Current' <= Current
<1> DEFINE M == Len(sent)
           L == Len(wire)
<1>1. /\ M \in Nat \ {0} /\ out \in Nat /\ L \in Nat /\ out < Total(sent[M])
      /\ \A n : Total(n) \in Nat \ {0}
      /\ Last(sent) = sent[M]
  <2>1. sent # <<>> /\ sent \in Seq(Message) /\ out < Total(sent[M])
    BY DEF LinkInv, LineOK
  <2>2. Len(sent) # 0
    BY <2>1
  <2>. QED
    BY <2>1, <2>2, Numbers DEF Last
<1>2. /\ NextByte = ByteOf(M, out) /\ NextByte \in Tagged
      /\ NextByte.msg = M /\ NextByte.part = out
  BY <1>1, NextByteOK DEF NextByte, ByteOf, LinkInv
<1>3. /\ Len(wire') = L + 1 /\ wire'[L + 1] = NextByte
      /\ \A i \in 1..L : wire'[i] = wire[i]
  BY <1>2, Numbers DEF LinkInv, LineOK
<1>4. \A n \in 1..M : /\ n # M => Due(n)' = Due(n)
                      /\ Due(M) = out /\ Due(M)' = out + 1
  <2>1. \A n \in 1..M : n # M => Due(n) = Total(sent[n]) /\ Due(n)' = Total(sent[n])
    BY DEF Due, Total
  <2>2. Due(M) = out
    BY DEF Due
  <2>3. Due(M)' = IF sending' THEN out + 1 ELSE Total(sent[M])
    BY DEF Due, Total
  <2>4. ~sending' => Total(sent[M]) = out + 1
    <3> DEFINE T == Total(sent[M])
    <3>1. T \in Nat /\ out < T /\ out \in Nat
      BY <1>1
    <3>2. sending' = (out + 1 < T)
      BY <1>1
    <3>. HIDE DEF T
    <3>3. ~sending' => ~(out + 1 < T)
      BY <3>2, Zenon
    <3>4. ~(out + 1 < T) => T = out + 1
      BY <3>1
    <3>. QED
      BY <3>3, <3>4 DEF T
  <2>. QED
    BY <2>1, <2>2, <2>3, <2>4
<1>5. /\ \A n, p : ByteOf(n, p)' = ByteOf(n, p)
      /\ \A i \in 1..L : SentBy(wire[i], M, out + 1)
      /\ SentBy(NextByte, M, out + 1)
  <2>1. \A n, p : ByteOf(n, p)' = ByteOf(n, p)
    BY DEF ByteOf
  <2>2. \A i \in 1..L : wire[i].part \in Nat
    BY Numbers
  <2>3. \A i \in 1..L : SentBy(wire[i], M, out + 1)
    BY <1>1, <2>2 DEF SentBy, Handed, OrderInv, LineOrder
  <2>4. SentBy(NextByte, M, out + 1)
    BY <1>1, <1>2 DEF SentBy
  <2>. QED
    BY <2>1, <2>3, <2>4
<1>. HIDE DEF NextByte
<1>6. LineOrder'
  <2>1. \A i \in 1..(L + 1) : /\ wire'[i].msg \in 1..M
                              /\ wire'[i] = ByteOf(wire'[i].msg, wire'[i].part)
                              /\ SentBy(wire'[i], M, out + 1)
    <3>1. \A i \in 1..(L + 1) : i \in 1..L \/ i = L + 1
      BY <1>1
    <3>2. M \in 1..M
      BY <1>1
    <3>3. \A i \in 1..L : /\ wire'[i].msg \in 1..M
                          /\ wire'[i] = ByteOf(wire'[i].msg, wire'[i].part)
                          /\ SentBy(wire'[i], M, out + 1)
      BY <1>3, <1>5 DEF OrderInv, LineOrder
    <3>4. /\ wire'[L + 1].msg \in 1..M
          /\ wire'[L + 1] = ByteOf(wire'[L + 1].msg, wire'[L + 1].part)
          /\ SentBy(wire'[L + 1], M, out + 1)
      BY <1>2, <1>3, <1>5, <3>2
    <3>. QED
      BY <3>1, <3>3, <3>4
  <2>2. \A i, j \in 1..(L + 1) : i < j => Before(wire'[i], wire'[j])
    <3>. SUFFICES ASSUME NEW i \in 1..(L + 1), NEW j \in 1..(L + 1), i < j
                  PROVE Before(wire'[i], wire'[j])
      OBVIOUS
    <3>1. i \in 1..L
      BY <1>1
    <3>2. CASE j \in 1..L
      BY <1>3, <3>1, <3>2 DEF OrderInv, LineOrder
    <3>3. CASE j = L + 1
      <4>1. Handed(wire[i])
        BY <3>1 DEF OrderInv, LineOrder
      <4>. QED
        BY <1>2, <1>3, <3>1, <3>3, <4>1 DEF Handed, SentBy, Before
    <3>. QED
      BY <1>1, <3>2, <3>3
  <2>. QED
    BY <1>3, <2>1, <2>2 DEF LineOrder, Handed, SentBy, Before, ByteOf
<1>7. ReadOrder'
  <2>1. UNCHANGED <<serialPortByte, last, bits, sent>>
    BY DEF driver
  <2>2. Before(serialPortByte, NextByte)
    <3>1. serialPortByte.msg \in Nat
      BY Numbers
    <3>2. CASE serialPortByte.msg = 0
      BY <1>1, <1>2, <3>2 DEF Before
    <3>3. CASE serialPortByte.msg # 0
      BY <1>2, <3>3 DEF Before, OrderInv, ReadOrder, Handed, SentBy
    <3>. QED
      BY <3>2, <3>3
  <2>3. \A i \in 1..Len(wire') : Before(serialPortByte, wire'[i])
    <3>1. \A i \in 1..Len(wire') : i \in 1..L \/ i = L + 1
      BY <1>1, <1>3
    <3>. QED
      BY <1>3, <2>2, <3>1 DEF OrderInv, ReadOrder
  <2>4. serialPortByte.msg # 0 => Handed(serialPortByte)'
    BY <1>1, <2>1, Numbers DEF OrderInv, ReadOrder, Handed, SentBy
  <2>. QED
    BY <2>1, <2>3, <2>4 DEF OrderInv, ReadOrder, Before, Handed, SentBy
<1>8. ASSUME NEW i \in Nat, NEW n \in 1..M, NEW p \in Nat \ {0}, Anchor(i, n, p),
             Rest(i, n, p)
      PROVE Rest(i, n, p)'
  <2>1. \A q \in p..(Due(n) - 1) : /\ i + (q - p) + 1 \in 1..Len(wire')
                                   /\ wire'[i + (q - p) + 1] = ByteOf(n, q)
    BY <1>1, <1>3, <1>8 DEF Rest
  <2>2. CASE n # M
    BY <1>4, <1>5, <2>1, <2>2 DEF Rest, ByteOf
  <2>3. CASE n = M
    <3>1. p <= out /\ i + (out - p) = L
      BY <1>8, <2>3, AtEnd
    <3>2. /\ i + (out - p) + 1 \in 1..Len(wire')
          /\ wire'[i + (out - p) + 1] = ByteOf(n, out)
      BY <1>1, <1>2, <1>3, <2>3, <3>1
    <3>3. \A q \in p..(Due(n)' - 1) : q \in p..(Due(n) - 1) \/ q = out
      BY <1>1, <1>4, <2>3
    <3>4. \A q \in p..(Due(n)' - 1) : /\ i + (q - p) + 1 \in 1..Len(wire')
                                      /\ wire'[i + (q - p) + 1] = ByteOf(n, q)
      BY <2>1, <3>2, <3>3
    <3>. QED
      BY <1>5, <3>4 DEF Rest, ByteOf
  <2>. QED
    BY <2>2, <2>3
<1>9. Torn' \subseteq Torn
  <2>. SUFFICES ASSUME NEW n \in 1..M, sent[n].code \in TypedCodes,
                       NEW i \in 1..(L + 1), TornAt(i, n)'
                PROVE i \in 1..L /\ TornAt(i, n)
    BY <1>3 DEF Torn
  <2>1. wire'[i].msg = n /\ wire'[i].part = 0 /\ ~Rest(i, n, 1)'
    BY DEF TornAt
  <2>2. ASSUME i = L + 1 PROVE FALSE
    <3>1. n = M /\ out = 0
      BY <1>2, <1>3, <2>1, <2>2
    <3>2. Due(n)' = 1
      BY <1>4, <3>1
    <3>3. Rest(i, n, 1)'
      BY <3>2 DEF Rest
    <3>. QED
      BY <2>1, <3>3
  <2>3. i \in 1..L
    BY <1>1, <2>2
  <2>4. wire[i].msg = n /\ wire[i].part = 0
    BY <1>3, <2>1, <2>3
  <2>5. Anchor(i, n, 1) /\ i \in Nat /\ 1 \in Nat \ {0}
    BY <2>3, <2>4 DEF Anchor
  <2>. QED
    BY <1>8, <2>1, <2>3, <2>4, <2>5 DEF TornAt
<1>10. Whole => Whole'
  <2>. SUFFICES ASSUME Whole PROVE Whole'
    OBVIOUS
  <2> DEFINE n == serialPortByte.msg
  <2>1. /\ n \in 1..M /\ last < n /\ receiving = sent[n].code
        /\ serialPortByte.part = Len(bits) /\ Len(bits) \in Nat
        /\ \A q \in 1..Len(bits) : bits[q] = ByteOf(n, q)
        /\ Rest(0, n, Len(bits) + 1)
    BY Numbers DEF Whole
  <2>2. Anchor(0, n, Len(bits) + 1) /\ Len(bits) + 1 \in Nat \ {0} /\ 0 \in Nat
    BY <2>1 DEF Anchor
  <2>3. Rest(0, n, Len(bits) + 1)'
    <3>1. \A m \in 1..M, p \in Nat \ {0} : Anchor(0, m, p) /\ Rest(0, m, p) => Rest(0, m, p)'
      BY <1>8, <2>2
    <3>2. PICK m, p : m = n /\ p = Len(bits) + 1
      OBVIOUS
    <3>3. Rest(0, m, p)'
      BY <2>1, <2>2, <3>1, <3>2
    <3>4. m = n' /\ p = (Len(bits) + 1)'
      BY <3>2 DEF driver
    <3>. QED
      BY <3>3, <3>4
  <2>4. UNCHANGED <<serialPortByte, last, bits, sent, receiving>>
    BY DEF driver
  <2>. QED
    BY <1>5, <2>1, <2>3, <2>4 DEF Whole, ByteOf
<1>11. Current' <= Current
  BY <1>10, CurrentBit DEF Current, InValue, driver
<1>. QED
  BY <1>6, <1>7, <1>9, <1>11 DEF OrderInv

(* A byte that is not sent, or is lost behind all the others, tears at     *)
(* most the message being sent: on the line, or as the one being read.     *)
LEMMA Missing ==
  ASSUME LinkInv, OrderInv, sent # <<>>, UNCHANGED <<sent, driver, last>>,
         out' \in {out, out + 1}, Len(wire') \in Nat, Len(wire') <= Len(wire),
         \A i \in 1..Len(wire') : wire'[i] = wire[i],
         \A i \in 1..Len(wire) : i > Len(wire') => wire[i].msg = Len(sent)
  PROVE /\ OrderInv'
        /\ Torn' \subseteq Torn \cup {Len(sent)}
        /\ serialPortByte.msg = Len(sent) => Torn' \subseteq Torn
        /\ (\A i \in 1..Len(wire') : wire[i].msg = Len(sent) => wire[i].part # 0)
             => Torn' \subseteq Torn
        /\ serialPortByte.msg # Len(sent) => Current' <= Current
<1> DEFINE M == Len(sent)
<1>1. /\ M \in Nat \ {0} /\ out \in Nat /\ out' \in Nat /\ out <= out'
      /\ \A i \in 1..Len(wire') : i \in 1..Len(wire) /\ wire'[i] = wire[i]
      /\ \A i \in 1..Len(wire) : wire[i].msg \in Nat /\ wire[i].part \in Nat
      /\ serialPortByte.msg \in Nat /\ serialPortByte.part \in Nat
  <2>1. sent \in Seq(Message) /\ Len(sent) # 0
    BY DEF LinkInv, LineOK
  <2>2. /\ Len(sent) \in Nat /\ out \in Nat /\ Len(wire) \in Nat
        /\ \A i \in 1..Len(wire) : wire[i].msg \in Nat /\ wire[i].part \in Nat
        /\ serialPortByte.msg \in Nat /\ serialPortByte.part \in Nat
    BY Numbers
  <2>3. out' \in Nat /\ out <= out'
    BY <2>2
  <2>4. \A i \in 1..Len(wire') : i \in 1..Len(wire)
    BY <2>2
  <2>. QED
    BY <2>1, <2>2, <2>3, <2>4
<1>2. /\ UNCHANGED <<serialPortByte, bits, receiving, last, sent>>
      /\ \A n : n # M => Due(n)' = Due(n)
      /\ \A n, p : ByteOf(n, p)' = ByteOf(n, p)
  BY DEF driver, Due, Total, ByteOf
<1>3. \A b \in Tagged : SentBy(b, M, out) => SentBy(b, M, out')
  BY <1>1, Numbers DEF SentBy
<1>4. OrderInv'
  <2>1. \A i \in 1..Len(wire') : /\ wire'[i].msg \in 1..M
                                 /\ wire'[i] = ByteOf(wire'[i].msg, wire'[i].part)
                                 /\ SentBy(wire'[i], M, out')
    BY <1>1, <1>3, Numbers DEF OrderInv, LineOrder, Handed
  <2>2. /\ \A i, j \in 1..Len(wire') : i < j => Before(wire'[i], wire'[j])
        /\ \A i \in 1..Len(wire') : Before(serialPortByte, wire'[i])
    BY <1>1 DEF OrderInv, LineOrder, ReadOrder
  <2>3. serialPortByte.msg # 0 => SentBy(serialPortByte, M, out')
    BY <1>3, Numbers DEF OrderInv, ReadOrder, Handed
  <2>4. LineOrder'
    BY <1>2, <2>1, <2>2 DEF LineOrder, Handed, SentBy, Before, ByteOf
  <2>5. ReadOrder'
    BY <1>2, <2>2, <2>3 DEF OrderInv, ReadOrder, Handed, SentBy, Before
  <2>. QED
    BY <2>4, <2>5 DEF OrderInv
<1>5. ASSUME NEW i \in Nat, NEW n \in 1..M, n # M, NEW p \in Nat, Rest(i, n, p)
      PROVE Rest(i, n, p)'
  <2>1. \A q \in p..(Due(n) - 1) : /\ i + (q - p) + 1 \in 1..Len(wire')
                                   /\ wire'[i + (q - p) + 1] = ByteOf(n, q)
    <3>. SUFFICES ASSUME NEW q \in p..(Due(n) - 1)
                  PROVE /\ i + (q - p) + 1 \in 1..Len(wire')
                        /\ wire'[i + (q - p) + 1] = ByteOf(n, q)
      OBVIOUS
    <3>1. /\ i + (q - p) + 1 \in 1..Len(wire)
          /\ wire[i + (q - p) + 1] = ByteOf(n, q)
      BY <1>5 DEF Rest
    <3>2. wire[i + (q - p) + 1].msg # M
      BY <1>5, <3>1 DEF ByteOf
    <3>3. i + (q - p) + 1 <= Len(wire')
      BY <3>1, <3>2, <1>1
    <3>. QED
      BY <3>1, <3>3, <1>1
  <2>. QED
    BY <1>2, <1>5, <2>1 DEF Rest, ByteOf
<1>6. \A n \in 1..M, i \in 1..Len(wire') : n # M /\ TornAt(i, n)' => TornAt(i, n)
  <2>. SUFFICES ASSUME NEW n \in 1..M, NEW i \in 1..Len(wire'), n # M, TornAt(i, n)'
                PROVE TornAt(i, n)
    OBVIOUS
  <2>1. wire'[i].msg = n /\ wire'[i].part = 0 /\ ~Rest(i, n, 1)'
    BY DEF TornAt
  <2>2. i \in Nat /\ 1 \in Nat /\ wire'[i] = wire[i]
    BY <1>1
  <2>3. ~Rest(i, n, 1)
    BY <1>5, <2>1, <2>2
  <2>. QED
    BY <2>1, <2>2, <2>3 DEF TornAt
<1>7. Torn' \subseteq Torn \cup {M}
  BY <1>1, <1>2, <1>6 DEF Torn
<1>8. ASSUME \A i \in 1..Len(wire') : wire[i].msg = M => wire[i].part # 0
      PROVE Torn' \subseteq Torn
  <2>1. M \notin Torn'
    BY <1>1, <1>8 DEF Torn, TornAt
  <2>. QED
    BY <1>7, <2>1
<1>9. ASSUME serialPortByte.msg = M PROVE Torn' \subseteq Torn
  <2>1. ASSUME NEW i \in 1..Len(wire'), wire[i].msg = M, wire[i].part = 0 PROVE FALSE
    <3>1. Before(serialPortByte, wire[i])
      BY <1>1 DEF OrderInv, ReadOrder
    <3>. QED
      BY <1>1, <1>9, <2>1, <3>1 DEF Before
  <2>. QED
    BY <1>8, <2>1
<1>10. ASSUME serialPortByte.msg # M PROVE Current' <= Current
  <2>1. ASSUME Whole PROVE Whole'
    <3>1. /\ serialPortByte.msg \in 1..M /\ last < serialPortByte.msg
          /\ receiving = sent[serialPortByte.msg].code
          /\ serialPortByte.part = Len(bits) /\ Len(bits) + 1 \in Nat
          /\ \A q \in 1..Len(bits) : bits[q] = ByteOf(serialPortByte.msg, q)
          /\ Rest(0, serialPortByte.msg, Len(bits) + 1)
      BY <2>1, Numbers DEF Whole
    <3>2. PICK n \in 1..M, p \in Nat : n = serialPortByte.msg /\ p = Len(bits) + 1
      BY <3>1
    <3>3. Rest(0, n, p)'
      BY <1>5, <1>10, <3>1, <3>2
    <3>4. n = serialPortByte'.msg /\ p = (Len(bits) + 1)'
      BY <1>2, <3>2
    <3>5. Rest(0, serialPortByte.msg, Len(bits) + 1)'
      BY <3>3, <3>4
    <3>. QED
      BY <1>2, <3>1, <3>5 DEF Whole, ByteOf
  <2>. QED
    BY <1>2, <2>1, CurrentBit DEF Current, InValue
<1>. QED
  BY <1>4, <1>7, <1>8, <1>9, <1>10

-----------------------------------------------------------------------------
(* The step takes the first k bytes off the line. *)
Drops(k) ==
    /\ k \in 0..Len(wire)
    /\ Len(wire') = Len(wire) - k
    /\ \A i \in 1..Len(wire') : wire'[i] = wire[i + k]

LEMMA ClearDrops ==
  ASSUME LinkInv, serialPortClearFIFO(wire) \/ wire' = wire
  PROVE \E k \in 0..Len(wire) : Drops(k)
<1>1. wire \in Seq(Tagged) /\ Len(wire) \in Nat
  BY DEF LinkInv, LineOK
<1>. HIDE DEF Tagged
<1>2. ASSUME NEW k \in 0..Len(wire), wire' = SubSeq(wire, k + 1, Len(wire)) PROVE Drops(k)
  BY <1>1, <1>2 DEF Drops
<1>3. wire' = wire => Drops(0)
  BY <1>1 DEF Drops
<1>. QED
  BY <1>1, <1>2, <1>3 DEF serialPortClearFIFO

LEMMA ReadDrops ==
  ASSUME LinkInv, Interrupted, serialPortClearFIFO(Tail(wire)) \/ wire' = Tail(wire)
  PROVE \E k \in 1..Len(wire) : Drops(k)
<1>1. /\ wire \in Seq(Tagged) /\ Len(wire) \in Nat \ {0} /\ Tail(wire) \in Seq(Tagged)
      /\ Len(Tail(wire)) = Len(wire) - 1
      /\ \A i \in 1..Len(Tail(wire)) : Tail(wire)[i] = wire[i + 1]
  BY DEF LinkInv, LineOK, Interrupted
<1>. DEFINE rest == Tail(wire)
<1>. HIDE DEF Tagged, rest
<1>2. ASSUME NEW k \in 0..Len(rest), wire' = SubSeq(rest, k + 1, Len(rest)) PROVE Drops(k + 1)
  <2>1. /\ Len(wire') = Len(rest) - k
        /\ \A i \in 1..Len(wire') : wire'[i] = rest[i + k]
    <3>1. rest \in Seq(Tagged) /\ Len(rest) \in Nat
      BY <1>1 DEF rest
    <3>. QED
      BY <3>1, <1>2
  <2>2. k + 1 \in 0..Len(wire) /\ Len(wire') = Len(wire) - (k + 1)
    BY <1>1, <2>1 DEF rest
  <2>3. \A i \in 1..Len(wire') : i + k \in 1..Len(rest) /\ (i + k) + 1 = i + (k + 1)
    BY <1>1, <2>1 DEF rest
  <2>. QED
    BY <1>1, <2>1, <2>2, <2>3 DEF Drops, rest
<1>3. ASSUME wire' = rest PROVE Drops(1)
  BY <1>1, <1>3 DEF Drops, rest
<1>4. CASE serialPortClearFIFO(rest)
  <2>1. PICK k \in 0..Len(rest) : Drops(k + 1)
    BY <1>2, <1>4 DEF serialPortClearFIFO
  <2>2. k + 1 \in 1..Len(wire)
    BY <1>1 DEF rest
  <2>. QED
    BY <2>1, <2>2
<1>5. CASE wire' = rest
  <2>1. 1 \in 1..Len(wire)
    BY <1>1
  <2>. QED
    BY <1>3, <1>5, <2>1
<1>. QED
  BY <1>4, <1>5 DEF rest

(* The order of what is left, if the last byte read is the old one or the  *)
(* first one on the line.                                                  *)
LEMMA OrderDropped ==
  ASSUME LinkInv, OrderInv, UNCHANGED sender, NEW k \in 0..Len(wire), Drops(k),
         serialPortByte' = serialPortByte \/ (k > 0 /\ serialPortByte' = wire[1]),
         \A q \in 1..Len(bits') : bits'[q].msg <= serialPortByte'.msg,
         last' <= serialPortByte'.msg
  PROVE OrderInv' /\ Torn' \subseteq Torn
<1>1. LineOrder' /\ Torn' \subseteq Torn
  BY Dropped DEF OrderInv, Drops
<1>2. /\ \A i \in 1..Len(wire') : i + k \in 1..Len(wire) /\ wire'[i] = wire[i + k]
      /\ k > 0 => 1 \in 1..Len(wire) /\ \A i \in 1..Len(wire') : 1 < i + k
  BY Numbers DEF Drops
<1>3. \A i \in 1..Len(wire') : Before(serialPortByte', wire'[i])
  BY <1>2 DEF OrderInv, LineOrder, ReadOrder
<1>4. serialPortByte'.msg # 0 => Handed(serialPortByte')
  BY <1>2 DEF OrderInv, LineOrder, ReadOrder
<1>5. ReadOrder'
  BY <1>3, <1>4 DEF ReadOrder, Handed, SentBy, Before, sender
<1>. QED
  BY <1>1, <1>5 DEF OrderInv

-----------------------------------------------------------------------------
(* Steps of Link as steps of Channel. *)
Step == AbstractChannel!Next \/ UNCHANGED AbstractChannel!vars

LEMMA StutterStep ==
  ASSUME UNCHANGED <<sent, last>>, faults' - wrong' = faults - wrong
  PROVE Step
  BY DEF Step, AbstractChannel!vars, Coded

LEMMA FaultStep ==
  ASSUME LinkInv, UNCHANGED <<sent, delivery>>, faults' = faults + 1
  PROVE Step
<1>1. faults' - wrong' = (faults - wrong) + 1
  BY Numbers DEF delivery
<1>. QED
  BY <1>1 DEF Step, AbstractChannel!Next, AbstractChannel!Fault, Coded, delivery

(* A fault or none. *)
LEMMA CountedStep ==
  ASSUME LinkInv, UNCHANGED <<sent, delivery>>, NEW happened, CountFault(happened)
  PROVE Step
<1>1. CASE happened
  BY <1>1, FaultStep DEF CountFault
<1>2. CASE ~happened
  <2>1. faults' = faults
    BY <1>2, Numbers DEF CountFault
  <2>. QED
    BY <2>1, StutterStep DEF delivery
<1>. QED
  BY <1>1, <1>2

LEMMA DeliveredStep ==
  ASSUME LinkInv, UNCHANGED <<sent, faults>>, NEW n \in 0..Len(sent), Delivered(n),
         n > last \/ faults - wrong > 0 \/ ~Clean
  PROVE Step
<1>1. CASE n > last
  <2>1. last' = n /\ wrong' = wrong
    BY <1>1 DEF Delivered
  <2>2. last' \in (last + 1)..Len(sent)
    BY <1>1, <2>1, Numbers
  <2>. QED
    BY <2>1, <2>2 DEF Step, AbstractChannel!Next, AbstractChannel!Deliver, Coded
<1>2. CASE ~(n > last)
  <2>1. wrong' = wrong + 1 /\ last' = last
    BY <1>2 DEF Delivered
  <2>2. faults' - wrong' = (faults - wrong) - 1
    BY <2>1, Numbers
  <2>3. faults - wrong > 0 \/ \E i \in DOMAIN sent : Coded(sent[i])
    BY <1>2 DEF Clean
  <2>. QED
    BY <2>1, <2>2, <2>3 DEF Step, AbstractChannel!Next, AbstractChannel!WrongDelivery, Coded
<1>. QED
  BY <1>1, <1>2

-----------------------------------------------------------------------------
(* The actions.  What each has to keep, and the step of Channel it is. *)
Kept == OrderInv' /\ CreditInv' /\ Step

(* The bytes of a value taken for its beginning: none of them is ahead of  *)
(* the last byte read.                                                     *)
LEMMA ReadBehind ==
  ASSUME LinkInv, OrderInv
  PROVE /\ serialPortByte.msg \in 0..Len(sent) /\ last <= serialPortByte.msg
        /\ last \in 0..Len(sent)
        /\ \A q \in 1..Len(bits) : bits[q].msg \in 0..serialPortByte.msg
<1>1. /\ serialPortByte.msg \in Nat /\ last \in Nat /\ Len(sent) \in Nat
      /\ \A q \in 1..Len(bits) : bits[q].msg \in Nat
  BY Numbers
<1>2. serialPortByte.msg <= Len(sent)
  BY <1>1 DEF OrderInv, ReadOrder, Handed, SentBy
<1>. QED
  BY <1>1, <1>2 DEF OrderInv, ReadOrder

LEMMA CallKept ==
  ASSUME LinkInv, LinkInv', OrderInv, CreditInv, NEW m \in Message, Call(m)
  PROVE Kept
<1> DEFINE M == Len(sent)
<1>1. /\ UNCHANGED <<wire, driver, last, wrong, faults>> /\ ~sending /\ sending' = TRUE
      /\ sent' = Append(sent, m) /\ out' = 0
      /\ UNCHANGED <<serialPortByte, bits, receiving>>
  BY DEF Call, delivery, driver
<1>2. sent \in Seq(Message) /\ M \in Nat
  BY DEF LinkInv, LineOK
<1>. HIDE DEF Message
<1>3. /\ Len(sent') = M + 1 /\ DOMAIN sent = 1..M /\ DOMAIN sent' = 1..(M + 1)
      /\ \A n \in 1..M : sent'[n] = sent[n]
  BY <1>1, <1>2
<1>4. \A n \in 1..M : \A p : ByteOf(n, p)' = ByteOf(n, p) /\ Due(n)' = Due(n)
  <2>1. \A n \in 1..M : \A p : ByteOf(n, p)' = ByteOf(n, p)
    BY <1>3 DEF ByteOf
  <2>2. \A n \in 1..M : n # M + 1
    BY <1>2
  <2>. QED
    BY <1>1, <1>3, <2>1, <2>2 DEF Due, Total
<1>5. \A n \in 1..M : \A i, p : Rest(i, n, p)' = Rest(i, n, p)
  BY <1>1, <1>4 DEF Rest, ByteOf
<1>6. \A b \in Tagged : SentBy(b, M, out) => SentBy(b, M + 1, 0)
  <2>. SUFFICES ASSUME NEW b \in Tagged, SentBy(b, M, out) PROVE b.msg < M + 1
    BY DEF SentBy
  <2>1. b.msg \in Nat
    BY Numbers
  <2>. QED
    BY <1>2, <2>1 DEF SentBy
<1>7. LineOrder'
  <2>1. \A i \in 1..Len(wire) : /\ wire[i].msg \in 1..M /\ wire[i].msg \in 1..(M + 1)
                                /\ wire[i] = ByteOf(wire[i].msg, wire[i].part)'
                                /\ SentBy(wire[i], M + 1, 0)
    <3>1. \A i \in 1..Len(wire) : wire[i].msg \in 1..M /\ SentBy(wire[i], M, out)
      BY DEF OrderInv, LineOrder, Handed
    <3>2. \A n \in 1..M : n \in 1..(M + 1)
      BY <1>2
    <3>3. \A i \in 1..Len(wire) : wire[i] = ByteOf(wire[i].msg, wire[i].part)
      BY DEF OrderInv, LineOrder
    <3>. QED
      BY <1>1, <1>3, <1>4, <1>6, <3>1, <3>2, <3>3, Numbers DEF ByteOf
  <2>2. \A i, j \in 1..Len(wire) : i < j => Before(wire[i], wire[j])
    BY DEF OrderInv, LineOrder
  <2>3. wire' = wire /\ Len(sent') = M + 1 /\ out' = 0
    BY <1>1, <1>3
  <2>. HIDE DEF M
  <2>. QED
    BY <2>1, <2>2, <2>3 DEF LineOrder, Handed, SentBy, Before, ByteOf
<1>8. ReadOrder'
  <2>1. serialPortByte.msg # 0 => SentBy(serialPortByte, M + 1, 0)
    BY <1>6, Numbers DEF OrderInv, ReadOrder, Handed
  <2>. QED
    BY <1>1, <1>3, <2>1 DEF OrderInv, ReadOrder, Handed, SentBy, Before
<1>9. Torn' \subseteq Torn
  <2>. SUFFICES ASSUME NEW n \in 1..(M + 1), NEW i \in 1..Len(wire), TornAt(i, n)',
                       sent'[n].code \in TypedCodes
                PROVE n \in 1..M /\ sent[n].code \in TypedCodes /\ TornAt(i, n)
    BY <1>1, <1>3 DEF Torn
  <2>1. wire[i].msg = n /\ wire[i].part = 0 /\ ~Rest(i, n, 1)'
    BY <1>1 DEF TornAt
  <2>2. n \in 1..M
    BY <2>1 DEF OrderInv, LineOrder
  <2>. QED
    BY <1>3, <1>5, <2>1, <2>2 DEF TornAt
<1>10. Current' <= Current
  <2>1. ASSUME Whole PROVE Whole'
    <3>1. serialPortByte.msg \in 1..M /\ serialPortByte.msg \in 1..(M + 1)
      BY <1>2, <2>1 DEF Whole
    <3>. QED
      BY <1>1, <1>3, <1>4, <1>5, <2>1, <3>1 DEF Whole, Rest, ByteOf
  <2>. QED
    BY <1>1, <2>1, CurrentBit DEF Current, InValue
<1>11. CreditInv'
  <2>. SUFFICES ASSUME Clean' PROVE Debt' <= faults - wrong
    BY <1>1 DEF CreditInv
  <2>1. Clean
    <3>1. \A i \in 1..M : i \in 1..(M + 1)
      BY <1>2
    <3>. QED
      BY <1>3, <3>1 DEF Clean, Coded
  <2>2. Debt' <= Debt /\ Debt' \in Nat /\ Debt \in Nat
    BY <1>9, <1>10, DebtSame DEF LinkInv
  <2>. QED
    BY <2>1, <2>2, Numbers DEF CreditInv
<1>12. Step
  <2>1. Clean' => Clean
    <3>1. \A i \in 1..M : i \in 1..(M + 1)
      BY <1>2
    <3>. QED
      BY <1>3, <3>1 DEF Clean, Coded
  <2>2. /\ ~Clean <=> \E i \in DOMAIN sent : Coded(sent[i])
        /\ ~Clean' <=> (\E i \in DOMAIN sent : Coded(sent[i]))'
    BY DEF Clean, Coded
  <2>. QED
    BY <1>1, <1>3, <2>1, <2>2 DEF Step, AbstractChannel!Next, AbstractChannel!Send
<1>. QED
  BY <1>7, <1>8, <1>11, <1>12 DEF Kept, OrderInv

(* Debts no larger than the credit stay so if no more of them are made     *)
(* than faults counted.                                                    *)
LEMMA CreditFrom ==
  ASSUME LinkInv, LinkInv', CreditInv, UNCHANGED sent,
         NEW d \in Int, Clean => Debt' <= Debt + d, Debt \in Nat, Debt' \in Nat,
         Clean => (faults' - wrong') >= (faults - wrong) + d
  PROVE CreditInv'
<1>. SUFFICES ASSUME Clean' PROVE Debt' <= faults' - wrong'
  BY DEF CreditInv
<1>1. Clean
  BY DEF Clean, Coded
<1>2. faults \in Nat /\ wrong \in Nat /\ faults' \in Nat /\ wrong' \in Nat
  BY LinkAssumption DEF LinkInv, RestOK
<1>3. Debt <= faults - wrong
  BY <1>1 DEF CreditInv
<1>4. Debt' <= Debt + d /\ faults' - wrong' >= (faults - wrong) + d
  BY <1>1
<1>5. \A x, y, f, g \in Int : x <= f /\ y <= x + d /\ g >= f + d => y <= g
  OBVIOUS
<1>6. Debt \in Int /\ Debt' \in Int /\ faults - wrong \in Int /\ faults' - wrong' \in Int
  BY <1>2
<1>. QED
  BY <1>3, <1>4, <1>5, <1>6

(* What is lost of the message being sent is paid for by a fault, or else  *)
(* the message has no announcement anywhere.                               *)
LEMMA MissingKept ==
  ASSUME LinkInv, LinkInv', OrderInv, CreditInv, sent # <<>>,
         UNCHANGED <<sent, driver, delivery>>,
         out' \in {out, out + 1}, Len(wire') \in Nat, Len(wire') <= Len(wire),
         \A i \in 1..Len(wire') : wire'[i] = wire[i],
         \A i \in 1..Len(wire) : i > Len(wire') => wire[i].msg = Len(sent),
         NEW happened, CountFault(happened),
         ~happened => /\ serialPortByte.msg # Len(sent)
                      /\ \A i \in 1..Len(wire') : wire[i].msg = Len(sent) => wire[i].part # 0
  PROVE Kept
<1>1. UNCHANGED <<last, wrong>>
  BY DEF delivery
<1>2. /\ OrderInv'
      /\ Torn' \subseteq Torn \cup {Len(sent)}
      /\ serialPortByte.msg = Len(sent) => Torn' \subseteq Torn
      /\ (\A i \in 1..Len(wire') : wire[i].msg = Len(sent) => wire[i].part # 0)
           => Torn' \subseteq Torn
      /\ serialPortByte.msg # Len(sent) => Current' <= Current
  BY <1>1, Missing
<1>3. LineOK /\ LineOK' /\ faults \in Nat /\ faults' \in Nat /\ wrong \in Nat
  BY LinkAssumption DEF LinkInv, RestOK
<1>4. Debt \in Nat /\ Debt' \in Nat
  <2>1. IsFiniteSet(Torn) /\ Cardinality(Torn) \in Nat /\ Cardinality(Torn)' \in Nat
    BY <1>3, TornFinite
  <2>. QED
    BY <2>1, CurrentBit DEF Debt
<1>5. CASE happened
  <2>1. Debt' <= Debt + 1
    <3>1. CASE serialPortByte.msg = Len(sent)
      BY <1>2, <1>3, <3>1, DebtSame
    <3>2. CASE serialPortByte.msg # Len(sent)
      BY <1>2, <1>3, <3>2, DebtMore
    <3>. QED
      BY <3>1, <3>2
  <2>2. faults' = faults + 1
    BY <1>5 DEF CountFault
  <2>3. faults' - wrong' >= (faults - wrong) + 1
    BY <1>1, <1>3, <2>2
  <2>. QED
    BY <1>2, <1>4, <2>1, <2>3, CreditFrom, CountedStep DEF Kept
<1>6. CASE ~happened
  <2>1. Debt' <= Debt + 0
    BY <1>2, <1>3, <1>4, <1>6, DebtSame
  <2>2. faults' = faults
    BY <1>3, <1>6 DEF CountFault
  <2>3. faults' - wrong' >= (faults - wrong) + 0
    BY <1>1, <1>3, <2>2
  <2>. QED
    BY <1>2, <1>4, <2>1, <2>3, CreditFrom, CountedStep DEF Kept
<1>. QED
  BY <1>5, <1>6

(* Before its first byte a message is nowhere. *)
LEMMA NothingSent ==
  ASSUME LinkInv, OrderInv, sent # <<>>, out = 0
  PROVE /\ serialPortByte.msg # Len(sent)
        /\ \A i \in 1..Len(wire) : wire[i].msg # Len(sent)
<1>1. Len(sent) \in Nat \ {0}
  BY DEF LinkInv, LineOK
<1>2. \A b \in Tagged : SentBy(b, Len(sent), out) => b.msg # Len(sent)
  BY <1>1, Numbers DEF SentBy
<1>. QED
  BY <1>1, <1>2, Numbers DEF OrderInv, LineOrder, ReadOrder, Handed

LEMMA SendByteKept ==
  ASSUME LinkInv, LinkInv', OrderInv, CreditInv, SendByte
  PROVE Kept
<1>1. /\ sending /\ sent # <<>> /\ out \in Nat /\ Len(wire) \in Nat
      /\ wire \in Seq(Tagged)
  BY Numbers DEF SendByte, LinkInv, LineOK
<1>2. /\ out' = out + 1 /\ sending' = (out' < Total(Last(sent)))
      /\ UNCHANGED <<sent, driver, delivery>>
  BY DEF SendByte
<1>3. CASE Len(wire) = FifoSize
  <2>1. wire' = wire /\ CountFault(out > 0)
    BY <1>3 DEF SendByte
  <2>2. /\ Len(wire') \in Nat /\ Len(wire') <= Len(wire)
        /\ \A i \in 1..Len(wire') : wire'[i] = wire[i]
        /\ \A i \in 1..Len(wire) : i > Len(wire') => wire[i].msg = Len(sent)
    BY <1>1, <2>1
  <2>3. ~(out > 0) => out = 0
    BY <1>1
  <2>4. ~(out > 0) => /\ serialPortByte.msg # Len(sent)
                      /\ \A i \in 1..Len(wire') : wire[i].msg = Len(sent) => wire[i].part # 0
    BY <1>1, <2>1, <2>3, NothingSent
  <2>. QED
    BY <1>1, <1>2, <2>1, <2>2, <2>4, MissingKept
<1>4. CASE Len(wire) # FifoSize
  <2>1. wire' = Append(wire, NextByte) /\ CountFault(FALSE)
    BY <1>4 DEF SendByte
  <2>2. OrderInv' /\ Torn' \subseteq Torn /\ Current' <= Current
    BY <1>1, <1>2, <2>1, Appended DEF delivery
  <2>3. /\ faults' = faults /\ wrong' = wrong /\ faults \in Nat /\ wrong \in Nat
    BY <1>2, <2>1, Numbers DEF CountFault, delivery
  <2>4. Debt' <= Debt + 0 /\ Debt \in Nat /\ Debt' \in Nat
    BY <2>2, DebtSame DEF LinkInv
  <2>5. faults' - wrong' >= (faults - wrong) + 0
    BY <2>3
  <2>6. Step
    BY <1>2, <2>3, StutterStep DEF delivery
  <2>. QED
    BY <1>2, <2>2, <2>4, <2>5, <2>6, CreditFrom DEF Kept
<1>. QED
  BY <1>3, <1>4

LEMMA GiveUpKept ==
  ASSUME LinkInv, LinkInv', OrderInv, CreditInv, GiveUp
  PROVE Kept
<1>1. /\ sending /\ sent # <<>> /\ out \in Nat /\ Len(wire) \in Nat
      /\ UNCHANGED <<sent, out, wire, driver, delivery>> /\ CountFault(out > 0)
  BY Numbers DEF GiveUp, LinkInv, LineOK
<1>2. /\ Len(wire') \in Nat /\ Len(wire') <= Len(wire)
      /\ \A i \in 1..Len(wire') : wire'[i] = wire[i]
      /\ \A i \in 1..Len(wire) : i > Len(wire') => wire[i].msg = Len(sent)
  BY <1>1
<1>3. ~(out > 0) => out = 0
  BY <1>1
<1>4. ~(out > 0) => /\ serialPortByte.msg # Len(sent)
                    /\ \A i \in 1..Len(wire') : wire[i].msg = Len(sent) => wire[i].part # 0
  BY <1>1, <1>3, NothingSent
<1>. QED
  BY <1>1, <1>2, <1>4, MissingKept

LEMMA ClearTransmitterKept ==
  ASSUME LinkInv, LinkInv', OrderInv, CreditInv, ClearTransmitter
  PROVE Kept
<1> DEFINE L == Len(wire)
           M == Len(sent)
<1>1. /\ wire \in Seq(Tagged) /\ wire # <<>> /\ L \in Nat \ {0}
      /\ Last(wire) = wire[L] /\ Front(wire) = SubSeq(wire, 1, L - 1)
  BY Numbers DEF ClearTransmitter, LinkInv, LineOK, Last, Front
<1>2. /\ wire[L].msg = M /\ wire' = SubSeq(wire, 1, L - 1)
      /\ CountFault(wire[L].part > 0)
      /\ UNCHANGED <<sent, out, driver, delivery>>
  BY <1>1 DEF ClearTransmitter, sender
<1>3. Len(wire') = L - 1 /\ \A i \in 1..(L - 1) : wire'[i] = wire[i]
  <2>1. ASSUME NEW k \in 0..Len(wire), wire' = SubSeq(wire, 1, k)
        PROVE Len(wire') = k /\ \A i \in 1..k : wire'[i] = wire[i]
    <3>. HIDE DEF Tagged, L
    <3>. QED
      BY <1>1, <2>1
  <2>2. L - 1 \in 0..Len(wire)
    BY <1>1
  <2>. QED
    BY <1>2, <2>1, <2>2
<1>4. /\ Len(wire') \in Nat /\ Len(wire') <= Len(wire)
      /\ \A i \in 1..Len(wire) : i > Len(wire') => wire[i].msg = Len(sent)
  <2>1. \A i \in 1..L : i > L - 1 => i = L
    BY <1>1
  <2>. QED
    BY <1>1, <1>2, <1>3, <2>1
<1>5. sent # <<>>
  <2>1. wire[L].msg \in 1..M
    BY <1>1 DEF OrderInv, LineOrder
  <2>. QED
    BY <2>1
<1>6. ASSUME ~(wire[L].part > 0)
      PROVE /\ serialPortByte.msg # Len(sent)
            /\ \A i \in 1..Len(wire') : wire[i].msg = Len(sent) => wire[i].part # 0
  <2>1. /\ L \in 1..L /\ \A i \in 1..Len(wire') : i \in 1..L /\ i < L
        /\ \A i \in 1..L : wire[i].part \in Nat
        /\ serialPortByte.part \in Nat /\ M \in Nat
    BY <1>1, <1>3, Numbers
  <2>2. wire[L].part = 0
    BY <1>6, <2>1
  <2>3. serialPortByte.msg # M
    BY <1>2, <2>1, <2>2 DEF OrderInv, ReadOrder, Before
  <2>4. ASSUME NEW i \in 1..Len(wire'), wire[i].msg = M PROVE FALSE
    <3>1. Before(wire[i], wire[L])
      BY <2>1 DEF OrderInv, LineOrder
    <3>2. wire[i].part \in Nat
      BY <2>1
    <3>. QED
      BY <1>2, <2>1, <2>2, <2>4, <3>1, <3>2 DEF Before
  <2>. QED
    BY <2>3, <2>4
<1>. QED
  BY <1>2, <1>3, <1>4, <1>5, <1>6, MissingKept
-----------------------------------------------------------------------------
(* The receiver: steps that read nothing. *)

(* Nothing of what the debts depend on is touched. *)
LEMMA SameDebts ==
  ASSUME OrderInv, UNCHANGED <<sender, wire, driver, last>>
  PROVE OrderInv' /\ Torn' \subseteq Torn /\ Current' <= Current
<1>1. UNCHANGED <<sent, out, sending, wire, receiving, bits, serialPortByte, last>>
  BY DEF sender, driver
<1>2. OrderInv'
  BY <1>1 DEF OrderInv, LineOrder, ReadOrder, Handed, SentBy, Before, ByteOf
<1>3. \A i, n, p : Rest(i, n, p)' = Rest(i, n, p)
  BY <1>1 DEF Rest, Due, Total, ByteOf
<1>4. Torn' \subseteq Torn
  BY <1>1, <1>3 DEF Torn, TornAt
<1>5. Whole => Whole'
  BY <1>1, <1>3 DEF Whole, ByteOf
<1>6. Current' <= Current
  BY <1>1, <1>5, CurrentBit DEF Current, InValue
<1>. QED
  BY <1>2, <1>4, <1>6

LEMMA SameKept ==
  ASSUME LinkInv, LinkInv', OrderInv, CreditInv,
         UNCHANGED <<sender, wire, driver, faults, delivery>>
  PROVE Kept
<1>1. UNCHANGED <<sent, last, faults, wrong>>
  BY DEF sender, delivery
<1>2. OrderInv' /\ Torn' \subseteq Torn /\ Current' <= Current
  BY <1>1, SameDebts
<1>3. Debt' <= Debt + 0 /\ Debt \in Nat /\ Debt' \in Nat
  BY <1>2, DebtSame DEF LinkInv
<1>4. faults' - wrong' >= (faults - wrong) + 0
  BY <1>1, Numbers
<1>5. Step
  BY <1>1, StutterStep
<1>. QED
  BY <1>1, <1>2, <1>3, <1>4, <1>5, CreditFrom DEF Kept

(* A byte handled once more is paid for by its fault. *)
LEMMA HandleStaleByteKept ==
  ASSUME LinkInv, LinkInv', OrderInv, CreditInv, HandleStaleByte
  PROVE Kept
<1>1. /\ UNCHANGED <<sender, driver, sent, last, receiving, bits, serialPortByte>>
      /\ ~InValue /\ ~InValue'
  BY DEF HandleStaleByte, sender, driver, InValue
<1>2. serialPortClearFIFO(wire) \/ wire' = wire
  BY DEF HandleStaleByte, handleEvent
<1>3. PICK k \in 0..Len(wire) : Drops(k)
  BY <1>2, ClearDrops
<1>4. OrderInv' /\ Torn' \subseteq Torn
  BY <1>1, <1>3, OrderDropped DEF OrderInv, ReadOrder
<1>5. Current' <= Current
  BY <1>1 DEF Current
<1>6. Debt' <= Debt + 0 /\ Debt \in Nat /\ Debt' \in Nat
  BY <1>4, <1>5, DebtSame DEF LinkInv
<1>7. faults' - wrong' = faults - wrong
  BY Numbers DEF HandleStaleByte, CountFault
<1>8. faults' - wrong' >= (faults - wrong) + 0
  BY <1>7, Numbers
<1>9. Step
  BY <1>1, <1>7, StutterStep
<1>. QED
  BY <1>1, <1>4, <1>6, <1>8, <1>9, CreditFrom DEF Kept

(* A value announced once more may be read from the bytes that follow.     *)
LEMMA AnnounceStaleByteKept ==
  ASSUME LinkInv, LinkInv', OrderInv, CreditInv, AnnounceStaleByte
  PROVE Kept
<1>1. /\ UNCHANGED <<sender, sent, bits, serialPortByte, last, wrong, delivery>>
      /\ wire' = wire /\ CountFault(TRUE)
  BY DEF AnnounceStaleByte, sender, delivery
<1>2. PICK k \in 0..Len(wire) : Drops(k)
  BY <1>1, ClearDrops
<1>3. OrderInv' /\ Torn' \subseteq Torn
  BY <1>1, <1>2, OrderDropped DEF OrderInv, ReadOrder
<1>4. Debt' <= Debt + 1 /\ Debt \in Nat /\ Debt' \in Nat
  BY <1>3, DebtSame DEF LinkInv
<1>5. faults' = faults + 1
  BY <1>1 DEF CountFault
<1>6. faults' - wrong' >= (faults - wrong) + 1
  BY <1>1, <1>5, Numbers
<1>7. Step
  BY <1>1, <1>5, FaultStep
<1>. QED
  BY <1>1, <1>3, <1>4, <1>6, <1>7, CreditFrom DEF Kept

(* A clear in the middle of a value is a fault; elsewhere it only loses    *)
(* messages.                                                               *)
LEMMA ClearAnyTimeKept ==
  ASSUME LinkInv, LinkInv', OrderInv, CreditInv, ClearAnyTime,
         UNCHANGED <<sender, driver, delivery>>
  PROVE Kept
<1>1. UNCHANGED <<sent, last, wrong, receiving, bits, serialPortByte>>
  BY DEF sender, driver, delivery
<1> DEFINE happened == InValue /\ wire' # wire
<1>2. serialPortClearFIFO(wire) /\ CountFault(happened)
  BY DEF ClearAnyTime
<1>3. PICK k \in 0..Len(wire) : Drops(k)
  BY <1>2, ClearDrops
<1>4. OrderInv' /\ Torn' \subseteq Torn
  BY <1>1, <1>3, OrderDropped DEF OrderInv, ReadOrder
<1>5. Debt' <= Debt + 1 /\ Debt \in Nat /\ Debt' \in Nat
  BY <1>4, DebtSame DEF LinkInv
<1>6. Step
  BY <1>1, <1>2, CountedStep
<1>7. CASE happened
  <2>1. faults' = faults + 1
    BY <1>2, <1>7 DEF CountFault
  <2>2. faults' - wrong' >= (faults - wrong) + 1
    BY <1>1, <2>1, Numbers
  <2>. QED
    BY <1>1, <1>4, <1>5, <1>6, <2>2, CreditFrom DEF Kept
<1>8. CASE ~happened
  <2>1. Current' <= Current
    <3>1. CASE ~InValue
      BY <1>1, <3>1 DEF Current, InValue
    <3>2. CASE wire' = wire
      BY <1>1, <3>2, SameDebts
    <3>. QED
      BY <1>8, <3>1, <3>2
  <2>2. Debt' <= Debt + 0
    BY <1>4, <1>5, <2>1, DebtSame DEF LinkInv
  <2>3. faults' = faults
    BY <1>2, <1>8, Numbers DEF CountFault
  <2>4. faults' - wrong' >= (faults - wrong) + 0
    BY <1>1, <2>3, Numbers
  <2>. QED
    BY <1>1, <1>4, <1>5, <1>6, <2>2, <2>4, CreditFrom DEF Kept
<1>. QED
  BY <1>7, <1>8

-----------------------------------------------------------------------------
(* No byte has a place its message has not. *)
PartInv == \A i \in 1..Len(wire) : wire[i].part < Total(sent[wire[i].msg])

(* Where the bytes on the line come from. *)
LEMMA FromLine ==
  ASSUME LinkInv, [Next]_vars
  PROVE \A i \in 1..Len(wire') :
          \/ \E j \in 1..Len(wire) : wire'[i] = wire[j]
          \/ SendByte /\ wire'[i] = NextByte
<1> DEFINE Goal == \A i \in 1..Len(wire') :
                     \/ \E j \in 1..Len(wire) : wire'[i] = wire[j]
                     \/ SendByte /\ wire'[i] = NextByte
<1>. SUFFICES Goal
  OBVIOUS
<1>1. wire \in Seq(Tagged) /\ Len(wire) \in Nat
  BY Numbers DEF LinkInv, LineOK
<1>2. ASSUME wire' = wire PROVE Goal
  BY <1>2
<1>3. ASSUME NEW k \in 0..Len(wire), Drops(k) PROVE Goal
  <2>1. \A i \in 1..Len(wire') : i + k \in 1..Len(wire) /\ wire'[i] = wire[i + k]
    BY <1>1, <1>3 DEF Drops
  <2>. QED
    BY <2>1
<1>4. CASE SendByte
  <2>1. CASE wire' = wire
    BY <1>2, <2>1
  <2>2. CASE wire' = Append(wire, NextByte)
    <3>1. \A i \in 1..Len(wire') : i \in 1..Len(wire) \/ i = Len(wire) + 1
      <4>. HIDE DEF Tagged, NextByte
      <4>. QED
        BY <1>1, <2>2
    <3>2. /\ \A i \in 1..Len(wire) : wire'[i] = wire[i]
          /\ wire'[Len(wire) + 1] = NextByte
      <4>. HIDE DEF Tagged, NextByte
      <4>. QED
        BY <1>1, <2>2
    <3>. QED
      BY <1>4, <3>1, <3>2
  <2>. QED
    BY <1>4, <2>1, <2>2 DEF SendByte
<1>5. CASE ClearTransmitter
  <2>1. wire' = SubSeq(wire, 1, Len(wire) - 1) /\ wire # <<>>
    BY <1>5 DEF ClearTransmitter, Front
  <2>2. Len(wire) - 1 \in 0..Len(wire)
    BY <1>1, <2>1
  <2>3. ASSUME NEW k \in 0..Len(wire), wire' = SubSeq(wire, 1, k)
        PROVE \A i \in 1..Len(wire') : i \in 1..Len(wire) /\ wire'[i] = wire[i]
    <3>. HIDE DEF Tagged
    <3>. QED
      BY <1>1, <2>3
  <2>. QED
    BY <2>1, <2>2, <2>3
<1>6. CASE ReadByte
  <2>1. serialPortClearFIFO(Tail(wire)) \/ wire' = Tail(wire)
    BY <1>6 DEF ReadByte, readTyped, readEvent, handleEvent
  <2>2. PICK k \in 1..Len(wire) : Drops(k)
    BY <1>6, <2>1, ReadDrops DEF ReadByte
  <2>3. k \in 0..Len(wire)
    BY <1>1
  <2>. QED
    BY <1>3, <2>2, <2>3
<1>7. CASE HandleStaleByte \/ AckLate \/ EnterRace
  <2>1. serialPortClearFIFO(wire) \/ wire' = wire
    BY <1>7 DEF HandleStaleByte, handleEvent, AckLate, EnterRace, ClearAnyTime
  <2>. QED
    BY <1>3, <2>1, ClearDrops
<1>8. ASSUME \/ \E m : Call(m)
             \/ GiveUp \/ AnnounceStaleByte \/ AwaitAck \/ LeaveRace \/ UNCHANGED vars
      PROVE Goal
  <2>1. wire' = wire
    BY <1>8 DEF Call, GiveUp, AnnounceStaleByte, AwaitAck, LeaveRace, vars
  <2>. QED
    BY <1>2, <2>1
<1>. QED
  BY <1>4, <1>5, <1>6, <1>7, <1>8 DEF Next

LEMMA PartNext ==
  ASSUME LinkInv, LinkInv', OrderInv, OrderInv', PartInv, [Next]_vars
  PROVE PartInv'
<1>. SUFFICES ASSUME NEW i \in 1..Len(wire')
              PROVE wire'[i].part < Total(sent'[wire'[i].msg])
  BY DEF PartInv, Total
<1>1. \A n \in 1..Len(sent) : sent'[n] = sent[n]
  <2>1. ASSUME NEW m, Call(m) PROVE \A n \in 1..Len(sent) : sent'[n] = sent[n]
    <3>1. sent \in Seq(Message) /\ sent' = Append(sent, m)
      BY <2>1 DEF Call, LinkInv, LineOK
    <3>. HIDE DEF Message
    <3>. QED
      BY <3>1
  <2>2. (\E m : Call(m)) \/ sent' = sent
    BY DEF Next, SendByte, GiveUp, ClearTransmitter, ReadByte, HandleStaleByte, AckLate,
           EnterRace, AnnounceStaleByte, AwaitAck, LeaveRace, vars, sender
  <2>. QED
    BY <2>1, <2>2
<1>2. CASE \E j \in 1..Len(wire) : wire'[i] = wire[j]
  BY <1>1, <1>2 DEF PartInv, OrderInv, LineOrder
<1>3. CASE SendByte /\ wire'[i] = NextByte
  <2>1. /\ sending /\ sent # <<>> /\ out < Total(sent[Len(sent)]) /\ sent' = sent
    BY <1>3 DEF SendByte, LinkInv, LineOK
  <2>2. NextByte.msg = Len(sent) /\ NextByte.part = out
    BY DEF NextByte
  <2>. QED
    BY <1>3, <2>1, <2>2
<1>. QED
  BY <1>2, <1>3, FromLine
-----------------------------------------------------------------------------
(* The receiver reads a byte. *)

(* The byte at the head of the line. *)
LEMMA FirstByte ==
  ASSUME LinkInv, OrderInv, Interrupted
  PROVE LET b == Head(wire)
        IN /\ 1 \in 1..Len(wire) /\ b = wire[1] /\ b \in Tagged
           /\ b.msg \in 1..Len(sent) /\ b.part \in Nat /\ b = ByteOf(b.msg, b.part)
           /\ Handed(b) /\ Before(serialPortByte, b)
           /\ last <= serialPortByte.msg /\ serialPortByte.msg <= b.msg
           /\ wire' = Tail(wire) => Drops(1)
<1>1. /\ wire \in Seq(Tagged) /\ wire # <<>> /\ Len(wire) \in Nat \ {0}
      /\ Head(wire) = wire[1] /\ Tail(wire) \in Seq(Tagged)
      /\ Len(Tail(wire)) = Len(wire) - 1
      /\ \A i \in 1..Len(Tail(wire)) : Tail(wire)[i] = wire[i + 1]
  BY DEF LinkInv, LineOK, Interrupted
<1>2. 1 \in 1..Len(wire)
  BY <1>1
<1>3. wire' = Tail(wire) => Drops(1)
  BY <1>1 DEF Drops
<1>4. /\ wire[1] \in Tagged /\ wire[1].msg \in 1..Len(sent)
      /\ wire[1] = ByteOf(wire[1].msg, wire[1].part) /\ Handed(wire[1])
      /\ Before(serialPortByte, wire[1]) /\ last <= serialPortByte.msg
  BY <1>2, Numbers DEF OrderInv, LineOrder, ReadOrder
<1>5. wire[1].part \in Nat /\ serialPortByte.msg \in Nat /\ wire[1].msg \in Nat
  BY <1>4, Numbers
<1>6. serialPortByte.msg <= wire[1].msg
  BY <1>4, <1>5 DEF Before
<1>. QED
  BY <1>1, <1>2, <1>3, <1>4, <1>5, <1>6
(* The next byte of a value that has all its bytes so far is at the head   *)
(* of the line.                                                            *)
LEMMA NextOfWhole ==
  ASSUME LinkInv, OrderInv, Interrupted, InValue, Whole
  PROVE LET n == serialPortByte.msg
            p == Len(bits) + 1
        IN /\ p \in Nat \ {0} /\ p <= Due(n) - 1
           /\ Head(wire) = ByteOf(n, p)
           /\ \A r \in Nat : r = p + 1 => Rest(1, n, r)
<1> DEFINE n == serialPortByte.msg
           p == Len(bits) + 1
           b == Head(wire)
<1>1. /\ 1 \in 1..Len(wire) /\ b = wire[1] /\ Len(wire) \in Nat /\ Len(wire) > 0
      /\ b.msg \in 1..Len(sent) /\ b.part \in Nat /\ Handed(b)
  BY FirstByte, Numbers
<1>2. /\ n \in 1..Len(sent) /\ receiving = sent[n].code /\ Rest(0, n, p)
      /\ serialPortByte.part = p - 1 /\ p \in Nat \ {0} /\ Len(bits) \in Nat
  BY Numbers DEF Whole
<1>3. Due(n) \in Int /\ out \in Nat /\ Len(sent) \in Nat
  BY Numbers DEF Due
<1>4. p <= Due(n) - 1
  <2>1. CASE n = Len(sent) /\ sending
    <3>1. Anchor(0, n, p) /\ 0 \in Nat
      BY <1>2 DEF Anchor
    <3>2. p <= out /\ 0 + (out - p) = Len(wire)
      <4>1. \A i \in Nat, q \in Nat \ {0} :
              Anchor(i, Len(sent), q) /\ Rest(i, Len(sent), q) => q <= out /\
              i + (out - q) = Len(wire)
        BY <2>1, AtEnd
      <4>. HIDE DEF p
      <4>. QED
        BY <1>2, <2>1, <3>1, <4>1
    <3>3. Due(n) = out
      BY <2>1 DEF Due
    <3>. QED
      BY <1>1, <1>2, <1>3, <3>2, <3>3
  <2>2. CASE ~(n = Len(sent) /\ sending)
    <3>1. Due(n) = 1 + Width(receiving)
      BY <1>2, <2>2 DEF Due, Total, InValue
    <3>2. Len(bits) < Width(receiving) /\ Width(receiving) \in Nat
      BY CodeFacts DEF LinkInv, DriverOK
    <3>. QED
      BY <1>2, <3>1, <3>2
  <2>. QED
    BY <2>1, <2>2
<1>5. b = ByteOf(n, p)
  <2>1. p \in p..(Due(n) - 1) /\ 0 + (p - p) + 1 = 1
    BY <1>2, <1>3, <1>4
  <2>2. wire[0 + (p - p) + 1] = ByteOf(n, p)
    BY <1>2, <2>1 DEF Rest
  <2>. QED
    BY <1>1, <2>1, <2>2
<1>6. ASSUME NEW r \in Nat, r = p + 1 PROVE Rest(1, n, r)
  <2>1. \A q \in r..(Due(n) - 1) : q \in p..(Due(n) - 1) /\ 1 + (q - r) + 1 = 0 + (q - p) + 1
    BY <1>2, <1>3, <1>6
  <2>. HIDE DEF p, n
  <2>. QED
    BY <1>2, <2>1 DEF Rest
<1>. QED
  BY <1>2, <1>4, <1>5, <1>6

(* A byte in the middle of a value. *)
LEMMA MiddleByteKept ==
  ASSUME LinkInv, LinkInv', OrderInv, CreditInv, ReadByte, InValue,
         ~Full(Append(bits, Head(wire)))
  PROVE Kept
<1> DEFINE b == Head(wire)
           n == serialPortByte.msg
           p == Len(bits) + 1
<1>1. /\ Interrupted /\ UNCHANGED <<sender, sent, faults>>
      /\ readTyped(b, Tail(wire))
  BY DEF ReadByte, sender
<1>2. /\ serialPortByte' = b /\ bits' = Append(bits, b) /\ receiving' = receiving
      /\ wire' = Tail(wire) /\ UNCHANGED <<last, wrong>>
  BY <1>1 DEF readTyped, BitsAfter, delivery
<1>3. /\ 1 \in 0..Len(wire) /\ Drops(1) /\ b = wire[1] /\ b \in Tagged
      /\ last <= serialPortByte.msg /\ serialPortByte.msg <= b.msg
      /\ serialPortByte.msg \in Nat /\ b.msg \in Nat /\ last \in Nat
  BY <1>1, <1>2, FirstByte, Numbers
<1>4. /\ Len(bits') = p /\ p \in Nat /\ bits'[p] = b
      /\ \A q \in 1..Len(bits) : bits'[q] = bits[q]
      /\ \A q \in 1..p : q \in 1..Len(bits) \/ q = p
  <2>1. bits \in Seq(Tagged) /\ b \in Tagged /\ Len(bits) \in Nat
    BY <1>3 DEF LinkInv, DriverOK
  <2>. HIDE DEF Tagged, b
  <2>. QED
    BY <1>2, <2>1
<1>5. OrderInv' /\ Torn' \subseteq Torn
  <2>1. \A q \in 1..Len(bits') : bits'[q].msg <= serialPortByte'.msg
    BY <1>2, <1>3, <1>4, ReadBehind
  <2>2. last' <= serialPortByte'.msg
    BY <1>2, <1>3
  <2>. QED
    BY <1>1, <1>2, <1>3, <2>1, <2>2, OrderDropped
<1>6. ASSUME Whole PROVE Whole'
  <2>1. /\ b = ByteOf(n, p) /\ \A r \in Nat : r = p + 1 => Rest(1, n, r)
    BY <1>1, <1>6, NextOfWhole
  <2>2. /\ n \in 1..Len(sent) /\ last < n /\ receiving = sent[n].code
        /\ \A q \in 1..Len(bits) : bits[q] = ByteOf(n, q)
    BY <1>6 DEF Whole
  <2>3. PICK m \in 1..Len(sent), r \in Nat : m = n /\ r = p + 1
    BY <1>4, <2>2
  <2>4. Rest(0 + 1, m, r)
    BY <2>1, <2>3
  <2>5. Rest(0, m, r)'
    BY <1>1, <1>3, <2>4, Dropped DEF OrderInv, Drops
  <2>6. m = serialPortByte'.msg /\ r = Len(bits') + 1 /\ serialPortByte'.part = p
    BY <1>2, <1>4, <2>1, <2>3 DEF ByteOf
  <2>7. Rest(0, serialPortByte.msg, Len(bits) + 1)'
    BY <2>5, <2>6
  <2>8. \A q \in 1..Len(bits') : bits'[q] = ByteOf(n, q)
    BY <1>4, <2>1, <2>2
  <2>. QED
    BY <1>1, <1>2, <1>4, <2>2, <2>3, <2>6, <2>7, <2>8 DEF Whole, ByteOf
<1>7. Current' <= Current
  BY <1>2, <1>6, CurrentBit DEF Current, InValue
<1>8. Debt' <= Debt + 0 /\ Debt \in Nat /\ Debt' \in Nat
  BY <1>5, <1>7, DebtSame DEF LinkInv
<1>9. faults' - wrong' >= (faults - wrong) + 0
  BY <1>1, <1>2, Numbers
<1>10. Step
  BY <1>1, <1>2, StutterStep
<1>. QED
  BY <1>1, <1>5, <1>8, <1>9, <1>10, CreditFrom DEF Kept
(* A value that has all its bytes is recognised as such. *)
LEMMA ValueIsMessage ==
  ASSUME LinkInv, InValue, NEW b \in Tagged, NEW n \in 1..Len(sent),
         receiving = sent[n].code, Full(Append(bits, b)),
         \A q \in 1..Len(bits) : bits[q] = ByteOf(n, q), b = ByteOf(n, Len(bits) + 1)
  PROVE MessageIn(Append(bits, b)) = n /\ Total(sent[n]) = Len(bits) + 2
<1> DEFINE bytes == Append(bits, b)
           p == Len(bits) + 1
<1>1. p \in Nat \ {0}
  BY Numbers
<1>2. /\ bytes \in Seq(Tagged) /\ Len(bytes) = p /\ bytes[p] = b /\ Head(bytes) = bytes[1]
      /\ \A q \in 1..Len(bits) : bytes[q] = bits[q]
      /\ \A q \in 1..p : q \in 1..Len(bits) \/ q = p
  <2>1. bits \in Seq(Tagged) /\ Len(bits) \in Nat
    BY DEF LinkInv, DriverOK
  <2>. HIDE DEF Tagged
  <2>. QED
    BY <2>1
<1>3. \A q \in 1..p : bytes[q] = ByteOf(n, q)
  BY <1>2
<1>4. \A q \in 1..p : ByteOf(n, q) = [byte |-> sent[n].fill, msg |-> n, part |-> q]
  BY <1>1 DEF ByteOf
<1>5. Total(sent[n]) - 1 = p /\ Total(sent[n]) = Len(bits) + 2
  <2>1. /\ Len(bits) < Width(receiving) /\ Len(bytes) >= Width(receiving)
        /\ Width(receiving) \in Nat /\ Len(bits) \in Nat
    BY CodeFacts, Numbers DEF LinkInv, DriverOK, Full
  <2>2. Total(sent[n]) = 1 + Width(receiving)
    BY DEF Total, InValue
  <2>. QED
    BY <1>2, <2>1, <2>2
<1>6. Head(bytes).msg = n
  <2>1. 1 \in 1..p
    BY <1>1
  <2>2. Head(bytes) = bytes[1] /\ bytes[1] = ByteOf(n, 1)
    BY <1>2, <1>3, <2>1
  <2>3. ByteOf(n, 1).msg = n
    BY DEF ByteOf
  <2>. HIDE DEF bytes
  <2>. QED
    BY <2>2, <2>3
<1>7. bytes = [q \in 1..p |-> bytes[q]]
  <2>. HIDE DEF bytes, Tagged
  <2>. QED
    BY <1>2
<1>8. bytes = [q \in 1..(Total(sent[n]) - 1) |->
                 [byte |-> sent[n].fill, msg |-> n, part |-> q]]
  <2>1. [q \in 1..p |-> bytes[q]] = [q \in 1..p |-> [byte |-> sent[n].fill, msg |-> n,
        part |-> q]]
    BY <1>3, <1>4
  <2>. QED
    BY <1>5, <1>7, <2>1
<1>. HIDE DEF bytes
<1>. QED
  BY <1>5, <1>6, <1>8 DEF MessageIn, bytes

LEMMA WholeIsMessage ==
  ASSUME LinkInv, OrderInv, Interrupted, InValue, Whole, Full(Append(bits, Head(wire)))
  PROVE MessageIn(Append(bits, Head(wire))) = serialPortByte.msg
<1>1. Head(wire) = ByteOf(serialPortByte.msg, Len(bits) + 1) /\ Head(wire) \in Tagged
  BY NextOfWhole, FirstByte
<1>. QED
  BY <1>1, ValueIsMessage DEF Whole

(* The last byte of a value: a debt is paid if the value is torn.          *)
LEMMA LastByteKept ==
  ASSUME LinkInv, LinkInv', OrderInv, CreditInv, ReadByte, InValue,
         Full(Append(bits, Head(wire)))
  PROVE Kept
<1> DEFINE b == Head(wire)
           bytes == Append(bits, b)
           m == MessageIn(bytes)
<1>1. /\ Interrupted /\ UNCHANGED <<sender, sent, faults>>
      /\ readTyped(b, Tail(wire))
  BY DEF ReadByte, sender
<1>2. /\ serialPortByte' = b /\ bits' = <<>> /\ receiving' = INFO_ACK
      /\ Delivered(m) /\ serialPortClearFIFO(Tail(wire))
  BY <1>1 DEF readTyped, BitsAfter
<1>3. /\ b = wire[1] /\ b \in Tagged /\ b.msg \in 1..Len(sent)
      /\ last <= b.msg /\ serialPortByte.msg <= b.msg /\ Len(sent) \in Nat
      /\ last \in Nat /\ faults \in Nat /\ wrong \in Nat
  <2>1. /\ b = wire[1] /\ b \in Tagged /\ b.msg \in 1..Len(sent)
        /\ last <= serialPortByte.msg /\ serialPortByte.msg <= b.msg
    BY <1>1, FirstByte
  <2>2. b.msg \in Nat /\ serialPortByte.msg \in Nat /\ last \in Nat
    BY <2>1, Numbers
  <2>. HIDE DEF b
  <2>. QED
    BY <2>1, <2>2, Numbers
<1>4. PICK k \in 1..Len(wire) : Drops(k)
  BY <1>1, <1>2, ReadDrops
<1>5. m \in 0..b.msg
  <2>1. m \in {Head(bytes).msg, 0}
    <3>. HIDE DEF bytes
    <3>. QED
      BY Zenon DEF MessageIn, m
  <2>2. Head(bytes) = b \/ \E q \in 1..Len(bits) : Head(bytes) = bits[q]
    <3>1. bits \in Seq(Tagged) /\ b \in Tagged /\ Len(bits) \in Nat
      BY <1>3 DEF LinkInv, DriverOK
    <3>. HIDE DEF Tagged, b
    <3>2. /\ Head(bytes) = bytes[1]
          /\ Len(bits) = 0 => bytes[1] = b
          /\ Len(bits) # 0 => 1 \in 1..Len(bits) /\ bytes[1] = bits[1]
      BY <3>1
    <3>. QED
      BY <3>2
  <2>3. \A q \in 1..Len(bits) : bits[q].msg \in 0..b.msg
    BY <1>3, ReadBehind
  <2>4. Head(bytes).msg \in 0..b.msg
    <3>1. b.msg \in 0..b.msg
      BY <1>3
    <3>. HIDE DEF bytes, b
    <3>. QED
      BY <2>2, <2>3, <3>1
  <2>5. 0 \in 0..b.msg
    BY <1>3
  <2>. HIDE DEF m, bytes, b
  <2>. QED
    BY <2>1, <2>4, <2>5
<1>. HIDE DEF m
<1>6. OrderInv' /\ Torn' \subseteq Torn
  <2>1. last' <= b.msg
    BY <1>2, <1>3, <1>5 DEF Delivered
  <2>2. k \in 0..Len(wire) /\ k > 0
    BY Numbers
  <2>. QED
    BY <1>1, <1>2, <1>3, <1>4, <2>1, <2>2, OrderDropped
<1>7. Current' = 0
  BY <1>2, CodeFacts DEF Current, InValue
<1>8. Debt \in Nat /\ Debt' \in Nat
  BY <1>6, DebtSame DEF LinkInv
<1>9. m \in 0..Len(sent)
  BY <1>3, <1>5
<1>10. CASE Whole
  <2>1. m = serialPortByte.msg /\ m > last
    <3>1. m = serialPortByte.msg
      BY <1>1, <1>10, WholeIsMessage DEF m
    <3>2. serialPortByte.msg \in Nat /\ last < serialPortByte.msg
      BY <1>10, Numbers DEF Whole
    <3>. QED
      BY <1>3, <3>1, <3>2
  <2>2. wrong' = wrong
    BY <1>2, <2>1 DEF Delivered
  <2>3. Debt' <= Debt + 0
    <3>1. Current' <= Current
      BY <1>7, CurrentBit
    <3>. QED
      BY <1>6, <1>8, <3>1, DebtSame DEF LinkInv
  <2>4. faults' - wrong' >= (faults - wrong) + 0
    BY <1>1, <1>3, <2>2
  <2>5. Step
    BY <1>1, <1>2, <1>9, <2>1, DeliveredStep
  <2>. QED
    BY <1>1, <1>6, <1>8, <2>3, <2>4, <2>5, CreditFrom DEF Kept
<1>11. CASE ~Whole
  <2>1. Current = 1
    BY <1>11 DEF Current
  <2>2. Debt' <= Debt - 1
    BY <1>6, <1>7, <2>1, DebtSame DEF LinkInv
  <2>3. wrong' <= wrong + 1 /\ wrong' \in Nat
    <3>1. wrong' \in Nat
      BY DEF LinkInv, RestOK
    <3>2. wrong' = wrong \/ wrong' = wrong + 1
      BY <1>2 DEF Delivered
    <3>. QED
      BY <1>3, <3>1, <3>2
  <2>4. faults' - wrong' >= (faults - wrong) + (-1)
    <3>1. faults' = faults
      BY <1>1
    <3>2. \A f, x, y \in Int : y <= x + 1 => f - y >= (f - x) + (-1)
      OBVIOUS
    <3>3. faults \in Int /\ wrong \in Int /\ wrong' \in Int
      BY <1>3, <2>3
    <3>. QED
      BY <2>3, <3>1, <3>2, <3>3
  <2>5. Debt' <= Debt + (-1) /\ -1 \in Int /\ Debt >= 1
    BY <1>8, <2>2
  <2>6. Clean => faults - wrong > 0
    <3>1. Clean => Debt <= faults - wrong
      BY DEF CreditInv
    <3>2. \A x, y \in Int : x >= 1 /\ x <= y => y > 0
      OBVIOUS
    <3>3. Debt \in Int /\ faults - wrong \in Int
      BY <1>3, <1>8
    <3>. QED
      BY <2>5, <3>1, <3>2, <3>3
  <2>7. Step
    BY <1>1, <1>2, <1>9, <2>6, DeliveredStep
  <2>. QED
    BY <1>1, <1>6, <1>8, <2>4, <2>5, <2>7, CreditFrom DEF Kept
<1>. QED
  BY <1>10, <1>11
(* Where no value has a code among its bytes, a code is the first byte of  *)
(* its message, and of one not delivered yet.                              *)
LEMMA CodeComesFirst ==
  ASSUME LinkInv, OrderInv, PartInv, Interrupted, Clean,
         Head(wire).byte \in TypedCodes \cup EventCodes
  PROVE LET b == Head(wire)
        IN b.part = 0 /\ b.byte = sent[b.msg].code /\ last < b.msg
<1> DEFINE b == Head(wire)
           n == b.msg
<1>1. /\ 1 \in 1..Len(wire) /\ b = wire[1] /\ n \in 1..Len(sent) /\ b.part \in Nat
      /\ b = ByteOf(n, b.part) /\ Before(serialPortByte, b) /\ last <= serialPortByte.msg
  BY FirstByte
<1>2. b.part < Total(sent[n])
  BY <1>1 DEF PartInv
<1>3. ASSUME b.part # 0 PROVE FALSE
  <2>1. sent[n].code \in TypedCodes
    BY <1>1, <1>2, <1>3 DEF Total
  <2>2. b.byte = sent[n].fill
    BY <1>1, <1>3 DEF ByteOf
  <2>3. ~Coded(sent[n])
    BY <1>1, Numbers DEF Clean
  <2>. QED
    BY <2>1, <2>2, <2>3 DEF Coded
<1>4. b.byte = sent[n].code
  BY <1>1, <1>3 DEF ByteOf
<1>5. serialPortByte.msg < n
  BY <1>1, <1>3, Numbers DEF Before
<1>6. last \in Nat /\ serialPortByte.msg \in Nat /\ n \in Nat
  BY <1>1, Numbers
<1>. HIDE DEF b
<1>. QED
  BY <1>1, <1>3, <1>4, <1>5, <1>6 DEF b

(* The announcement of a value: a debt on the line becomes the current one.*)
LEMMA AnnouncementKept ==
  ASSUME LinkInv, LinkInv', OrderInv, PartInv, CreditInv, ReadByte, ~InValue,
         AnnouncesValue(Head(wire).byte)
  PROVE Kept
<1> DEFINE b == Head(wire)
           n == b.msg
<1>1. /\ Interrupted /\ UNCHANGED <<sender, sent, faults>>
      /\ readEvent(b, Tail(wire))
  BY DEF ReadByte, sender
<1>2. /\ serialPortByte' = b /\ bits' = <<>> /\ bits = <<>> /\ receiving' = b.byte
      /\ wire' = Tail(wire) /\ UNCHANGED <<last, wrong>> /\ b.byte \in TypedCodes
  BY <1>1 DEF readEvent, AnnouncesValue, delivery, LinkInv, DriverOK
<1>3. /\ 1 \in 1..Len(wire) /\ Drops(1) /\ b = wire[1] /\ n \in 1..Len(sent)
      /\ last <= n
  <2>1. /\ 1 \in 1..Len(wire) /\ Drops(1) /\ b = wire[1] /\ n \in 1..Len(sent)
        /\ last <= serialPortByte.msg /\ serialPortByte.msg <= n
    BY <1>1, <1>2, FirstByte
  <2>2. n \in Nat /\ serialPortByte.msg \in Nat /\ last \in Nat
    BY <2>1, Numbers
  <2>. HIDE DEF b
  <2>. QED
    BY <2>1, <2>2
<1>4. OrderInv' /\ Torn' \subseteq Torn
  <2>1. 1 \in 0..Len(wire) /\ 1 > 0
    BY <1>3, Numbers
  <2>2. /\ \A q \in 1..Len(bits') : bits'[q].msg <= serialPortByte'.msg
        /\ last' <= serialPortByte'.msg
    BY <1>2, <1>3
  <2>. QED
    BY <1>1, <1>2, <1>3, <2>1, <2>2, OrderDropped
<1>5. Debt \in Nat /\ Debt' \in Nat
  BY <1>4, DebtSame DEF LinkInv
<1>6. ASSUME Clean PROVE Debt' <= Debt + 0
  <2>1. b.part = 0 /\ b.byte = sent[n].code /\ last < n
    BY <1>1, <1>2, <1>6, CodeComesFirst
  <2>2. Current = 0
    BY DEF Current
  <2>3. CASE Rest(1, n, 1)
    <3>1. Rest(0 + 1, n, 1)
      BY <2>3
    <3>2. PICK m \in 1..Len(sent), r \in Nat : m = n /\ r = 1
      BY <1>3
    <3>3. Rest(0, m, r)'
      <4>1. Rest(0 + 1, m, r)
        BY <3>1, <3>2
      <4>. QED
        BY <1>1, <1>3, <3>2, <4>1, Dropped, Numbers DEF OrderInv, Drops
    <3>4. m = serialPortByte'.msg /\ r = Len(bits') + 1
      BY <1>2, <3>2
    <3>5. Rest(0, serialPortByte.msg, Len(bits) + 1)'
      BY <3>3, <3>4
    <3>6. Whole'
      BY <1>1, <1>2, <1>3, <2>1, <3>5 DEF Whole
    <3>7. Current' <= Current
      BY <2>2, <3>6 DEF Current
    <3>. QED
      BY <1>4, <1>5, <3>7, DebtSame DEF LinkInv
  <2>4. CASE ~Rest(1, n, 1)
    <3>1. n \in Torn
      BY <1>2, <1>3, <2>1, <2>4 DEF Torn, TornAt
    <3>2. n \notin Torn'
      <4>. SUFFICES ASSUME NEW i \in 1..Len(wire'), wire'[i].msg = n, wire'[i].part = 0
                    PROVE FALSE
        BY DEF Torn, TornAt
      <4>1. i + 1 \in 1..Len(wire) /\ 1 < i + 1 /\ wire'[i] = wire[i + 1]
        BY <1>3, Numbers DEF Drops
      <4>2. Before(wire[1], wire[i + 1])
        BY <1>3, <4>1 DEF OrderInv, LineOrder
      <4>3. n \in Nat
        BY <1>3, Numbers
      <4>. QED
        BY <1>3, <2>1, <4>1, <4>2, <4>3 DEF Before
    <3>3. Torn' \subseteq Torn \ {n}
      BY <1>4, <3>2
    <3>4. Debt' <= Debt
      BY <2>2, <3>1, <3>3, DebtMoved DEF LinkInv
    <3>. QED
      BY <1>5, <3>4
  <2>. QED
    BY <2>3, <2>4
<1>7. faults' - wrong' >= (faults - wrong) + 0
  BY <1>1, <1>2, Numbers
<1>8. Step
  BY <1>1, <1>2, StutterStep
<1>. QED
  BY <1>1, <1>4, <1>5, <1>6, <1>7, <1>8, CreditFrom DEF Kept

(* Any other byte outside a value: an event is delivered, the rest is not. *)
LEMMA EventByteKept ==
  ASSUME LinkInv, LinkInv', OrderInv, PartInv, CreditInv, ReadByte, ~InValue,
         ~AnnouncesValue(Head(wire).byte)
  PROVE Kept
<1> DEFINE b == Head(wire)
           n == b.msg
<1>1. /\ Interrupted /\ UNCHANGED <<sender, sent, faults>>
      /\ readEvent(b, Tail(wire))
  BY DEF ReadByte, sender
<1>2. /\ serialPortByte' = b /\ bits' = <<>> /\ receiving' = receiving
      /\ serialPortClearFIFO(Tail(wire)) \/ wire' = Tail(wire)
      /\ IF b.byte \in EventCodes THEN Delivered(n) ELSE UNCHANGED delivery
  BY <1>1 DEF readEvent, handleEvent, LinkInv, DriverOK
<1>3. /\ 1 \in 1..Len(wire) /\ b = wire[1] /\ n \in 1..Len(sent)
      /\ last <= n /\ n \in Nat /\ last \in Nat /\ wrong \in Nat /\ faults \in Nat
  <2>1. /\ 1 \in 1..Len(wire) /\ b = wire[1] /\ n \in 1..Len(sent)
        /\ last <= serialPortByte.msg /\ serialPortByte.msg <= n
    BY <1>1, FirstByte
  <2>2. n \in Nat /\ serialPortByte.msg \in Nat /\ last \in Nat
    BY <2>1, Numbers
  <2>. HIDE DEF b
  <2>. QED
    BY <2>1, <2>2, Numbers
<1>4. PICK k \in 1..Len(wire) : Drops(k)
  BY <1>1, <1>2, ReadDrops
<1>5. OrderInv' /\ Torn' \subseteq Torn
  <2>1. last' <= serialPortByte'.msg
    BY <1>2, <1>3 DEF Delivered, delivery
  <2>2. k \in 0..Len(wire) /\ k > 0
    BY Numbers
  <2>. QED
    BY <1>1, <1>2, <1>3, <1>4, <2>1, <2>2, OrderDropped
<1>6. Debt' <= Debt + 0 /\ Debt \in Nat /\ Debt' \in Nat
  <2>1. Current' <= Current
    BY <1>2 DEF Current, InValue
  <2>. QED
    BY <1>5, <2>1, DebtSame DEF LinkInv
<1>7. CASE b.byte \notin EventCodes
  <2>1. UNCHANGED <<last, wrong>>
    BY <1>2, <1>7 DEF delivery
  <2>2. faults' - wrong' >= (faults - wrong) + 0
    BY <1>1, <1>3, <2>1
  <2>3. Step
    BY <1>1, <2>1, StutterStep
  <2>. QED
    BY <1>1, <1>5, <1>6, <2>2, <2>3, CreditFrom DEF Kept
<1>8. CASE b.byte \in EventCodes
  <2>1. Clean => n > last
    BY <1>1, <1>3, <1>8, CodeComesFirst
  <2>2. Clean => wrong' = wrong
    BY <1>2, <1>8, <2>1 DEF Delivered
  <2>3. Clean => faults' - wrong' >= (faults - wrong) + 0
    BY <1>1, <1>3, <2>2
  <2>4. n \in 0..Len(sent)
    BY <1>3, Numbers
  <2>5. Step
    BY <1>1, <1>2, <1>8, <2>1, <2>4, DeliveredStep
  <2>. QED
    BY <1>1, <1>5, <1>6, <2>3, <2>5, CreditFrom DEF Kept
<1>. QED
  BY <1>7, <1>8

-----------------------------------------------------------------------------
(* The refinement. *)
RefInv == LinkInv /\ OrderInv /\ PartInv /\ CreditInv

LEMMA RefInit == Init => RefInv /\ AbstractChannel!Init
<1>. SUFFICES ASSUME Init PROVE RefInv /\ AbstractChannel!Init
  OBVIOUS
<1>1. LinkInv
  BY LinkInit
<1>2. /\ sent = <<>> /\ wire = <<>> /\ bits = <<>> /\ serialPortByte = NoByte
      /\ receiving = INFO_ACK /\ last = 0 /\ faults = 0 /\ wrong = 0
  BY DEF Init
<1>3. Len(sent) = 0 /\ Len(wire) = 0 /\ Len(bits) = 0 /\ DOMAIN sent = {}
  BY <1>2
<1>4. OrderInv /\ PartInv
  BY <1>2, <1>3 DEF OrderInv, LineOrder, ReadOrder, PartInv, NoByte
<1>5. CreditInv
  <2>1. Torn = {}
    BY <1>3 DEF Torn
  <2>2. Current = 0
    BY <1>2, CodeFacts DEF Current, InValue
  <2>3. Cardinality(Torn) = 0
    BY <2>1, FS_EmptySet
  <2>. HIDE DEF Torn
  <2>4. Debt = 0
    BY <2>2, <2>3 DEF Debt
  <2>. QED
    BY <1>2, <2>4 DEF CreditInv
<1>6. AbstractChannel!Init
  BY <1>2, <1>3 DEF AbstractChannel!Init
<1>. QED
  BY <1>1, <1>4, <1>5, <1>6 DEF RefInv

LEMMA RefNext == RefInv /\ [Next]_vars => RefInv' /\
[AbstractChannel!Next]_(AbstractChannel!vars)
<1>. SUFFICES ASSUME RefInv, [Next]_vars
              PROVE RefInv' /\ [AbstractChannel!Next]_(AbstractChannel!vars)
  OBVIOUS
<1>1. LinkInv /\ LinkInv' /\ OrderInv /\ PartInv /\ CreditInv
  BY LinkNext DEF RefInv
<1>2. Kept
  <2>1. ASSUME NEW code \in Events, Call(Event(code)) PROVE Kept
    <3>1. Event(code) \in Message
      BY LinkAssumption DEF Event, Message, Byte
    <3>. QED
      BY <1>1, <2>1, <3>1, CallKept
  <2>2. ASSUME NEW code \in Types, NEW fill \in Fill, Call(Value(code, fill)) PROVE Kept
    <3>1. Value(code, fill) \in Message
      BY LinkAssumption DEF Value, Message
    <3>. QED
      BY <1>1, <2>2, <3>1, CallKept
  <2>3. CASE SendByte
    BY <1>1, <2>3, SendByteKept
  <2>4. CASE GiveUp
    BY <1>1, <2>4, GiveUpKept
  <2>5. CASE ClearTransmitter
    BY <1>1, <2>5, ClearTransmitterKept
  <2>6. CASE ReadByte
    BY <1>1, <2>6, MiddleByteKept, LastByteKept, AnnouncementKept, EventByteKept
  <2>7. CASE HandleStaleByte
    BY <1>1, <2>7, HandleStaleByteKept
  <2>8. CASE AnnounceStaleByte
    BY <1>1, <2>8, AnnounceStaleByteKept
  <2>9. CASE AckLate \/ EnterRace
    <3>1. ClearAnyTime /\ UNCHANGED <<sender, driver, delivery>>
      BY <2>9 DEF AckLate, EnterRace
    <3>. QED
      BY <1>1, <3>1, ClearAnyTimeKept
  <2>10. CASE AwaitAck \/ LeaveRace \/ UNCHANGED vars
    <3>1. UNCHANGED <<sender, wire, driver, faults, delivery>>
      BY <2>10 DEF AwaitAck, LeaveRace, vars
    <3>. QED
      BY <1>1, <3>1, SameKept
  <2>. QED
    BY <2>1, <2>2, <2>3, <2>4, <2>5, <2>6, <2>7, <2>8, <2>9, <2>10 DEF Next
<1>3. PartInv'
  BY <1>1, <1>2, PartNext DEF Kept
<1>. QED
  BY <1>1, <1>2, <1>3 DEF RefInv, Kept, Step

(* Whatever the line loses and wherever a send or a read fails, messages   *)
(* are delivered whole, at most once and in the order of sending, but for  *)
(* one wrong delivery a fault, unless a value has a code among its bytes.  *)
THEOREM LinkImplementsChannel == Spec => ImplementsChannel
<1>1. Init => AbstractChannel!Init
  BY RefInit
<1>2. Init => RefInv
  BY RefInit
<1>3. RefInv /\ [Next]_vars => RefInv'
  BY RefNext
<1>4. RefInv /\ [Next]_vars => [AbstractChannel!Next]_(AbstractChannel!vars)
  BY RefNext
<1>. QED
  BY <1>1, <1>2, <1>3, <1>4, PTL DEF Spec, ImplementsChannel, AbstractChannel!Spec

-----------------------------------------------------------------------------
(* 3. A line that loses nothing.                                           *)

(***************************************************************************)
(* A line that has lost nothing is framed exactly, also for values whose   *)
(* bytes are codes, which the promise of Channel leaves out.  Exact says   *)
(* that the byte last read and those on the line follow each other without *)
(* a gap, up to the last one handed over, and that the driver reads the    *)
(* message that byte is of.                                                *)
(***************************************************************************)

(* The byte last read, and those on the line behind it.                    *)
At(i) == IF i = 0 THEN serialPortByte ELSE wire[i]

Complete(a) == a.msg = 0 \/ a.part + 1 = Total(sent[a.msg])

Follows(b, a) ==
    IF Complete(a) THEN b.msg = a.msg + 1 /\ b.part = 0
                   ELSE b.msg = a.msg /\ b.part = a.part + 1

(* The next byte to be handed over follows the last one on the line.       *)
EndsLine(a) ==
    IF sending /\ out > 0
    THEN a.msg = Len(sent) /\ a.part = out - 1
    ELSE Complete(a) /\ a.msg = Len(sent) - (IF sending THEN 1 ELSE 0)

NoGap ==
    /\ \A i \in 1..Len(wire) : Follows(At(i), At(i - 1))
    /\ EndsLine(At(Len(wire)))

(* The driver reads the message of the byte it read last.                  *)
Reading ==
    LET n == serialPortByte.msg
    IN IF InValue
       THEN /\ n \in 1..Len(sent) /\ last = n - 1
            /\ receiving = sent[n].code
            /\ serialPortByte.part = Len(bits)
            /\ \A q \in 1..Len(bits) : bits[q] = ByteOf(n, q)
       ELSE Complete(serialPortByte) /\ last = n

Exact == wrong = 0 /\ NoGap /\ Reading

ExactInv == lossless => Exact

-----------------------------------------------------------------------------
(* Inside a value the byte last read is not the last one of its message.   *)
LEMMA NotComplete == ASSUME LinkInv, Reading, InValue PROVE ~Complete(serialPortByte)
<1>1. /\ serialPortByte.msg \in 1..Len(sent) /\ serialPortByte.part = Len(bits)
      /\ Total(sent[serialPortByte.msg]) = 1 + Width(receiving)
  BY DEF Reading, Total, InValue
<1>2. Len(bits) < Width(receiving) /\ Width(receiving) \in Nat /\ Len(bits) \in Nat
  BY CodeFacts, Numbers DEF LinkInv, DriverOK
<1>3. serialPortByte.msg # 0
  BY <1>1
<1>. QED
  BY <1>1, <1>2, <1>3 DEF Complete

(* Nothing the exactness depends on is touched. *)
LEMMA SameExact ==
  ASSUME Exact, UNCHANGED <<sender, wire, driver, delivery>>
  PROVE Exact'
<1>1. UNCHANGED <<sent, out, sending, wire, receiving, bits, serialPortByte, last, wrong>>
  BY DEF sender, driver, delivery
<1>2. NoGap'
  BY <1>1 DEF Exact, NoGap, Follows, EndsLine, Complete, At, Total
<1>3. Reading'
  BY <1>1 DEF Exact, Reading, Complete, InValue, Total, ByteOf
<1>. QED
  BY <1>1, <1>2, <1>3 DEF Exact

LEMMA CallExact ==
  ASSUME LinkInv, OrderInv, Exact, NEW m \in Message, Call(m)
  PROVE Exact'
<1>1. /\ UNCHANGED <<wire, receiving, bits, serialPortByte, last, wrong>>
      /\ ~sending /\ sending' = TRUE /\ sent' = Append(sent, m) /\ out' = 0
  BY DEF Call, driver, delivery
<1>2. Len(sent') = Len(sent) + 1 /\ Len(sent) \in Nat /\
      \A n \in 1..Len(sent) : sent'[n] = sent[n]
  <2>1. sent \in Seq(Message)
    BY DEF LinkInv, LineOK
  <2>. HIDE DEF Message
  <2>. QED
    BY <1>1, <2>1
<1>3. \A i \in 0..Len(wire) : /\ At(i).msg \in 0..Len(sent)
                              /\ Complete(At(i))' = Complete(At(i)) /\ At(i)' = At(i)
  <2>1. \A i \in 0..Len(wire) : At(i).msg \in 0..Len(sent) /\ At(i)' = At(i)
    BY <1>1, <1>2, ReadBehind, Numbers DEF At, OrderInv, LineOrder
  <2>2. \A i \in 0..Len(wire) : At(i).msg # 0 => At(i).msg \in 1..Len(sent)
    BY <1>2, <2>1
  <2>. QED
    BY <1>2, <2>1, <2>2 DEF Complete, Total
<1>4. NoGap'
  <2>1. Len(wire) \in Nat
    BY Numbers
  <2>2. \A i \in 1..Len(wire) : i \in 0..Len(wire) /\ i - 1 \in 0..Len(wire)
    BY <2>1
  <2>3. \A i \in 1..Len(wire') : Follows(At(i), At(i - 1))'
    BY <1>1, <1>3, <2>2 DEF Exact, NoGap, Follows
  <2>4. Complete(At(Len(wire))) /\ At(Len(wire)).msg = Len(sent) /\ Len(wire) \in 0..Len(wire)
    BY <1>1, <1>2, <2>1 DEF Exact, NoGap, EndsLine
  <2>5. EndsLine(At(Len(wire)))'
    BY <1>1, <1>2, <1>3, <2>4 DEF EndsLine
  <2>. QED
    BY <2>3, <2>5 DEF NoGap
<1>5. Reading'
  <2>1. 0 \in 0..Len(wire) /\ At(0) = serialPortByte /\ At(0)' = serialPortByte'
    BY Numbers DEF At
  <2>2. Complete(serialPortByte)' = Complete(serialPortByte)
    BY <1>1, <1>3, <2>1
  <2>3. \A n \in 1..Len(sent) : n \in 1..(Len(sent) + 1)
    BY <1>2
  <2>. QED
    BY <1>1, <1>2, <2>2, <2>3 DEF Exact, Reading, InValue, ByteOf
<1>. QED
  BY <1>1, <1>4, <1>5 DEF Exact

(* The byte handed over follows the last one. *)
LEMMA SendByteExact ==
  ASSUME LinkInv, Exact, SendByte, lossless'
  PROVE Exact'
<1> DEFINE M == Len(sent)
<1>1. PICK L : L = Len(wire)
  OBVIOUS
<1>2. /\ sending /\ UNCHANGED <<sent, receiving, bits, serialPortByte, last, wrong>>
      /\ out' = out + 1 /\ sending' = (out' < Total(Last(sent)))
      /\ wire' = Append(wire, NextByte)
  BY DEF SendByte, driver, delivery
<1>3. /\ M \in Nat \ {0} /\ L \in Nat /\ out \in Nat /\ out < Total(sent[M])
      /\ Total(sent[M]) \in Nat /\ Last(sent) = sent[M]
  <2>1. sent # <<>> /\ sent \in Seq(Message) /\ out < Total(sent[M])
    BY <1>2 DEF LinkInv, LineOK
  <2>2. M # 0
    BY <2>1
  <2>. QED
    BY <1>1, <2>1, <2>2, Numbers DEF Last
<1>4. PICK b \in Tagged : b = NextByte
  BY <1>2, NextByteOK DEF LinkInv
<1>5. b.msg = M /\ b.part = out
  BY <1>4 DEF NextByte
<1>6. /\ Len(wire') = L + 1
      /\ \A i \in 1..L : wire'[i] = wire[i]
      /\ wire'[L + 1] = b
  <2>1. wire \in Seq(Tagged) /\ wire' = Append(wire, b)
    BY <1>2, <1>4 DEF LinkInv, LineOK
  <2>. HIDE DEF Tagged
  <2>. QED
    BY <1>1, <2>1
<1>7. /\ \A i \in 0..L : At(i)' = At(i)
      /\ At(L + 1)' = b
      /\ \A a : Complete(a)' = Complete(a)
  <2>1. /\ \A i \in 0..L : i # 0 => i \in 1..L
        /\ L + 1 # 0
    BY <1>3
  <2>. QED
    BY <1>2, <1>6, <2>1 DEF At, Complete, Total
<1>8. Follows(b, At(L))
  <2>1. EndsLine(At(L))
    BY <1>1 DEF Exact, NoGap
  <2>2. CASE out > 0
    <3>1. At(L).msg = M /\ At(L).part = out - 1
      BY <1>2, <2>1, <2>2 DEF EndsLine
    <3>2. ~Complete(At(L))
      BY <1>3, <3>1 DEF Complete
    <3>. QED
      BY <1>3, <1>5, <3>1, <3>2 DEF Follows
  <2>3. CASE ~(out > 0)
    <3>1. Complete(At(L)) /\ At(L).msg = M - 1 /\ out = 0
      BY <1>2, <1>3, <2>1, <2>3 DEF EndsLine
    <3>. QED
      BY <1>3, <1>5, <3>1 DEF Follows
  <2>. QED
    BY <2>2, <2>3
<1>9. EndsLine(b)'
  <2> DEFINE T == Total(sent[M])
  <2>1. sending' = (out + 1 < T) /\ T \in Nat /\ out < T
    BY <1>2, <1>3
  <2>2. CASE out + 1 < T
    <3>1. sending'
      <4>. HIDE DEF T
      <4>. QED
        BY <2>1, <2>2, Zenon
    <3>. QED
      BY <1>2, <1>3, <1>5, <3>1 DEF EndsLine
  <2>3. CASE ~(out + 1 < T)
    <3>1. ~sending'
      <4>. HIDE DEF T
      <4>. QED
        BY <2>1, <2>3, Zenon
    <3>. QED
      BY <1>2, <1>3, <1>5, <2>1, <2>3, <3>1 DEF EndsLine, Complete, Total
  <2>. QED
    BY <2>2, <2>3
<1>10. NoGap'
  <2>1. \A i \in 1..(L + 1) : (i \in 1..L /\ i \in 0..L /\ i - 1 \in 0..L) \/ i = L + 1
    BY <1>3
  <2>2. \A i \in 1..L : Follows(At(i), At(i - 1))'
    BY <1>1, <1>7, <2>1 DEF Exact, NoGap, Follows
  <2>3. Follows(At(L + 1), At((L + 1) - 1))'
    <3>1. (L + 1) - 1 = L /\ L \in 0..L
      BY <1>3
    <3>. QED
      BY <1>7, <1>8, <3>1 DEF Follows
  <2>4. \A i \in 1..Len(wire') : Follows(At(i), At(i - 1))'
    BY <1>6, <2>1, <2>2, <2>3
  <2>5. EndsLine(At(Len(wire)))'
    <3>1. EndsLine(At(L + 1))'
      BY <1>7, <1>9 DEF EndsLine
    <3>. QED
      BY <1>6, <3>1
  <2>. QED
    BY <2>4, <2>5 DEF NoGap
<1>11. Reading'
  BY <1>2, <1>7 DEF Exact, Reading, InValue, ByteOf, Complete
<1>. QED
  BY <1>2, <1>10, <1>11 DEF Exact

-----------------------------------------------------------------------------
(* A byte read and nothing cleared: the line begins one byte later. *)
LEMMA ReadNoGap ==
  ASSUME LinkInv, OrderInv, NoGap, Interrupted, UNCHANGED sender,
         wire' = Tail(wire), serialPortByte' = Head(wire)
  PROVE NoGap' /\ Follows(Head(wire), serialPortByte)
<1>1. PICK L : L = Len(wire)
  OBVIOUS
<1>2. /\ L \in Nat \ {0} /\ Len(wire') = L - 1 /\ serialPortByte' = wire[1]
      /\ Head(wire) = wire[1]
      /\ \A i \in 1..(L - 1) : wire'[i] = wire[i + 1]
      /\ UNCHANGED <<sent, out, sending>>
  BY <1>1 DEF LinkInv, LineOK, Interrupted, sender
<1>3. /\ \A i \in 0..(L - 1) : At(i)' = At(i + 1)
      /\ \A a : Complete(a)' = Complete(a)
  <2>1. \A i \in 0..(L - 1) : i + 1 # 0 /\ (i = 0 \/ i \in 1..(L - 1)) /\ 0 + 1 = 1
    BY <1>2
  <2>. QED
    BY <1>2, <2>1 DEF At, Complete, Total
<1>4. \A i \in 1..(L - 1) : /\ i \in 0..(L - 1) /\ i - 1 \in 0..(L - 1)
                            /\ i + 1 \in 1..L /\ (i - 1) + 1 = (i + 1) - 1
  BY <1>2
<1>5. \A i \in 1..(L - 1) : Follows(At(i), At(i - 1))'
  BY <1>1, <1>3, <1>4 DEF NoGap, Follows
<1>6. EndsLine(At(L - 1))'
  <2>1. L - 1 \in 0..(L - 1) /\ (L - 1) + 1 = L
    BY <1>2
  <2>2. EndsLine(At(L))
    BY <1>1 DEF NoGap
  <2>. QED
    BY <1>2, <1>3, <2>1, <2>2 DEF EndsLine
<1>7. Follows(At(1), At(1 - 1))
  <2>1. 1 \in 1..L
    BY <1>2
  <2>. QED
    BY <1>1, <2>1 DEF NoGap
<1>8. At(1) = Head(wire) /\ At(1 - 1) = serialPortByte
  BY <1>2 DEF At
<1>9. Follows(Head(wire), serialPortByte)
  BY <1>7, <1>8 DEF Follows
<1>10. NoGap'
  BY <1>2, <1>5, <1>6 DEF NoGap
<1>. QED
  BY <1>9, <1>10

(* A byte inside a value is the next one of that value. *)
LEMMA TypedExact ==
  ASSUME LinkInv, OrderInv, Exact, ReadByte, lossless', InValue
  PROVE Exact'
<1> DEFINE b == Head(wire)
           n == serialPortByte.msg
           bytes == Append(bits, b)
<1>1. /\ Interrupted /\ UNCHANGED <<sender, sent>> /\ wire' = Tail(wire)
      /\ readTyped(b, Tail(wire)) /\ serialPortByte' = b
      /\ bits' = IF Full(bytes) THEN <<>> ELSE bytes
  BY DEF ReadByte, sender, readTyped, BitsAfter
<1>2. NoGap' /\ Follows(b, serialPortByte)
  BY <1>1, ReadNoGap DEF Exact
<1>3. /\ n \in 1..Len(sent) /\ last = n - 1 /\ receiving = sent[n].code
      /\ serialPortByte.part = Len(bits) /\ n \in Nat /\ Len(bits) \in Nat
      /\ \A q \in 1..Len(bits) : bits[q] = ByteOf(n, q)
  BY Numbers DEF Exact, Reading
<1>4. b \in Tagged /\ b.msg = n /\ b.part = Len(bits) + 1 /\ b = ByteOf(n, Len(bits) + 1)
  <2>1. b.msg = n /\ b.part = Len(bits) + 1
    BY <1>2, <1>3, NotComplete DEF Exact, Follows
  <2>2. b \in Tagged /\ b = ByteOf(b.msg, b.part)
    BY <1>1, FirstByte
  <2>. HIDE DEF b
  <2>. QED
    BY <2>1, <2>2
<1>5. CASE Full(bytes)
  <2>1. /\ receiving' = INFO_ACK /\ bits' = <<>> /\ Delivered(MessageIn(bytes))
    BY <1>1, <1>5 DEF readTyped
  <2>2. MessageIn(bytes) = n /\ Total(sent[n]) = Len(bits) + 2
    <3>. HIDE DEF b
    <3>. QED
      BY <1>3, <1>4, <1>5, ValueIsMessage
  <2>3. last' = n /\ wrong' = wrong
    BY <1>3, <2>1, <2>2 DEF Delivered
  <2>4. ~InValue'
    BY <2>1, CodeFacts DEF InValue
  <2>5. Complete(serialPortByte)'
    BY <1>1, <1>3, <1>4, <2>2 DEF Complete, Total
  <2>6. Reading'
    BY <1>1, <1>4, <2>3, <2>4, <2>5 DEF Reading
  <2>. QED
    BY <1>2, <2>3, <2>6 DEF Exact
<1>6. CASE ~Full(bytes)
  <2>1. UNCHANGED <<receiving, last, wrong>> /\ bits' = bytes
    BY <1>1, <1>6 DEF readTyped, delivery
  <2>2. /\ Len(bytes) = Len(bits) + 1
        /\ \A q \in 1..Len(bytes) : bytes[q] = ByteOf(n, q)
    <3>1. bits \in Seq(Tagged)
      BY DEF LinkInv, DriverOK
    <3>. HIDE DEF Tagged, b
    <3>2. /\ Len(bytes) = Len(bits) + 1 /\ bytes[Len(bits) + 1] = b
          /\ \A q \in 1..Len(bits) : bytes[q] = bits[q]
          /\ \A q \in 1..Len(bytes) : q \in 1..Len(bits) \/ q = Len(bits) + 1
      BY <1>3, <1>4, <3>1
    <3>. HIDE DEF bytes
    <3>. QED
      BY <1>3, <1>4, <3>2
  <2>3. Reading'
    BY <1>1, <1>3, <1>4, <2>1, <2>2 DEF Reading, InValue, ByteOf
  <2>. QED
    BY <1>2, <2>1, <2>3 DEF Exact
<1>. QED
  BY <1>5, <1>6

(* A byte outside a value is the code of the next message. *)
LEMMA CodeExact ==
  ASSUME LinkInv, OrderInv, Exact, ReadByte, lossless', ~InValue
  PROVE Exact'
<1> DEFINE b == Head(wire)
           n == b.msg
<1>1. /\ Interrupted /\ UNCHANGED <<sender, sent>> /\ wire' = Tail(wire)
      /\ readEvent(b, Tail(wire)) /\ serialPortByte' = b /\ bits' = <<>>
  BY DEF ReadByte, sender, readEvent, LinkInv, DriverOK
<1>2. NoGap' /\ Follows(b, serialPortByte)
  BY <1>1, ReadNoGap DEF Exact
<1>3. /\ n = last + 1 /\ b.part = 0
  BY <1>2 DEF Exact, Reading, Follows
<1>4. /\ n \in 1..Len(sent) /\ b = ByteOf(n, 0) /\ n \in Nat /\ last \in Nat
      /\ sent[n] \in Message
  <2>1. n \in 1..Len(sent) /\ b = ByteOf(b.msg, b.part)
    BY <1>1, FirstByte
  <2>. HIDE DEF b
  <2>. QED
    BY <1>3, <2>1, Numbers
<1>5. b.byte = sent[n].code /\ sent[n].code \in TypedCodes \cup EventCodes
  BY <1>4 DEF ByteOf, Message
<1>6. CASE AnnouncesValue(b.byte)
  <2>1. receiving' = b.byte /\ UNCHANGED <<last, wrong>> /\ InValue'
    BY <1>1, <1>6 DEF readEvent, delivery, InValue, AnnouncesValue
  <2>2. Len(bits') = 0 /\ last = n - 1
    BY <1>1, <1>3, <1>4
  <2>3. Reading'
    BY <1>1, <1>3, <1>4, <1>5, <2>1, <2>2 DEF Reading
  <2>. QED
    BY <1>2, <2>1, <2>3 DEF Exact
<1>7. CASE ~AnnouncesValue(b.byte)
  <2>1. sent[n].code \notin TypedCodes /\ b.byte \in EventCodes
    BY <1>5, <1>7 DEF AnnouncesValue
  <2>2. receiving' = receiving /\ Delivered(n)
    BY <1>1, <1>7, <2>1 DEF readEvent
  <2>3. last' = n /\ wrong' = wrong
    BY <1>3, <1>4, <2>2 DEF Delivered
  <2>4. Complete(serialPortByte)'
    BY <1>1, <1>3, <2>1 DEF Complete, Total
  <2>5. Reading'
    BY <1>1, <2>2, <2>3, <2>4 DEF Reading, InValue
  <2>. QED
    BY <1>2, <2>3, <2>5 DEF Exact
<1>. QED
  BY <1>6, <1>7

-----------------------------------------------------------------------------
LEMMA ExactInit == Init => ExactInv
<1>. SUFFICES ASSUME Init PROVE Exact
  BY DEF ExactInv
<1>1. /\ sent = <<>> /\ wire = <<>> /\ serialPortByte = NoByte /\ sending = FALSE
      /\ receiving = INFO_ACK /\ last = 0 /\ wrong = 0
  BY DEF Init
<1>2. Len(sent) = 0 /\ Len(wire) = 0 /\ serialPortByte.msg = 0 /\ ~InValue
  BY <1>1, CodeFacts DEF NoByte, InValue
<1>3. NoGap
  BY <1>1, <1>2 DEF NoGap, EndsLine, Complete, At
<1>4. Reading
  BY <1>1, <1>2 DEF Reading, Complete
<1>. QED
  BY <1>1, <1>3, <1>4 DEF Exact

LEMMA ExactNext == RefInv /\ ExactInv /\ [Next]_vars => ExactInv'
<1>. SUFFICES ASSUME RefInv, ExactInv, [Next]_vars, lossless' PROVE Exact'
  BY DEF ExactInv
<1>1. LinkInv /\ OrderInv
  BY DEF RefInv
<1>2. lossless
  BY DEF Next, Call, SendByte, GiveUp, ClearTransmitter, ReadByte, HandleStaleByte,
         AnnounceStaleByte, AwaitAck, AckLate, LeaveRace, EnterRace, ClearAnyTime, vars
<1>3. Exact
  BY <1>2 DEF ExactInv
<1>4. ASSUME NEW code \in Events, Call(Event(code)) PROVE Exact'
  <2>1. Event(code) \in Message
    BY LinkAssumption DEF Event, Message, Byte
  <2>. QED
    BY <1>1, <1>3, <1>4, <2>1, CallExact
<1>5. ASSUME NEW code \in Types, NEW fill \in Fill, Call(Value(code, fill)) PROVE Exact'
  <2>1. Value(code, fill) \in Message
    BY LinkAssumption DEF Value, Message
  <2>. QED
    BY <1>1, <1>3, <1>5, <2>1, CallExact
<1>6. CASE SendByte
  BY <1>1, <1>3, <1>6, SendByteExact
<1>7. CASE GiveUp \/ ClearTransmitter \/ HandleStaleByte \/ AnnounceStaleByte
  BY <1>7 DEF GiveUp, ClearTransmitter, HandleStaleByte, AnnounceStaleByte
<1>8. CASE ReadByte
  BY <1>1, <1>3, <1>8, TypedExact, CodeExact
<1>9. CASE AwaitAck \/ LeaveRace \/ AckLate \/ EnterRace \/ UNCHANGED vars
  <2>1. UNCHANGED <<sender, wire, driver, delivery>>
    BY <1>9 DEF AwaitAck, LeaveRace, AckLate, EnterRace, ClearAnyTime, vars
  <2>. QED
    BY <1>3, <2>1, SameExact
<1>. QED
  BY <1>4, <1>5, <1>6, <1>7, <1>8, <1>9 DEF Next

(* While nothing is lost and nothing fails, no message is delivered        *)
(* wrongly, and all that were sent have been once the line is empty.       *)
THEOREM LineExact == Spec => []FramingExact
<1>1. RefInv /\ ExactInv => FramingExact
  <2>. SUFFICES ASSUME RefInv, ExactInv, lossless
                PROVE wrong = 0 /\ (wire = <<>> /\ ~sending => last = Len(sent))
    BY DEF FramingExact
  <2>1. LinkInv /\ Exact
    BY DEF RefInv, ExactInv
  <2>2. ASSUME wire = <<>>, ~sending PROVE last = Len(sent)
    <3>1. EndsLine(serialPortByte)
      BY <2>1, <2>2 DEF Exact, NoGap, At
    <3>2. Complete(serialPortByte) /\ serialPortByte.msg = Len(sent)
      BY <2>1, <2>2, <3>1, Numbers DEF EndsLine
    <3>3. ~InValue
      BY <2>1, <3>2, NotComplete DEF Exact
    <3>. QED
      BY <2>1, <3>2, <3>3 DEF Exact, Reading
  <2>. QED
    BY <2>1, <2>2 DEF Exact
<1>2. Init => RefInv /\ ExactInv
  BY RefInit, ExactInit
<1>3. RefInv /\ ExactInv /\ [Next]_vars => (RefInv /\ ExactInv)'
  BY RefNext, ExactNext
<1>. QED
  BY <1>1, <1>2, <1>3, PTL DEF Spec
=============================================================================
