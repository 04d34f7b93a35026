-------------------------------- MODULE Link --------------------------------
(***************************************************************************)
(* One direction of the serial line: lib/drivers/serialPort/serialPort.c   *)
(* on both ends, and the serial branch of proj_main_loop at the receiver.  *)
(* Race assumes that a send completes, that a register can be read and     *)
(* that a player stays for the end of a value; Link is about what happens  *)
(* when not: a send gives up between two bytes, a read fails and leaves    *)
(* the previous byte in serialPortByte, a FIFO is cleared or overrun in    *)
(* the middle of a value.                                                  *)
(*                                                                         *)
(* A message is an event code or a value of one of the six types, whose    *)
(* bytes are all alike here; every byte carries, for the properties only,  *)
(* the number of its message and its place in it.  "wire" holds the bytes  *)
(* from the transmitter to the receive FIFO; how many have arrived is not  *)
(* state: an interrupt needs one, a clear finds any number of them.        *)
(***************************************************************************)
EXTENDS SerialCodes, SequencesExt

CONSTANTS
    Events,       \* the events sent
    Types,        \* the types of the values sent
    Fill,         \* the bytes values are made of
    FifoSize,     \* capacity of the receive FIFO (16)
    MaxMessages,  \* bound: messages sent
    MaxFaults     \* bound: faults

ASSUME LinkAssumption == /\ Events \subseteq EventCodes
                         /\ Types \subseteq TypedCodes
                         /\ Fill \subseteq Byte
                         /\ FifoSize \in Nat \ {0}
                         /\ MaxMessages \in Nat
                         /\ MaxFaults \in Nat

VARIABLES
    sent,            \* the messages, in the order of sending
    out,             \* bytes of the last message handed to the transmitter
    sending,         \* the sender is inside a serialPortSend function
    wire,
    inRace,          \* the receiver's currAppState is raceState
    receiving,       \* receivingSerialPort
    bits,            \* bitsSerialPort[0 .. indexSerialPort - 1]
    serialPortByte,  \* the byte last read
    waitingAck,      \* waitingAckSerialPort of the receiver
    lossless,        \* history: no byte was lost and nothing failed
    faults,          \* history: the steps Channel grants a wrong delivery for
    last,            \* history: the last message delivered whole
    wrong            \* history: wrong deliveries

sender   == <<sent, out, sending>>
driver   == <<receiving, bits, serialPortByte>>
delivery == <<last, wrong>>
vars == <<sender, wire, inRace, driver, waitingAck, lossless, faults, delivery>>

NoByte == [byte |-> 0, msg |-> 0, part |-> 0]

Event(code)       == [code |-> code, fill |-> 0]
Value(code, fill) == [code |-> code, fill |-> fill]

Total(message) == IF message.code \in TypedCodes THEN 1 + Width(message.code) ELSE 1

(* The byte a send function hands over next: the code first.               *)
NextByte ==
    [byte |-> IF out = 0 THEN Last(sent).code ELSE Last(sent).fill,
     msg |-> Len(sent), part |-> out]

Init ==
    /\ sent = <<>> /\ out = 0 /\ sending = FALSE
    /\ wire = <<>>
    /\ inRace = FALSE
    /\ receiving = INFO_ACK /\ bits = <<>> /\ serialPortByte = NoByte
    /\ waitingAck = FALSE
    /\ lossless = TRUE /\ faults = 0
    /\ last = 0 /\ wrong = 0

(* A step that is a fault, or not; at most MaxFaults of them.              *)
CountFault(happened) ==
    /\ faults' = faults + (IF happened THEN 1 ELSE 0)
    /\ faults' <= MaxFaults

-----------------------------------------------------------------------------
(* The sender. *)

(* A call of serialPortSendULong, ..., serialPortSendWon, ...              *)
Call(message) ==
    /\ ~sending
    /\ Len(sent) < MaxMessages
    /\ sending' = TRUE
    /\ sent' = Append(sent, message)
    /\ out' = 0
    /\ UNCHANGED <<wire, inRace, driver, waitingAck, lossless, faults, delivery>>

(* serialPortSendByte: the byte is on its way, or lost to a full FIFO.     *)
SendByte ==
    /\ sending
    /\ out' = out + 1
    /\ sending' = (out' < Total(Last(sent)))
    /\ LET overrun == Len(wire) = FifoSize
       IN /\ wire' = IF overrun THEN wire ELSE Append(wire, NextByte)
          /\ lossless' = (lossless /\ ~overrun)
          /\ CountFault(overrun /\ out > 0)
    /\ UNCHANGED <<sent, inRace, driver, waitingAck, delivery>>

(* No room in the transmitter after ten attempts, or a register that       *)
(* cannot be accessed: the function returns 1 and the rest of the value is *)
(* never sent.  Its callers carry on.                                      *)
GiveUp ==
    /\ sending
    /\ sending' = FALSE
    /\ lossless' = FALSE
    /\ CountFault(out > 0)
    /\ UNCHANGED <<sent, out, wire, inRace, driver, waitingAck, delivery>>

(* The sender clears its own FIFOs, for an answer or a late one, with the  *)
(* last byte it sent still in the transmitter.                             *)
ClearTransmitter ==
    /\ ~sending
    /\ wire # <<>> /\ Last(wire).msg = Len(sent) /\ Last(wire).part = out - 1
    /\ wire' = Front(wire)
    /\ lossless' = FALSE
    /\ CountFault(Last(wire).part > 0)
    /\ UNCHANGED <<sender, inRace, driver, waitingAck, delivery>>

-----------------------------------------------------------------------------
(* The receiver. *)

InValue == receiving \in TypedCodes

(* serialPortClearFIFO, when "rest" has not been read.                     *)
serialPortClearFIFO(rest) ==
    \E k \in 0..Len(rest) : wire' = SubSeq(rest, k + 1, Len(rest))

(* Unless the clear finds the FIFO empty, bytes are lost; it is a fault if *)
(* the driver is in the middle of a value.                                 *)
ClearAnyTime ==
    /\ serialPortClearFIFO(wire)
    /\ lossless' = (lossless /\ wire' = wire)
    /\ CountFault(InValue /\ wire' # wire)

(* The message n, or something that was not a message, reaches the program.*)
Delivered(n) ==
    IF n > last THEN last' = n /\ UNCHANGED wrong
                ELSE wrong' = wrong + 1 /\ UNCHANGED last

(* Are these the bytes of one value, complete and of the type announced?   *)
MessageIn(bytes) ==
    LET n == Head(bytes).msg
    IN IF bytes = [i \in 1..(Total(sent[n]) - 1) |->
                     [byte |-> sent[n].fill, msg |-> n, part |-> i]]
          /\ receiving = sent[n].code
       THEN n ELSE 0

MutFull(bytes) == Len(bytes) > Width(receiving)
Full(bytes) == Len(bytes) >= Width(receiving)

MutBitsAfter(bytes) == bytes
BitsAfter(bytes) == IF Full(bytes) THEN <<>> ELSE bytes

(* serialPortReadULong and its five likes; the last byte is acknowledged,  *)
(* which clears the FIFO.                                                  *)
readTyped(b, rest) ==
    LET bytes == Append(bits, b)
    IN /\ serialPortByte' = b
       /\ bits' = BitsAfter(bytes)
       /\ IF Full(bytes)
          THEN /\ receiving' = INFO_ACK
               /\ Delivered(MessageIn(bytes))
               /\ serialPortClearFIFO(rest)
          ELSE /\ wire' = rest
               /\ UNCHANGED <<receiving, delivery>>
       /\ UNCHANGED waitingAck

(* The default branch of the main loop for the byte b.  The session's      *)
(* status, which Race models, decides whether a request is answered; an    *)
(* answer clears the FIFO, and so does a byte that is no answer when one   *)
(* is awaited.                                                             *)
Requests == {INFO_READY, INFO_NREADY}
Answers  == {INFO_ACK, INFO_READY_ACK, INFO_NREADY_ACK}

handleEvent(b, rest) ==
    \E unready \in BOOLEAN :
        LET answered == unready /\ b.byte \in Requests
            clears   == answered \/ (waitingAck /\ b.byte \notin Answers)
        IN /\ waitingAck' = (waitingAck /\ answered)
           /\ IF clears THEN serialPortClearFIFO(rest) ELSE wire' = rest

(* Outside a value: serial_port_ih keeps the announcement of a value and   *)
(* hands everything else on.                                               *)
MutAnnouncesValue(byte) == byte \in LongCodes
AnnouncesValue(byte) == byte \in TypedCodes

readEvent(b, rest) ==
    /\ serialPortByte' = b
    /\ UNCHANGED bits
    /\ IF AnnouncesValue(b.byte)
       THEN /\ receiving' = b.byte
            /\ wire' = rest
            /\ UNCHANGED <<waitingAck, delivery>>
       ELSE /\ handleEvent(b, rest)
            /\ IF b.byte \in EventCodes THEN Delivered(b.msg) ELSE UNCHANGED delivery
            /\ UNCHANGED receiving

Interrupted == inRace /\ wire # <<>>

ReadByte ==
    /\ Interrupted
    /\ IF InValue THEN readTyped(Head(wire), Tail(wire))
                  ELSE readEvent(Head(wire), Tail(wire))
    /\ lossless' = (lossless /\ wire' = Tail(wire))
    /\ UNCHANGED <<sender, inRace, faults>>

(* The interrupt identification could not be read: serial_port_ih returns  *)
(* 1, its code for "a byte was read", and the main loop handles the byte   *)
(* before once more: a wrong delivery if that is an event.                 *)
HandleStaleByte ==
    /\ Interrupted /\ ~InValue
    /\ handleEvent(serialPortByte, wire)
    /\ lossless' = FALSE
    /\ LET isEvent == serialPortByte.byte \in EventCodes
       IN /\ CountFault(isEvent)
          /\ wrong' = wrong + (IF isEvent THEN 1 ELSE 0)
    /\ UNCHANGED <<sender, inRace, driver, last>>

(* The read itself failed outside a value: serial_port_ih still looks at   *)
(* serialPortByte, and announces the value before once more.               *)
AnnounceStaleByte ==
    /\ Interrupted /\ ~InValue
    /\ AnnouncesValue(serialPortByte.byte)
    /\ receiving' = serialPortByte.byte
    /\ lossless' = FALSE
    /\ CountFault(TRUE)
    /\ UNCHANGED <<sender, wire, inRace, bits, serialPortByte, waitingAck, delivery>>

(* The receiver asked something itself.                                    *)
AwaitAck ==
    /\ inRace
    /\ ~waitingAck
    /\ waitingAck' = TRUE
    /\ UNCHANGED <<sender, wire, inRace, driver, lossless, faults, delivery>>

(* The timer, when the answer is late: on any screen.                      *)
AckLate ==
    /\ waitingAck
    /\ ClearAnyTime
    /\ UNCHANGED <<sender, inRace, driver, waitingAck, delivery>>

LeaveRace ==
    /\ inRace
    /\ inRace' = FALSE
    /\ UNCHANGED <<sender, wire, driver, waitingAck, lossless, faults, delivery>>

(* changeState(raceState) clears the FIFO, not the driver's variables.     *)
EnterRace ==
    /\ ~inRace
    /\ inRace' = TRUE
    /\ ClearAnyTime
    /\ UNCHANGED <<sender, driver, waitingAck, delivery>>

Next ==
    \/ \E code \in Events : Call(Event(code))
    \/ \E code \in Types, fill \in Fill : Call(Value(code, fill))
    \/ SendByte \/ GiveUp \/ ClearTransmitter
    \/ ReadByte \/ HandleStaleByte \/ AnnounceStaleByte
    \/ AwaitAck \/ AckLate
    \/ LeaveRace \/ EnterRace

Spec == Init /\ [][Next]_vars

-----------------------------------------------------------------------------
Tagged == [byte : Byte, msg : 0..MaxMessages, part : 0..LongLen]

(* The types, and what keeps indexSerialPort inside bitsSerialPort: the    *)
(* six readers share it, so it must be 0 outside a value and below the     *)
(* width of the type being read.                                           *)
TypeOK ==
    /\ sent \in Seq([code : EventCodes \cup TypedCodes, fill : Byte])
    /\ out \in 0..(1 + LongLen)
    /\ sending \in BOOLEAN
    /\ wire \in Seq(Tagged) /\ Len(wire) <= FifoSize
    /\ inRace \in BOOLEAN
    /\ receiving \in TypedCodes \cup {INFO_ACK}
    /\ bits \in Seq(Tagged)
    /\ IF InValue THEN Len(bits) < Width(receiving) ELSE bits = <<>>
    /\ serialPortByte \in Tagged
    /\ waitingAck \in BOOLEAN
    /\ lossless \in BOOLEAN
    /\ faults \in 0..MaxFaults
    /\ last \in 0..MaxMessages
    /\ wrong \in Nat

(* On a line that lost nothing every message arrives, whatever the bytes   *)
(* of the values: a value's bytes are never taken for codes, nor a code    *)
(* for a value's byte, also when the receiver leaves the race screen in    *)
(* the middle of a value and comes back.                                   *)
FramingExact ==
    lossless => /\ wrong = 0
                /\ wire = <<>> /\ ~sending => last = Len(sent)

(* A value has a byte that is a code.                                      *)
Coded(message) == message.code \in TypedCodes /\ message.fill \in TypedCodes \cup EventCodes

AbstractChannel == INSTANCE Channel WITH
    sent <- Len(sent),
    credit <- faults - wrong,
    coded <- \E i \in DOMAIN sent : Coded(sent[i])

(* Each fault costs at most one wrong delivery, and all the others are     *)
(* whole and in order: after a send that gave up, a clear in the middle of *)
(* a value, or a failed read, the driver finds back by itself.             *)
ImplementsChannel == AbstractChannel!Spec
=============================================================================
