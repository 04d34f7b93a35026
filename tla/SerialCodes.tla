----------------------------- MODULE SerialCodes -----------------------------
(* The bytes of the serial protocol (serialPort.h): thirteen codes above    *)
(* INFO_BITS, six of which announce a typed value of 8 or of 4 bytes.  The  *)
(* bytes of a value are arbitrary: nothing keeps them below INFO_BITS.      *)
EXTENDS Integers

CONSTANTS
    LongLen,    \* bytes of a uint64_t, an int64_t or a double (8)
    ShortLen    \* bytes of a uint32_t, an int32_t or a float (4)

ASSUME LenAssumption == /\ LongLen \in Nat \ {0}
                        /\ ShortLen \in 1..LongLen

INFO_BITS       == 240
INFO_ACK        == INFO_BITS + 0
INFO_NACK       == INFO_BITS + 1
INFO_ULONG      == INFO_BITS + 2
INFO_LONG       == INFO_BITS + 3
INFO_UINT       == INFO_BITS + 4
INFO_INT        == INFO_BITS + 5
INFO_FLOAT      == INFO_BITS + 6
INFO_DOUBLE     == INFO_BITS + 7
INFO_READY      == INFO_BITS + 8
INFO_NREADY     == INFO_BITS + 9
INFO_READY_ACK  == INFO_BITS + 10
INFO_NREADY_ACK == INFO_BITS + 11
INFO_WON        == INFO_BITS + 12
INFO_EXIT       == INFO_BITS + 13

Byte == 0..255

LongCodes  == {INFO_ULONG, INFO_LONG, INFO_DOUBLE}
ShortCodes == {INFO_UINT, INFO_INT, INFO_FLOAT}
TypedCodes == LongCodes \cup ShortCodes
EventCodes == {INFO_ACK, INFO_NACK, INFO_READY, INFO_NREADY, INFO_READY_ACK,
               INFO_NREADY_ACK, INFO_WON, INFO_EXIT}

(* How many bytes follow the code of a typed value. *)
Width(code) == IF code \in LongCodes THEN LongLen ELSE ShortLen
=============================================================================
