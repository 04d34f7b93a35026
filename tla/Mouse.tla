-------------------------------- MODULE Mouse --------------------------------
(***************************************************************************)
(* The mouse: mouse_int_h of mouse.c, one byte per interrupt, fed by a     *)
(* PS/2 mouse in stream mode.                                              *)
(*                                                                         *)
(* A report of the device travels as three bytes.  The program knows the   *)
(* first of them by one bit only, FIRST_BYTE, which the other two may have *)
(* as well; it starts listening at any byte, and a read that fails leaves  *)
(* the byte where it is and sends byteIndex back to the start.             *)
(***************************************************************************)
EXTENDS Integers, Sequences

CONSTANT Reports    \* what the user may do between two packets

(* What the first byte tells by single bits: the buttons, and that a       *)
(* movement did not fit into its nine bits.                                *)
FlagBit == [lb |-> 1, rb |-> 2, mb |-> 4, x_ov |-> 64, y_ov |-> 128]
Movement == -256..255
Report == [dx : Movement, dy : Movement, flags : SUBSET DOMAIN FlagBit]

ASSUME ReportAssumption == Reports \subseteq Report

VARIABLES
    sending,        \* device: the report being sent, or None
    read,           \* device: how many of its bytes have been read
    mouseBytes,     \* the bytes gathered so far (byteIndex is their number)
    mousePacket,    \* the last packet handed over, or None
    reported,       \* history: the report of the last byte of that packet
    quiet           \* history: no read failed since the first byte of the
                    \* current report, and none after it looks like a first

vars == <<sending, read, mouseBytes, mousePacket, reported, quiet>>

None == [dx |-> 0]

FIRST_BYTE == 8

Has(byte, bit) == (byte \div bit) % 2 = 1

-----------------------------------------------------------------------------
(* The device. *)
Bit(condition, bit) == IF condition THEN bit ELSE 0
BitOf(r, flag) == Bit(flag \in r.flags, FlagBit[flag])

ByteOf(r, n) ==
    CASE n = 1 -> BitOf(r, "lb") + BitOf(r, "rb") + BitOf(r, "mb") + FIRST_BYTE
                  + Bit(r.dx < 0, 16) + Bit(r.dy < 0, 32)
                  + BitOf(r, "x_ov") + BitOf(r, "y_ov")
      [] n = 2 -> r.dx % 256
      [] n = 3 -> r.dy % 256

Move(r) ==
    /\ sending = None
    /\ sending' = r
    /\ UNCHANGED <<read, mouseBytes, mousePacket, reported, quiet>>

-----------------------------------------------------------------------------
(* mouse_int_h on one byte. *)
MutSync(bytes, byte) == Append(bytes, byte)
MutSyncEach(bytes, byte) == IF Has(byte, FIRST_BYTE) THEN Append(bytes, byte) ELSE bytes
mouse_sync_bytes(bytes, byte) ==
    IF bytes # <<>> \/ Has(byte, FIRST_BYTE) THEN Append(bytes, byte) ELSE bytes

(* 0xFF00 | byte, as an int16_t. *)
Signed(byte, sign) == IF sign THEN byte - 256 ELSE byte

MutPacket(bytes) ==
    [dx |-> Signed(bytes[2], Has(bytes[2], 128)),
     dy |-> Signed(bytes[3], Has(bytes[3], 128)),
     flags |-> {f \in DOMAIN FlagBit : Has(bytes[1], FlagBit[f])}]
mouse_bytes_to_packet(bytes) ==
    [dx |-> Signed(bytes[2], Has(bytes[1], 16)),
     dy |-> Signed(bytes[3], Has(bytes[1], 32)),
     flags |-> {f \in DOMAIN FlagBit : Has(bytes[1], FlagBit[f])}]

MutAfter(bytes) == bytes
After(bytes) == IF Len(bytes) = 3 THEN <<>> ELSE bytes

Interrupt ==
    /\ sending # None
    /\ LET byte  == ByteOf(sending, read + 1)
           bytes == mouse_sync_bytes(mouseBytes, byte)
       IN /\ mouseBytes' = After(bytes)
          /\ IF Len(bytes) = 3
             THEN mousePacket' = mouse_bytes_to_packet(bytes) /\ reported' = sending
             ELSE UNCHANGED <<mousePacket, reported>>
          /\ quiet' = (read = 0 \/ (quiet /\ ~Has(byte, FIRST_BYTE)))
          /\ read' = (read + 1) % 3
          /\ sending' = IF read = 2 THEN None ELSE sending

(* readKBCOutput fails; the byte is read by a later interrupt. *)
ReadFails ==
    /\ sending # None
    /\ mouseBytes' = <<>>
    /\ quiet' = FALSE
    /\ UNCHANGED <<sending, read, mousePacket, reported>>

(* The interrupt is subscribed while the mouse may be sending. *)
Init ==
    /\ sending \in Reports
    /\ read \in 0..2
    /\ mouseBytes = <<>>
    /\ mousePacket = None
    /\ reported = None
    /\ quiet = FALSE

Next == (\E r \in Reports : Move(r)) \/ Interrupt \/ ReadFails

Spec == Init /\ [][Next]_vars

-----------------------------------------------------------------------------
Byte == 0..255

TypeOK ==
    /\ sending \in Reports \cup {None}
    /\ read \in 0..2
    /\ mouseBytes \in Seq(Byte) /\ Len(mouseBytes) <= 2
    /\ mousePacket \in Report \cup {None}
    /\ reported \in Report \cup {None}
    /\ quiet \in BOOLEAN

(* The program and the mouse agree on where a packet begins. *)
Aligned == Len(mouseBytes) = read

(* Once they agree they go on agreeing, whatever the bytes look like,      *)
(* until a read fails within a packet (byteIndex of mouse.c).              *)
AlignmentKept ==
    [][Aligned => Aligned' \/ (ReadFails /\ read # 0)]_vars

(* One report that is read without a failure and whose movements do not    *)
(* look like a first byte makes them agree, from whatever byte the program *)
(* took for the first before.                                              *)
QuietPacketRealigns == quiet /\ read = 0 => Aligned

(* A packet that is complete where the report is has the movement and the  *)
(* buttons of that report: no click and no jump is made of other bytes.    *)
PacketAsReported ==
    [][Aligned /\ Aligned' /\ read = 2 /\ read' = 0 => mousePacket' = sending]_vars
=============================================================================
