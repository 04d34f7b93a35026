----------------------------- MODULE MouseProofs -----------------------------
(***************************************************************************)
(* Proofs about Mouse, for every set of reports: when the program and the  *)
(* mouse agree on where a packet begins, and what a packet then says.      *)
(***************************************************************************)
EXTENDS Mouse, TLAPS

-----------------------------------------------------------------------------
FromBits(a, b, c, d, e, f, g) ==
    a + 2 * b + 4 * c + 8 + 16 * d + 32 * e + 64 * f + 128 * g

IsMadeOf(byte, a, b, c, d, e, f, g) ==
    /\ byte \in Byte
    /\ Has(byte, 1) <=> a = 1
    /\ Has(byte, 2) <=> b = 1
    /\ Has(byte, 4) <=> c = 1
    /\ Has(byte, 8)
    /\ Has(byte, 16) <=> d = 1
    /\ Has(byte, 32) <=> e = 1
    /\ Has(byte, 64) <=> f = 1
    /\ Has(byte, 128) <=> g = 1

(* A byte put together from its bits is taken apart into them. *)
LEMMA Bits ==
    ASSUME NEW a \in {0, 1}, NEW b \in {0, 1}, NEW c \in {0, 1}, NEW d \in {0, 1},
           NEW e \in {0, 1}, NEW f \in {0, 1}, NEW g \in {0, 1}
    PROVE  IsMadeOf(FromBits(a, b, c, d, e, f, g), a, b, c, d, e, f, g)
  <1> DEFINE byte == FromBits(a, b, c, d, e, f, g)
  <1>1. byte \in Byte
    BY DEF Byte, FromBits
  <1>2. /\ byte % 2 = a
        /\ (byte \div 2) = b + 2 * c + 4 + 8 * d + 16 * e + 32 * f + 64 * g
    BY DEF FromBits
  <1>3. /\ (byte \div 2) % 2 = b
        /\ (byte \div 4) = c + 2 + 4 * d + 8 * e + 16 * f + 32 * g
    BY <1>2 DEF FromBits
  <1>4. /\ (byte \div 4) % 2 = c
        /\ (byte \div 8) = 1 + 2 * d + 4 * e + 8 * f + 16 * g
    BY <1>3 DEF FromBits
  <1>5. /\ (byte \div 8) % 2 = 1
        /\ (byte \div 16) = d + 2 * e + 4 * f + 8 * g
    BY <1>4 DEF FromBits
  <1>6. /\ (byte \div 16) % 2 = d
        /\ (byte \div 32) = e + 2 * f + 4 * g
    BY <1>5 DEF FromBits
  <1>7. /\ (byte \div 32) % 2 = e
        /\ (byte \div 64) = f + 2 * g
    BY <1>6 DEF FromBits
  <1>8. (byte \div 64) % 2 = f /\ (byte \div 128) % 2 = g
    BY <1>7 DEF FromBits
  <1> HIDE DEF byte
  <1>9. byte \div 1 = byte
    BY <1>1 DEF Byte
  <1> QED
    BY <1>1, <1>2, <1>3, <1>4, <1>5, <1>6, <1>7, <1>8, <1>9 DEF Has, IsMadeOf, byte

(* What a report sends: the first byte can be told and says its flags and  *)
(* signs, the others are the movements.                                    *)
LEMMA FirstByte ==
    ASSUME NEW r \in Report
    PROVE  LET byte == ByteOf(r, 1)
           IN /\ byte \in Byte
              /\ Has(byte, FIRST_BYTE)
              /\ \A flag \in DOMAIN FlagBit : Has(byte, FlagBit[flag]) <=> flag \in r.flags
              /\ Has(byte, 16) <=> r.dx < 0
              /\ Has(byte, 32) <=> r.dy < 0
  <1> DEFINE N(flag) == IF flag \in r.flags THEN 1 ELSE 0
             X == IF r.dx < 0 THEN 1 ELSE 0
             Y == IF r.dy < 0 THEN 1 ELSE 0
  <1>1. ByteOf(r, 1) = FromBits(N("lb"), N("rb"), N("mb"), X, Y, N("x_ov"), N("y_ov"))
    BY DEF ByteOf, BitOf, Bit, FlagBit, FIRST_BYTE, FromBits
  <1>2. /\ \A flag : N(flag) \in {0, 1} /\ (N(flag) = 1 <=> flag \in r.flags)
        /\ X \in {0, 1} /\ (X = 1 <=> r.dx < 0)
        /\ Y \in {0, 1} /\ (Y = 1 <=> r.dy < 0)
    OBVIOUS
  <1>3. DOMAIN FlagBit = {"lb", "rb", "mb", "x_ov", "y_ov"}
    BY DEF FlagBit
  <1>5. /\ N("lb") \in {0, 1} /\ N("rb") \in {0, 1} /\ N("mb") \in {0, 1}
        /\ N("x_ov") \in {0, 1} /\ N("y_ov") \in {0, 1}
    BY <1>2
  <1> HIDE DEF N, X, Y
  <1>4. IsMadeOf(ByteOf(r, 1), N("lb"), N("rb"), N("mb"), X, Y, N("x_ov"), N("y_ov"))
    BY <1>1, <1>2, <1>5, Bits
  <1> QED
    BY <1>2, <1>3, <1>4 DEF IsMadeOf, FlagBit, FIRST_BYTE

LEMMA OtherBytes ==
    ASSUME NEW r \in Report
    PROVE  /\ ByteOf(r, 2) \in Byte
           /\ r.dx = IF r.dx < 0 THEN ByteOf(r, 2) - 256 ELSE ByteOf(r, 2)
           /\ ByteOf(r, 3) \in Byte
           /\ r.dy = IF r.dy < 0 THEN ByteOf(r, 3) - 256 ELSE ByteOf(r, 3)
  <1>1. r.dx \in -256..255 /\ r.dy \in -256..255
    BY DEF Report, Movement
  <1>2. \A m \in -256..255 :
          m % 256 \in Byte /\ m = IF m < 0 THEN (m % 256) - 256 ELSE m % 256
    BY DEF Byte
  <1>3. ByteOf(r, 2) = r.dx % 256 /\ ByteOf(r, 3) = r.dy % 256
    BY DEF ByteOf
  <1> QED
    BY <1>1, <1>2, <1>3

LEMMA Bytes ==
    ASSUME NEW r \in Report, NEW n \in 1..3
    PROVE  ByteOf(r, n) \in Byte
  <1>1. n = 1 \/ n = 2 \/ n = 3
    OBVIOUS
  <1> QED
    BY <1>1, FirstByte, OtherBytes

(* The three bytes of a report give the report. *)
LEMMA Decoded ==
    ASSUME NEW r \in Report, NEW bytes \in Seq(Byte),
           bytes[1] = ByteOf(r, 1), bytes[2] = ByteOf(r, 2), bytes[3] = ByteOf(r, 3)
    PROVE  mouse_bytes_to_packet(bytes) = r
  <1>1. {f \in DOMAIN FlagBit : Has(bytes[1], FlagBit[f])} = r.flags
    <2>1. \A f \in DOMAIN FlagBit : Has(bytes[1], FlagBit[f]) <=> f \in r.flags
      BY FirstByte
    <2>2. r.flags \subseteq DOMAIN FlagBit
      BY DEF Report
    <2> QED
      BY <2>1, <2>2
  <1>2. Signed(bytes[2], Has(bytes[1], 16)) = r.dx
    BY FirstByte, OtherBytes DEF Signed
  <1>3. Signed(bytes[3], Has(bytes[1], 32)) = r.dy
    BY FirstByte, OtherBytes DEF Signed
  <1>4. r = [dx |-> r.dx, dy |-> r.dy, flags |-> r.flags]
    BY DEF Report
  <1> QED
    BY <1>1, <1>2, <1>3, <1>4 DEF mouse_bytes_to_packet

-----------------------------------------------------------------------------
(* While the two agree, the bytes gathered are those the mouse has sent.   *)
GatheredAsSent ==
    Aligned /\ sending # None =>
        \A n \in 1..read : mouseBytes[n] = ByteOf(sending, n)

(* Within a quiet report the program is in step, or has thrown away what   *)
(* it took for a packet before.                                            *)
QuietSteps ==
    quiet => /\ read = 0 => mouseBytes = <<>>
             /\ read = 2 => Len(mouseBytes) # 1

MouseInvariant ==
    /\ TypeOK
    /\ read # 0 => sending # None
    /\ GatheredAsSent
    /\ QuietSteps

LEMMA NoneIsNoReport == ASSUME NEW r \in Report PROVE r # None
  <1>1. DOMAIN r = {"dx", "dy", "flags"}
    BY DEF Report
  <1>2. DOMAIN None = {"dx"}
    BY DEF None
  <1> QED
    BY <1>1, <1>2

(* What one interrupt does to the bytes gathered. *)
LEMMA OneByte ==
    ASSUME TypeOK, Interrupt
    PROVE  LET byte  == ByteOf(sending, read + 1)
               bytes == mouse_sync_bytes(mouseBytes, byte)
           IN /\ sending \in Report
              /\ byte \in Byte
              /\ read = 0 => Has(byte, FIRST_BYTE)
              /\ bytes \in Seq(Byte)
              /\ Len(bytes) = IF Len(mouseBytes) = 0 /\ ~Has(byte, FIRST_BYTE)
                              THEN 0 ELSE Len(mouseBytes) + 1
              /\ Len(bytes) # 0 => bytes = Append(mouseBytes, byte)
              /\ mouseBytes' = IF Len(bytes) = 3 THEN <<>> ELSE bytes
              /\ quiet' <=> read = 0 \/ (quiet /\ ~Has(byte, FIRST_BYTE))
              /\ quiet' \in BOOLEAN
              /\ read' = IF read = 2 THEN 0 ELSE read + 1
              /\ sending' = IF read = 2 THEN None ELSE sending
  <1> DEFINE byte  == ByteOf(sending, read + 1)
             bytes == mouse_sync_bytes(mouseBytes, byte)
  <1>1. sending \in Report
    BY ReportAssumption DEF TypeOK, Interrupt
  <1>2. byte \in Byte
    BY <1>1, Bytes DEF TypeOK
  <1>3. read = 0 => Has(byte, FIRST_BYTE)
    BY <1>1, FirstByte
  <1>4. mouseBytes \in Seq(Byte)
    BY DEF TypeOK
  <1>5. read' = IF read = 2 THEN 0 ELSE read + 1
    BY DEF TypeOK, Interrupt
  <1>6. /\ mouseBytes' = IF Len(bytes) = 3 THEN <<>> ELSE bytes
        /\ sending' = IF read = 2 THEN None ELSE sending
    BY DEF Interrupt, After
  <1>7. /\ quiet' <=> read = 0 \/ (quiet /\ ~Has(byte, FIRST_BYTE))
        /\ quiet' \in BOOLEAN
    BY DEF Interrupt
  <1>8. mouseBytes = <<>> <=> Len(mouseBytes) = 0
    BY <1>4
  <1> HIDE DEF byte
  <1>9. /\ bytes \in Seq(Byte)
        /\ Len(bytes) = IF Len(mouseBytes) = 0 /\ ~Has(byte, FIRST_BYTE)
                        THEN 0 ELSE Len(mouseBytes) + 1
        /\ Len(bytes) # 0 => bytes = Append(mouseBytes, byte)
    <2>1. CASE Len(mouseBytes) = 0 /\ ~Has(byte, FIRST_BYTE)
      BY <1>4, <1>8, <2>1 DEF mouse_sync_bytes
    <2>2. CASE ~(Len(mouseBytes) = 0 /\ ~Has(byte, FIRST_BYTE))
      <3>1. bytes = Append(mouseBytes, byte)
        BY <1>8, <2>2 DEF mouse_sync_bytes
      <3> HIDE DEF bytes
      <3> QED
        BY <1>2, <1>4, <2>2, <3>1
    <2> QED
      BY <2>1, <2>2
  <1> HIDE DEF bytes
  <1> QED
    BY <1>1, <1>2, <1>3, <1>5, <1>6, <1>7, <1>9 DEF byte, bytes

LEMMA UpToTwo == ASSUME NEW n \in Nat, n <= 2 PROVE n = 0 \/ n = 1 \/ n = 2
  OBVIOUS

LEMMA UpToThree ==
    ASSUME NEW m \in Nat, m <= 2, NEW n, n = 0 \/ n = m + 1
    PROVE  n \in Nat /\ (n # 3 => n <= 2)
  OBVIOUS

LEMMA InvariantInit == Init => MouseInvariant
  <1> SUFFICES ASSUME Init PROVE MouseInvariant
    OBVIOUS
  <1>1. mouseBytes \in Seq(Byte) /\ Len(mouseBytes) = 0
    BY DEF Init
  <1>2. TypeOK
    <2>1. quiet \in BOOLEAN
      BY DEF Init
    <2>2. Len(mouseBytes) <= 2
      BY <1>1
    <2> QED
      BY <1>1, <2>1, <2>2 DEF Init, TypeOK
  <1>3. sending # None
    BY ReportAssumption, NoneIsNoReport DEF Init
  <1>4. GatheredAsSent
    BY <1>1 DEF Init, GatheredAsSent, Aligned
  <1>5. QuietSteps
    BY DEF Init, QuietSteps
  <1> QED
    BY <1>2, <1>3, <1>4, <1>5 DEF MouseInvariant

LEMMA TypesKept == TypeOK /\ [Next]_vars => TypeOK'
  <1> SUFFICES ASSUME TypeOK, [Next]_vars PROVE TypeOK'
    OBVIOUS
  <1>1. CASE \E r \in Reports : Move(r)
    BY <1>1 DEF Move, TypeOK
  <1>2. CASE Interrupt
    <2> DEFINE bytes == mouse_sync_bytes(mouseBytes, ByteOf(sending, read + 1))
    <2>0. /\ read' = IF read = 2 THEN 0 ELSE read + 1
          /\ sending' = IF read = 2 THEN None ELSE sending
          /\ sending \in Report
          /\ bytes \in Seq(Byte)
          /\ Len(bytes) = 0 \/ Len(bytes) = Len(mouseBytes) + 1
          /\ mouseBytes' = IF Len(bytes) = 3 THEN <<>> ELSE bytes
      BY <1>2, OneByte
    <2> HIDE DEF bytes
    <2>1. /\ read' \in 0..2
          /\ sending' \in Reports \cup {None}
      BY <2>0 DEF TypeOK
    <2>4. quiet' \in BOOLEAN
      BY <1>2, OneByte
    <2>2. mouseBytes' \in Seq(Byte) /\ Len(mouseBytes') <= 2
      <3>1. Len(bytes) # 3 => Len(bytes) <= 2
        <4>1. Len(mouseBytes) \in Nat /\ Len(mouseBytes) <= 2
          BY DEF TypeOK
        <4>2. Len(bytes) = 0 \/ Len(bytes) = Len(mouseBytes) + 1
          BY <2>0
        <4> QED
          BY <4>1, <4>2, UpToThree
      <3>2. <<>> \in Seq(Byte) /\ Len(<<>>) = 0
        OBVIOUS
      <3>3. CASE Len(bytes) = 3
        BY <2>0, <3>2, <3>3
      <3>4. CASE Len(bytes) # 3
        <4>1. mouseBytes' = bytes /\ bytes \in Seq(Byte)
          BY <2>0, <3>4
        <4>2. Len(bytes) <= 2
          BY <3>1, <3>4
        <4> QED
          BY <4>1, <4>2
      <3> QED
        BY <3>3, <3>4
    <2>3. /\ mousePacket' \in Report \cup {None}
          /\ reported' \in Report \cup {None}
      <3>1. CASE Len(bytes) = 3
        <4>1. bytes \in Seq(Byte)
          BY <2>0
        <4>2. bytes[2] \in 0..255 /\ bytes[3] \in 0..255
          <5>1. \A n \in 1..3 : bytes[n] \in Byte
            BY <3>1, <4>1
          <5> QED
            BY <5>1 DEF Byte
        <4>3. \A byte \in 0..255 : \A sign : Signed(byte, sign) \in Movement
          BY DEF Signed, Movement
        <4>4. mouse_bytes_to_packet(bytes) \in Report
          BY <4>2, <4>3 DEF mouse_bytes_to_packet, Report
        <4>5. mousePacket' = mouse_bytes_to_packet(bytes) /\ reported' = sending
          BY <1>2, <3>1 DEF Interrupt, bytes
        <4>6. sending \in Report
          BY <2>0
        <4> QED
          BY <4>4, <4>5, <4>6
      <3>2. CASE Len(bytes) # 3
        BY <1>2, <3>2 DEF Interrupt, TypeOK, bytes
      <3> QED
        BY <3>1, <3>2
    <2> QED
      BY <2>1, <2>2, <2>3, <2>4 DEF TypeOK
  <1>3. CASE ReadFails
    <2>1. mouseBytes' \in Seq(Byte) /\ Len(mouseBytes') <= 2
      BY <1>3 DEF ReadFails
    <2>2. quiet' \in BOOLEAN
      BY <1>3 DEF ReadFails
    <2> QED
      BY <1>3, <2>1, <2>2 DEF ReadFails, TypeOK
  <1>4. CASE UNCHANGED vars
    BY <1>4 DEF vars, TypeOK
  <1> QED
    BY <1>1, <1>2, <1>3, <1>4 DEF Next

LEMMA InvariantKept == MouseInvariant /\ [Next]_vars => MouseInvariant'
  <1> SUFFICES ASSUME MouseInvariant, [Next]_vars PROVE MouseInvariant'
    OBVIOUS
  <1> USE DEF MouseInvariant
  <1>1. TypeOK'
    BY TypesKept
  <1>2. CASE \E r \in Reports : Move(r)
    <2>1. PICK r \in Reports : Move(r)
      BY <1>2
    <2>2. r # None
      BY ReportAssumption, NoneIsNoReport
    <2>3. read = 0 /\ UNCHANGED <<read, mouseBytes, quiet>> /\ sending' # None
      BY <2>1, <2>2 DEF Move
    <2>4. GatheredAsSent'
      BY <2>3 DEF GatheredAsSent
    <2>5. QuietSteps'
      BY <2>3 DEF QuietSteps
    <2> QED
      BY <1>1, <2>3, <2>4, <2>5
  <1>3. CASE Interrupt
    <2> DEFINE byte  == ByteOf(sending, read + 1)
               bytes == mouse_sync_bytes(mouseBytes, byte)
    <2>1. /\ read' = IF read = 2 THEN 0 ELSE read + 1
          /\ sending' = IF read = 2 THEN None ELSE sending
          /\ quiet' <=> read = 0 \/ (quiet /\ ~Has(byte, FIRST_BYTE))
          /\ mouseBytes' = IF Len(bytes) = 3 THEN <<>> ELSE bytes
          /\ byte \in Byte /\ bytes \in Seq(Byte)
          /\ Len(bytes) = IF Len(mouseBytes) = 0 /\ ~Has(byte, FIRST_BYTE)
                          THEN 0 ELSE Len(mouseBytes) + 1
          /\ Len(bytes) # 0 => bytes = Append(mouseBytes, byte)
      BY <1>3, OneByte
    <2>2. /\ read \in 0..2 /\ Len(mouseBytes) \in Nat /\ Len(mouseBytes) <= 2
          /\ mouseBytes \in Seq(Byte) /\ sending # None
      BY <1>3 DEF TypeOK, Interrupt
    <2> HIDE DEF byte, bytes
    <2>3. (read # 0 => sending # None)'
      BY <2>1, <2>2
    <2>4. GatheredAsSent'
      <3> SUFFICES ASSUME Aligned', sending' # None, NEW n \in 1..read'
                   PROVE  mouseBytes'[n] = ByteOf(sending', n)
        BY DEF GatheredAsSent
      <3>1. read # 2 /\ read' = read + 1 /\ sending' = sending
        BY <2>1
      <3>2. Len(mouseBytes') = read + 1
        BY <3>1 DEF Aligned
      <3>3. Len(bytes) # 3
        BY <2>1, <2>2, <3>2
      <3>4. mouseBytes' = bytes /\ Len(bytes) = read + 1
        BY <2>1, <3>2, <3>3
      <3>5. bytes = Append(mouseBytes, byte) /\ Len(mouseBytes) = read
        BY <2>1, <2>2, <3>4
      <3>6. \A m \in 1..read : mouseBytes[m] = ByteOf(sending, m)
        BY <2>2, <3>5 DEF GatheredAsSent, Aligned
      <3>7. CASE n = read + 1
        BY <2>2, <3>1, <3>4, <3>5, <3>7 DEF byte
      <3>8. CASE n \in 1..read
        BY <2>2, <3>1, <3>4, <3>5, <3>6, <3>8
      <3> QED
        BY <2>2, <3>1, <3>7, <3>8
    <2>5. QuietSteps'
      <3> SUFFICES ASSUME quiet'
                   PROVE  /\ read' = 0 => mouseBytes' = <<>>
                          /\ read' = 2 => Len(mouseBytes') # 1
        BY DEF QuietSteps
      <3>1. CASE read = 0
        BY <2>1, <3>1
      <3>2. CASE read = 1
        <4>1. quiet /\ ~Has(byte, FIRST_BYTE)
          BY <2>1, <3>2
        <4>2. Len(mouseBytes) = 0 => Len(mouseBytes') = 0
          BY <2>1, <2>2, <4>1
        <4>3. Len(mouseBytes) = 1 => Len(mouseBytes') = 2
          BY <2>1, <2>2
        <4>4. Len(mouseBytes) = 2 => Len(mouseBytes') = 0
          BY <2>1, <2>2
        <4>5. read' = 2
          BY <2>1, <3>2
        <4>6. Len(mouseBytes) = 0 \/ Len(mouseBytes) = 1 \/ Len(mouseBytes) = 2
          BY <2>2, UpToTwo
        <4>7. Len(mouseBytes') = 0 \/ Len(mouseBytes') = 2
          BY <4>2, <4>3, <4>4, <4>6
        <4> QED
          BY <4>5, <4>7
      <3>3. CASE read = 2
        <4>1. quiet /\ ~Has(byte, FIRST_BYTE)
          BY <2>1, <3>3
        <4>2. Len(mouseBytes) = 0 \/ Len(mouseBytes) = 2
          <5>1. Len(mouseBytes) # 1
            BY <3>3, <4>1 DEF QuietSteps
          <5> QED
            BY <2>2, <5>1, UpToTwo
        <4>3. Len(mouseBytes) = 0 => mouseBytes' = <<>>
          <5>1. Len(mouseBytes) = 0 => Len(bytes) = 0
            BY <2>1, <4>1
          <5> QED
            BY <2>1, <5>1
        <4>4. Len(mouseBytes) = 2 => mouseBytes' = <<>>
          BY <2>1, <2>2
        <4> QED
          BY <2>1, <3>3, <4>2, <4>3, <4>4
      <3> QED
        BY <2>2, <3>1, <3>2, <3>3
    <2> QED
      BY <1>1, <2>3, <2>4, <2>5
  <1>4. CASE ReadFails
    <2>1. /\ mouseBytes' = <<>> /\ Len(mouseBytes') = 0 /\ ~quiet'
          /\ read' = read /\ sending' = sending /\ sending # None
      BY <1>4 DEF ReadFails
    <2>2. GatheredAsSent'
      BY <2>1 DEF GatheredAsSent, Aligned
    <2> QED
      BY <1>1, <2>1, <2>2 DEF QuietSteps
  <1>5. CASE UNCHANGED vars
    BY <1>1, <1>5 DEF vars, GatheredAsSent, QuietSteps, Aligned
  <1> QED
    BY <1>2, <1>3, <1>4, <1>5 DEF Next

(* The inductive invariant: types, the bytes gathered are those sent while *)
(* the two agree, a quiet report brings them into step (mouse_int_h).      *)
THEOREM MouseSafe == Spec => []MouseInvariant
  BY InvariantInit, InvariantKept, PTL DEF Spec

-----------------------------------------------------------------------------
(* byteIndex never leaves the three bytes of mouseBytes, whatever the      *)
(* mouse sends and however often a read fails.                             *)
THEOREM TypeCorrect == Spec => []TypeOK
  BY MouseSafe, PTL DEF MouseInvariant

(* A quiet report ends with the program waiting for a first byte.          *)
THEOREM QuietRealigns == Spec => []QuietPacketRealigns
  <1>1. MouseInvariant => QuietPacketRealigns
    BY DEF MouseInvariant, QuietSteps, QuietPacketRealigns, Aligned
  <1> QED
    BY <1>1, MouseSafe, PTL

(* Only a read that fails within a packet makes them disagree.             *)
THEOREM StaysAligned == Spec => AlignmentKept
  <1>1. MouseInvariant /\ [Next]_vars => [Aligned => Aligned' \/ (ReadFails /\ read # 0)]_vars
    <2> SUFFICES ASSUME MouseInvariant, Next, Aligned
                 PROVE  Aligned' \/ (ReadFails /\ read # 0)
      BY DEF vars
    <2>1. CASE \E r \in Reports : Move(r)
      BY <2>1 DEF Move, Aligned
    <2>2. CASE Interrupt
      <3> DEFINE byte  == ByteOf(sending, read + 1)
                 bytes == mouse_sync_bytes(mouseBytes, byte)
      <3>1. /\ read' = IF read = 2 THEN 0 ELSE read + 1
            /\ mouseBytes' = IF Len(bytes) = 3 THEN <<>> ELSE bytes
            /\ Len(bytes) = IF Len(mouseBytes) = 0 /\ ~Has(byte, FIRST_BYTE)
                            THEN 0 ELSE Len(mouseBytes) + 1
            /\ read = 0 => Has(byte, FIRST_BYTE)
        BY <2>2, OneByte DEF MouseInvariant
      <3>2. read \in 0..2 /\ Len(mouseBytes) = read
        BY DEF MouseInvariant, TypeOK, Aligned
      <3> HIDE DEF byte, bytes
      <3>3. Len(bytes) = read + 1
        BY <3>1, <3>2
      <3> QED
        BY <3>1, <3>2, <3>3 DEF Aligned
    <2>3. CASE ReadFails
      BY <2>3 DEF ReadFails, Aligned
    <2> QED
      BY <2>1, <2>2, <2>3 DEF Next
  <1> QED
    BY <1>1, MouseSafe, PTL DEF Spec, AlignmentKept

(* A packet handed over in step has the movement and the buttons reported. *)
THEOREM ReportedTruly == Spec => PacketAsReported
  <1>1. MouseInvariant /\ [Next]_vars =>
          [Aligned /\ Aligned' /\ read = 2 /\ read' = 0 => mousePacket' = sending]_vars
    <2> SUFFICES ASSUME MouseInvariant, Next, Aligned, Aligned', read = 2, read' = 0
                 PROVE  mousePacket' = sending
      BY DEF vars
    <2>1. Interrupt
      BY DEF Next, Move, ReadFails
    <2> DEFINE byte  == ByteOf(sending, read + 1)
               bytes == mouse_sync_bytes(mouseBytes, byte)
    <2>2. /\ sending \in Report /\ byte \in Byte /\ bytes \in Seq(Byte)
          /\ Len(bytes) = IF Len(mouseBytes) = 0 /\ ~Has(byte, FIRST_BYTE)
                          THEN 0 ELSE Len(mouseBytes) + 1
          /\ Len(bytes) # 0 => bytes = Append(mouseBytes, byte)
      BY <2>1, OneByte DEF MouseInvariant
    <2>3. Len(mouseBytes) = 2 /\ mouseBytes \in Seq(Byte)
      BY DEF Aligned, MouseInvariant, TypeOK
    <2>4. \A n \in 1..2 : mouseBytes[n] = ByteOf(sending, n)
      BY <2>1 DEF MouseInvariant, GatheredAsSent, Interrupt
    <2>5. mousePacket' = mouse_bytes_to_packet(bytes) \/ Len(bytes) # 3
      BY <2>1 DEF Interrupt
    <2> HIDE DEF byte, bytes
    <2>6. bytes = Append(mouseBytes, byte)
      BY <2>2, <2>3
    <2>7. /\ Len(bytes) = 3 /\ bytes[3] = byte
          /\ bytes[1] = mouseBytes[1] /\ bytes[2] = mouseBytes[2]
      BY <2>2, <2>3, <2>6
    <2>8. mouse_bytes_to_packet(bytes) = sending
      BY <2>2, <2>4, <2>7, Decoded DEF byte
    <2> QED
      BY <2>5, <2>7, <2>8
  <1> QED
    BY <1>1, MouseSafe, PTL DEF Spec, PacketAsReported
=============================================================================
