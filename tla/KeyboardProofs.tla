--------------------------- MODULE KeyboardProofs ---------------------------
(***************************************************************************)
(* Proofs about the keyboard for every set of keys and every capacity of   *)
(* the device, under the restrictions stated in Keyboard.                  *)
(*                                                                         *)
(* KeyInv ties the program's flag isTwoBytes to the prefix read and not    *)
(* forgotten; only the event under way can have been cut.                  *)
(* ShiftInv follows Shift and Caps Lock along the queue: what an event     *)
(* says of them is what the event before it says, or what the program's    *)
(* flags say if it is the first, changed by the event's own key.           *)
(***************************************************************************)
EXTENDS Keyboard, TLAPS

DeviceOK ==
    /\ held \subseteq PhysKey
    /\ capsLock \in BOOLEAN
    /\ wire \in Seq(Events)
    /\ midway \in BOOLEAN

OneCut == \A i \in 1..Len(wire) : wire[i].cut => i = 1 /\ midway

KeyInv ==
    /\ DeviceOK
    /\ midway => wire # <<>> /\ Head(wire).key.ext
    /\ isTwoBytes = (midway /\ ~Head(wire).cut)
    /\ OneCut
    /\ KeyRecognised

-----------------------------------------------------------------------------
(* An event's byte is not the prefix, and is a modifier byte only for the  *)
(* unprefixed modifier keys.                                               *)
LEMMA CodeFacts ==
  ASSUME PlainModifiers, NEW e \in Events
  PROVE /\ Code(e) \in 1..255 /\ Code(e) # TWO_BYTES
        /\ e.key.ext => Code(e) \notin ModifierBytes
  BY KeyAssumption
  DEF PlainModifiers, Events, Code, ModifierBytes, HeldCodes, ShiftCodes, TWO_BYTES,
      BREAK_CODE, LEFT_SHIFT_SCANCODE, RIGHT_SHIFT_SCANCODE, LEFT_CTRL_SCANCODE,
      LEFT_ALT_SCANCODE, CAPSLOCK_SCANCODE

(* The event a key press, repetition or release queues. *)
LEMMA QueueDevice ==
  ASSUME DeviceOK, held' \subseteq PhysKey, capsLock' \in BOOLEAN,
         NEW k \in PhysKey, NEW make \in BOOLEAN, Queue(k, make)
  PROVE /\ DeviceOK'
        /\ Event(k, make) \in Events
        /\ wire # <<>> => wire' # <<>> /\ Head(wire') = Head(wire)
<1>1. Event(k, make) \in Events
  BY DEF Event, Events, ShiftDown
<1>2. wire' \in Seq(Events)
  BY <1>1 DEF Queue, DeviceOK
<1>3. wire # <<>> => wire' # <<>> /\ Head(wire') = Head(wire)
  BY <1>1 DEF Queue, DeviceOK
<1>. QED
  BY <1>1, <1>2, <1>3 DEF Queue, DeviceOK

(* The typist queues one event and leaves the program alone. *)
LEMMA TypistStep ==
  ASSUME DeviceOK, Typist
  PROVE \E k \in PhysKey, make \in BOOLEAN :
          /\ held' \subseteq PhysKey /\ capsLock' \in BOOLEAN
          /\ Queue(k, make)
<1>1. ASSUME NEW k \in PhysKey, Press(k) PROVE held' \subseteq PhysKey /\ capsLock' \in BOOLEAN /\ Queue(k, TRUE)
  BY <1>1 DEF Press, DeviceOK
<1>2. ASSUME NEW k \in PhysKey, Release(k) PROVE held' \subseteq PhysKey /\ capsLock' \in BOOLEAN /\ Queue(k, FALSE)
  BY <1>2 DEF Release, DeviceOK
<1>3. ASSUME NEW k \in Repeats, Repeat(k)
      PROVE k \in PhysKey /\ held' \subseteq PhysKey /\ capsLock' \in BOOLEAN /\ Queue(k, TRUE)
  BY <1>3, KeyAssumption DEF Repeat, DeviceOK
<1>. QED
  BY <1>1, <1>2, <1>3 DEF Typist

(* Reading a byte takes the first event off the queue or marks it. *)
LEMMA InterruptDevice ==
  ASSUME DeviceOK, Interrupt
  PROVE /\ DeviceOK'
        /\ wire # <<>> /\ Head(wire) \in Events
        /\ midway' => wire' = wire /\ Head(wire).key.ext
        /\ ~midway' => wire' = Tail(wire)
<1>1. wire # <<>> /\ Head(wire) \in Events /\ Tail(wire) \in Seq(Events)
  BY DEF Interrupt, DeviceOK
<1>2. /\ midway' = (Head(wire).key.ext /\ ~midway)
      /\ wire' = (IF Head(wire).key.ext /\ ~midway THEN wire ELSE Tail(wire))
      /\ UNCHANGED <<held, capsLock>>
  BY DEF Interrupt
<1>3. Head(wire).key.ext \in BOOLEAN /\ midway \in BOOLEAN
  BY <1>1, KeyAssumption DEF Events, DeviceOK
<1>. QED
  BY <1>1, <1>2, <1>3 DEF DeviceOK

(* One interrupt: a prefix, a modifier, or a scancode recognised. *)
LEMMA InterruptKey ==
  ASSUME PlainModifiers, KeyInv, Interrupt
  PROVE KeyInv'
<1> DEFINE event == Head(wire)
           prefix == event.key.ext /\ ~midway
           byte == IF prefix THEN TWO_BYTES ELSE Code(event)
<1>1. /\ DeviceOK' /\ wire # <<>> /\ event \in Events
      /\ midway' => wire' = wire /\ event.key.ext
      /\ ~midway' => wire' = Tail(wire)
  BY InterruptDevice DEF KeyInv
<1>2. midway' = prefix /\ (Prefix(byte) \/ Modifier(byte) \/ Key(byte, event))
  BY DEF Interrupt
<1>3. /\ event.key.ext \in BOOLEAN /\ event.cut \in BOOLEAN /\ midway \in BOOLEAN
      /\ midway => event.key.ext
      /\ isTwoBytes = (midway /\ ~event.cut)
      /\ event.cut => midway
  <2>1. event.key.ext \in BOOLEAN /\ event.cut \in BOOLEAN
    BY <1>1, KeyAssumption DEF Events
  <2>2. 1 \in 1..Len(wire) /\ event = wire[1]
    BY <1>1 DEF KeyInv, DeviceOK
  <2>. QED
    BY <2>1, <2>2 DEF KeyInv, DeviceOK, OneCut
<1>4. /\ Code(event) # TWO_BYTES
      /\ event.key.ext => Code(event) \notin ModifierBytes
  BY <1>1, CodeFacts
<1>5. TWO_BYTES \notin ModifierBytes
  BY DEF TWO_BYTES, ModifierBytes, HeldCodes, ShiftCodes, BREAK_CODE, LEFT_SHIFT_SCANCODE,
         RIGHT_SHIFT_SCANCODE, LEFT_CTRL_SCANCODE, LEFT_ALT_SCANCODE, CAPSLOCK_SCANCODE
<1>. HIDE DEF event
<1>6. CASE prefix
  <2>1. Prefix(TWO_BYTES) /\ midway' = TRUE /\ wire' = wire
    BY <1>1, <1>2, <1>5, <1>6 DEF Modifier, Key
  <2>2. isTwoBytes' = TRUE /\ taken' = taken /\ ~event.cut
    BY <2>1, <1>3, <1>6 DEF Prefix
  <2>3. KeyRecognised'
    BY <2>2 DEF KeyInv, KeyRecognised, Code
  <2>4. OneCut'
    BY <2>1 DEF KeyInv, OneCut
  <2>. QED
    BY <2>1, <2>2, <2>3, <2>4, <1>1 DEF KeyInv, event
<1>7. CASE ~prefix
  <2>1. midway' = FALSE /\ (Modifier(Code(event)) \/ Key(Code(event), event))
    BY <1>2, <1>3, <1>4, <1>7 DEF Prefix
  <2>2. event.key.ext = midway
    BY <1>3, <1>7
  <2>3. OneCut'
    <3>1. \A i \in 1..Len(wire') : i + 1 \in 1..Len(wire) /\ wire'[i] = wire[i + 1]
      <4>1. wire \in Seq(Events) /\ wire # <<>> /\ wire' = Tail(wire)
        BY <1>1, <2>1 DEF KeyInv, DeviceOK
      <4>. QED
        BY <4>1
    <3>2. \A i \in 1..Len(wire') : i + 1 # 1
      OBVIOUS
    <3>. QED
      BY <3>1, <3>2 DEF KeyInv, OneCut
  <2>4. CASE Modifier(Code(event))
    <3>1. ~event.key.ext /\ isTwoBytes' = isTwoBytes /\ taken' = taken
      BY <2>4, <1>4 DEF Modifier
    <3>2. isTwoBytes' = FALSE
      BY <3>1, <2>2, <1>3
    <3>3. KeyRecognised'
      BY <3>1 DEF KeyInv, KeyRecognised, Code
    <3>. QED
      BY <3>2, <3>3, <2>1, <2>3, <1>1 DEF KeyInv
  <2>5. CASE Key(Code(event), event)
    <3>1. /\ taken' = [code |-> Code(event), two |-> isScancodeTwoBytes',
                       shifted |-> Shifted(Code(event)), event |-> event]
          /\ isScancodeTwoBytes' = isTwoBytes /\ isTwoBytes' = FALSE
      BY <2>5 DEF Key, Scancode
    <3>2. KeyRecognised'
      BY <3>1, <2>2, <1>3 DEF KeyRecognised, Code
    <3>. QED
      BY <3>1, <3>2, <2>1, <2>3, <1>1 DEF KeyInv
  <2>. QED
    BY <2>1, <2>4, <2>5
<1>. QED
  BY <1>6, <1>7

(* A failed read marks the first event and leaves the queue as it was. *)
LEMMA FailedRead ==
  ASSUME DeviceOK, ReadFails
  PROVE /\ DeviceOK' /\ wire # <<>>
        /\ Len(wire') = Len(wire)
        /\ Head(wire') = [Head(wire) EXCEPT !.cut = @ \/ midway]
        /\ Head(wire) \in Events
        /\ \A i \in 1..Len(wire) :
             /\ wire[i] \in Events
             /\ wire'[i] = IF i = 1 THEN [wire[1] EXCEPT !.cut = @ \/ midway] ELSE wire[i]
<1>1. /\ wire \in Seq(Events) /\ wire # <<>> /\ Head(wire) = wire[1] /\ wire[1] \in Events
      /\ Len(wire) \in Nat \ {0} /\ DOMAIN wire = 1..Len(wire)
  BY DEF ReadFails, DeviceOK
<1>2. [wire[1] EXCEPT !.cut = @ \/ midway] \in Events
  BY <1>1 DEF Events, DeviceOK
<1>3. wire' = [wire EXCEPT ![1] = [wire[1] EXCEPT !.cut = @ \/ midway]]
  BY <1>1 DEF ReadFails
<1>. HIDE DEF Events
<1>4. wire' \in Seq(Events) /\ Len(wire') = Len(wire) /\ wire' # <<>>
  BY <1>1, <1>2, <1>3
<1>5. \A i \in 1..Len(wire) :
             /\ wire[i] \in Events
             /\ wire'[i] = IF i = 1 THEN [wire[1] EXCEPT !.cut = @ \/ midway] ELSE wire[i]
  BY <1>1, <1>3
<1>6. Head(wire') = wire'[1]
  BY <1>4
<1>. QED
  BY <1>1, <1>4, <1>5, <1>6 DEF ReadFails, DeviceOK

LEMMA KeyInvariant ==
  ASSUME PlainModifiers
  PROVE Spec => []KeyInv
<1>1. ASSUME Init PROVE KeyInv
  <2>1. wire = <<>> /\ taken = NoKey
    BY <1>1 DEF Init
  <2>2. KeyRecognised
    BY <2>1 DEF KeyRecognised
  <2>3. wire \in Seq(Events) /\ OneCut
    BY <2>1 DEF OneCut
  <2>. QED
    BY <1>1, <2>2, <2>3 DEF Init, KeyInv, DeviceOK
<1>2. ASSUME KeyInv, [Next]_vars PROVE KeyInv'
  <2>1. CASE Typist
    <3>1. PICK k \in PhysKey, make \in BOOLEAN :
            held' \subseteq PhysKey /\ capsLock' \in BOOLEAN /\ Queue(k, make)
      BY <1>2, <2>1, TypistStep DEF KeyInv
    <3>2. DeviceOK' /\ (wire # <<>> => wire' # <<>> /\ Head(wire') = Head(wire))
      BY <1>2, <3>1, QueueDevice DEF KeyInv
    <3>3. UNCHANGED <<midway, isTwoBytes, taken>>
      BY <3>1 DEF Queue
    <3>4. OneCut'
      <4>1. /\ wire' = Append(wire, Event(k, make)) /\ Event(k, make).cut = FALSE
            /\ Event(k, make) \in Events /\ wire \in Seq(Events)
        BY <1>2, <3>1, QueueDevice DEF Queue, Event, KeyInv, DeviceOK
      <4>. HIDE DEF Event
      <4>2. /\ Len(wire') = Len(wire) + 1 /\ wire'[Len(wire) + 1].cut = FALSE
            /\ \A i \in 1..Len(wire) : wire'[i] = wire[i]
        BY <4>1
      <4>3. \A i \in 1..Len(wire') : i \in 1..Len(wire) \/ i = Len(wire) + 1
        BY <4>1, <4>2
      <4>. QED
        BY <1>2, <3>3, <4>2, <4>3 DEF KeyInv, OneCut
    <3>5. KeyRecognised'
      BY <1>2, <3>3 DEF KeyInv, KeyRecognised, Code
    <3>. QED
      BY <1>2, <3>2, <3>3, <3>4, <3>5 DEF KeyInv, DeviceOK
  <2>2. CASE Interrupt
    BY <1>2, <2>2, InterruptKey
  <2>3. CASE ReadFails
    <3>1. /\ DeviceOK' /\ wire' # <<>> /\ Len(wire') = Len(wire)
          /\ midway => Head(wire').key.ext /\ Head(wire').cut
          /\ \A i \in 1..Len(wire) : i # 1 => wire'[i] = wire[i]
          /\ wire'[1].cut = (wire[1].cut \/ midway)
      BY <1>2, <2>3, FailedRead DEF KeyInv, DeviceOK, Events
    <3>2. UNCHANGED <<midway, taken>> /\ isTwoBytes' = FALSE
      BY <2>3 DEF ReadFails
    <3>3. OneCut'
      BY <1>2, <3>1, <3>2 DEF KeyInv, OneCut
    <3>4. KeyRecognised'
      BY <1>2, <3>2 DEF KeyInv, KeyRecognised, Code
    <3>. QED
      BY <1>2, <3>1, <3>2, <3>3, <3>4 DEF KeyInv, DeviceOK
  <2>4. CASE UNCHANGED vars
    BY <1>2, <2>4 DEF KeyInv, DeviceOK, OneCut, KeyRecognised, vars, device, Code
  <2>. QED
    BY <1>2, <2>1, <2>2, <2>3, <2>4 DEF Next
<1>. QED
  BY <1>1, <1>2, PTL DEF Spec

(* If the modifiers have no prefix, every scancode is handed over as the   *)
(* key that was pressed or released, unless a read failed within it.       *)
THEOREM KeysRecognised ==
  ASSUME PlainModifiers
  PROVE Spec => []KeyRecognised
<1>1. KeyInv => KeyRecognised
  BY DEF KeyInv
<1>. QED
  BY <1>1, KeyInvariant, PTL

-----------------------------------------------------------------------------
(* The types; the device's queue never grows past its capacity and the     *)
(* prefix is never handed over for a key.                                  *)
THEOREM TypeCorrect ==
  ASSUME PlainModifiers
  PROVE Spec => []TypeOK
<1>1. ASSUME Init PROVE TypeOK
  <2>1. wire = <<>> /\ wire \in Seq(Events) /\ Len(wire) = 0
    BY <1>1 DEF Init
  <2>2. Len(wire) <= Capacity
    BY <2>1, CapacityAssumption
  <2>3. held \subseteq PhysKey /\ scancode \in 0..255 /\ ~midway
    BY <1>1 DEF Init
  <2>4. /\ isTwoBytes = FALSE /\ isScancodeTwoBytes = FALSE /\ isShiftPressed = FALSE
        /\ isCtrlPressed = FALSE /\ isAltPressed = FALSE /\ isCapsLockActive = FALSE
        /\ capsLock = FALSE /\ midway = FALSE /\ taken = NoKey
    BY <1>1 DEF Init
  <2>. QED
    BY <2>1, <2>2, <2>3, <2>4 DEF TypeOK
<1>2. ASSUME TypeOK, KeyInv, KeyInv', [Next]_vars PROVE TypeOK'
  <2>1. DeviceOK' /\ (midway' => wire' # <<>> /\ Head(wire').key.ext)
    BY <1>2 DEF KeyInv
  <2>2. CASE Typist
    <3>1. PICK k \in PhysKey, make \in BOOLEAN : Queue(k, make)
      BY <1>2, <2>2, TypistStep DEF KeyInv
    <3>2. Len(wire') <= Capacity
      BY <1>2, <3>1, CapacityAssumption DEF Queue, TypeOK
    <3>3. /\ UNCHANGED <<scancode, isTwoBytes, isScancodeTwoBytes, flags, taken>>
          /\ TypeOK
      BY <1>2, <3>1 DEF Queue
    <3>. QED
      BY <2>1, <3>2, <3>3 DEF TypeOK, DeviceOK, flags
  <2>3. CASE Interrupt
    <3> DEFINE event == Head(wire)
               byte == IF event.key.ext /\ ~midway THEN TWO_BYTES ELSE Code(event)
    <3>1. /\ wire # <<>> /\ event \in Events
          /\ wire' = wire \/ wire' = Tail(wire)
      BY <1>2, <2>3, InterruptDevice DEF KeyInv, DeviceOK
    <3>2. Len(wire') <= Capacity
      BY <1>2, <3>1, CapacityAssumption DEF TypeOK
    <3>3. Code(event) \in 1..255 /\ Code(event) # TWO_BYTES
      BY <3>1, CodeFacts
    <3>4. scancode' = byte /\ (Prefix(byte) \/ Modifier(byte) \/ Key(byte, event))
      BY <2>3 DEF Interrupt
    <3>5. byte \in 1..255 /\ (byte # TWO_BYTES => byte = Code(event))
      BY <3>3 DEF TWO_BYTES
    <3>. HIDE DEF byte, event
    <3>6. scancode' \in 0..255
      BY <3>4, <3>5
    <3>7. CASE Prefix(byte)
      BY <1>2, <2>1, <3>2, <3>6, <3>7 DEF Prefix, TypeOK, DeviceOK, flags
    <3>8. CASE Modifier(byte)
      BY <1>2, <2>1, <3>2, <3>6, <3>8 DEF Modifier, Pressed, TypeOK, DeviceOK
    <3>9. CASE Key(byte, event)
      <4>1. /\ isScancodeTwoBytes' = isTwoBytes /\ isTwoBytes' = FALSE
            /\ UNCHANGED <<isShiftPressed, isCtrlPressed, isAltPressed, isCapsLockActive>>
            /\ taken' = [code |-> byte, two |-> isScancodeTwoBytes',
                         shifted |-> Shifted(byte), event |-> event]
            /\ byte # TWO_BYTES
        BY <3>9 DEF Key, Scancode, flags
      <4>2. Shifted(byte) \in BOOLEAN
        BY <1>2 DEF Shifted, TypeOK
      <4>3. taken' \in Taken
        BY <1>2, <3>1, <3>5, <4>1, <4>2 DEF TypeOK, Taken
      <4>. QED
        BY <1>2, <2>1, <3>2, <3>6, <4>1, <4>3 DEF TypeOK, DeviceOK
    <3>. QED
      BY <3>4, <3>7, <3>8, <3>9
  <2>4. CASE ReadFails
    <3>1. Len(wire') = Len(wire)
      BY <1>2, <2>4, FailedRead DEF KeyInv
    <3>2. /\ isTwoBytes' = FALSE /\ isScancodeTwoBytes' = FALSE
          /\ UNCHANGED <<scancode, flags, taken>>
      BY <2>4 DEF ReadFails
    <3>. QED
      BY <1>2, <2>1, <3>1, <3>2 DEF TypeOK, DeviceOK, flags
  <2>5. CASE UNCHANGED vars
    <3>1. UNCHANGED <<wire, scancode, isTwoBytes, isScancodeTwoBytes, flags, taken>>
      BY <2>5 DEF vars, device
    <3>. QED
      BY <1>2, <2>1, <3>1 DEF TypeOK, DeviceOK, flags
  <2>. QED
    BY <1>2, <2>2, <2>3, <2>4, <2>5 DEF Next
<1>. QED
  BY <1>1, <1>2, KeyInvariant, PTL DEF Spec

-----------------------------------------------------------------------------
(* Shift and Caps Lock after an event, from what they were before it. *)
ShiftAfter(shift, e) == IF IsShift(e.key) THEN e.make ELSE shift
CapsAfter(caps, e) == (caps # (IsCaps(e.key) /\ e.make))

ShiftBefore(i) == IF i = 1 THEN isShiftPressed ELSE wire[i - 1].shift
CapsBefore(i) == IF i = 1 THEN isCapsLockActive ELSE wire[i - 1].caps

Chain ==
    \A i \in 1..Len(wire) : /\ wire[i].shift = ShiftAfter(ShiftBefore(i), wire[i])
                            /\ wire[i].caps = CapsAfter(CapsBefore(i), wire[i])

(* The end of the queue, where the next event is appended. *)
ChainEnd ==
    /\ ShiftBefore(Len(wire) + 1) = ShiftDown(held)
    /\ CapsBefore(Len(wire) + 1) = capsLock

ShiftInv ==
    /\ DeviceOK
    /\ isShiftPressed \in BOOLEAN /\ isCapsLockActive \in BOOLEAN
    /\ Chain
    /\ ChainEnd
    /\ TypedAsHeld

-----------------------------------------------------------------------------
(* A byte of a modifier key changes the two flags as its event says; that  *)
(* of another key is not the make or break of a Shift, nor Caps Lock's     *)
(* make.                                                                   *)
LEMMA ModifierByte ==
  ASSUME PlainModifiers, NEW e \in Events, NEW shift \in BOOLEAN, NEW caps \in BOOLEAN
  PROVE /\ Code(e) \in ModifierBytes =>
             /\ Pressed(shift, ShiftCodes, Code(e)) = ShiftAfter(shift, e)
             /\ (caps # (Code(e) = CAPSLOCK_SCANCODE)) = CapsAfter(caps, e)
        /\ Code(e) \notin ModifierBytes =>
             /\ ShiftAfter(shift, e) = shift
             /\ CapsAfter(caps, e) = caps
<1>1. /\ e.key \in PhysKey /\ e.key.code \in (1..127) \ {96} /\ e.key.ext \in BOOLEAN
      /\ e.make \in BOOLEAN
  BY KeyAssumption DEF Events
<1>2. e.key.ext => e.key.code \notin {29, 42, 54, 56, 58}
  BY <1>1 DEF PlainModifiers, HeldCodes, ShiftCodes, LEFT_SHIFT_SCANCODE,
      RIGHT_SHIFT_SCANCODE, LEFT_CTRL_SCANCODE, LEFT_ALT_SCANCODE, CAPSLOCK_SCANCODE
<1>3. ModifierBytes = {29, 42, 54, 56, 157, 170, 182, 184, 58}
  BY DEF ModifierBytes, HeldCodes, ShiftCodes, BREAK_CODE, LEFT_SHIFT_SCANCODE,
      RIGHT_SHIFT_SCANCODE, LEFT_CTRL_SCANCODE, LEFT_ALT_SCANCODE, CAPSLOCK_SCANCODE
<1>4. Code(e) = IF e.make THEN e.key.code ELSE e.key.code + 128
  BY <1>1 DEF Code, BREAK_CODE
<1>5. /\ IsShift(e.key) <=> e.key.code \in {42, 54} /\ ~e.key.ext
      /\ IsCaps(e.key) <=> e.key.code = 58 /\ ~e.key.ext
  BY DEF IsShift, IsCaps, ShiftCodes, LEFT_SHIFT_SCANCODE, RIGHT_SHIFT_SCANCODE,
      CAPSLOCK_SCANCODE
<1>6. Pressed(shift, ShiftCodes, Code(e))
        <=> Code(e) \in {42, 54} \/ (shift /\ Code(e) - 128 \notin {42, 54})
  BY DEF Pressed, ShiftCodes, BREAK_CODE, LEFT_SHIFT_SCANCODE, RIGHT_SHIFT_SCANCODE
<1>7. ASSUME Code(e) \in ModifierBytes
      PROVE /\ Pressed(shift, ShiftCodes, Code(e)) = ShiftAfter(shift, e)
            /\ (caps # (Code(e) = CAPSLOCK_SCANCODE)) = CapsAfter(caps, e)
  <2>1. ~e.key.ext
    BY <1>1, <1>2, <1>3, <1>4, <1>7
  <2>2. CASE e.make
    <3>1. e.make = TRUE /\ Code(e) = e.key.code
      BY <1>1, <1>4, <2>2
    <3>2. Code(e) - 128 \notin {42, 54}
      BY <1>1, <3>1
    <3>3. Pressed(shift, ShiftCodes, Code(e)) <=> shift \/ e.key.code \in {42, 54}
      BY <1>6, <3>1, <3>2
    <3>4. Pressed(shift, ShiftCodes, Code(e)) \in BOOLEAN
      BY DEF Pressed
    <3>5. Pressed(shift, ShiftCodes, Code(e)) = ShiftAfter(shift, e)
      BY <1>5, <2>1, <3>1, <3>3, <3>4 DEF ShiftAfter
    <3>6. IsCaps(e.key) <=> Code(e) = CAPSLOCK_SCANCODE
      BY <1>5, <2>1, <3>1 DEF CAPSLOCK_SCANCODE
    <3>7. (caps # (Code(e) = CAPSLOCK_SCANCODE)) = CapsAfter(caps, e)
      BY <3>1, <3>6 DEF CapsAfter
    <3>. QED
      BY <3>5, <3>7
  <2>3. CASE ~e.make
    <3>1. e.make = FALSE /\ Code(e) = e.key.code + 128
      BY <1>1, <1>4, <2>3
    <3>2. Code(e) \notin {42, 54, 58}
      BY <1>1, <3>1
    <3>3. Pressed(shift, ShiftCodes, Code(e)) <=> shift /\ e.key.code \notin {42, 54}
      BY <1>1, <1>6, <3>1, <3>2
    <3>4. Pressed(shift, ShiftCodes, Code(e)) \in BOOLEAN
      BY DEF Pressed
    <3>5. Pressed(shift, ShiftCodes, Code(e)) = ShiftAfter(shift, e)
      BY <1>5, <2>1, <3>1, <3>3, <3>4 DEF ShiftAfter
    <3>. QED
      BY <3>1, <3>2, <3>5 DEF CapsAfter, CAPSLOCK_SCANCODE
  <2>. QED
    BY <2>2, <2>3, <1>1
<1>8. ASSUME Code(e) \notin ModifierBytes
      PROVE ShiftAfter(shift, e) = shift /\ CapsAfter(caps, e) = caps
  BY <1>1, <1>3, <1>4, <1>5, <1>8 DEF ShiftAfter, CapsAfter
<1>. QED
  BY <1>7, <1>8

(* An event queued continues the chain. *)
LEMMA ChainQueue ==
  ASSUME ShiftInv, held' \subseteq PhysKey, capsLock' \in BOOLEAN,
         NEW k \in PhysKey, NEW make \in BOOLEAN, Queue(k, make),
         ShiftDown(held') = (IF IsShift(k) THEN make ELSE ShiftDown(held)),
         capsLock' = (capsLock # (IsCaps(k) /\ make))
  PROVE ShiftInv'
<1> DEFINE e == Event(k, make)
<1>1. DeviceOK' /\ e \in Events
  BY QueueDevice DEF ShiftInv
<1>2. /\ wire' = Append(wire, e) /\ wire \in Seq(Events)
      /\ UNCHANGED <<isShiftPressed, isCapsLockActive, taken>>
  BY DEF Queue, ShiftInv, DeviceOK, flags
<1>3. e.key = k /\ e.make = make /\ e.shift = ShiftDown(held') /\ e.caps = capsLock'
  BY DEF Event
<1>. HIDE DEF e
<1>4. /\ Len(wire') = Len(wire) + 1 /\ Len(wire) \in Nat
      /\ wire'[Len(wire) + 1] = e
      /\ \A i \in 1..Len(wire) : wire'[i] = wire[i]
  BY <1>1, <1>2
<1>5. \A i \in 1..Len(wire) + 1 : /\ ShiftBefore(i)' = ShiftBefore(i)
                                  /\ CapsBefore(i)' = CapsBefore(i)
  BY <1>2, <1>4 DEF ShiftBefore, CapsBefore
<1>6. ChainEnd'
  BY <1>3, <1>4 DEF ChainEnd, ShiftBefore, CapsBefore
<1>7. Chain'
  <2>. SUFFICES ASSUME NEW i \in 1..Len(wire')
                PROVE /\ wire'[i].shift = ShiftAfter(ShiftBefore(i)', wire'[i])
                      /\ wire'[i].caps = CapsAfter(CapsBefore(i)', wire'[i])
    BY DEF Chain, ShiftAfter, CapsAfter, IsShift, IsCaps
  <2>1. CASE i \in 1..Len(wire)
    BY <2>1, <1>4, <1>5 DEF ShiftInv, Chain
  <2>2. CASE i = Len(wire) + 1
    BY <2>2, <1>3, <1>4, <1>5 DEF ShiftInv, ChainEnd, ShiftAfter, CapsAfter
  <2>. QED
    BY <2>1, <2>2, <1>4
<1>8. TypedAsHeld'
  BY <1>2 DEF ShiftInv, TypedAsHeld
<1>. QED
  BY <1>1, <1>2, <1>6, <1>7, <1>8 DEF ShiftInv

(* Each of the typist's actions has the effect on Shift and Caps Lock that *)
(* its event records.                                                      *)
LEMMA TypistChain ==
  ASSUME OneShift, CapsOnce, ShiftInv, Typist
  PROVE ShiftInv'
<1>. USE DEF ShiftInv, DeviceOK
<1>1. ASSUME NEW k \in PhysKey, Press(k) PROVE ShiftInv'
  <2>1. ShiftDown(held') = (IF IsShift(k) THEN TRUE ELSE ShiftDown(held))
    BY <1>1 DEF Press, ShiftDown, IsShift
  <2>2. capsLock' = (capsLock # (IsCaps(k) /\ TRUE))
    BY <1>1 DEF Press, IsCaps
  <2>. QED
    BY <1>1, <2>1, <2>2, ChainQueue DEF Press
<1>2. ASSUME NEW k \in PhysKey, Release(k) PROVE ShiftInv'
  <2>1. ShiftDown(held') = (IF IsShift(k) THEN FALSE ELSE ShiftDown(held))
    <3>1. CASE IsShift(k)
      BY <1>2, <3>1 DEF Release, ShiftDown, OneShift
    <3>2. CASE ~IsShift(k)
      BY <1>2, <3>2 DEF Release, ShiftDown
    <3>. QED
      BY <3>1, <3>2
  <2>2. capsLock' = (capsLock # (IsCaps(k) /\ FALSE))
    BY <1>2 DEF Release
  <2>. QED
    BY <1>2, <2>1, <2>2, ChainQueue DEF Release
<1>3. ASSUME NEW k \in Repeats, Repeat(k) PROVE ShiftInv'
  <2>1. k \in PhysKey
    BY KeyAssumption
  <2>2. ShiftDown(held') = (IF IsShift(k) THEN TRUE ELSE ShiftDown(held))
    BY <1>3 DEF Repeat, ShiftDown
  <2>3. capsLock' = (capsLock # (IsCaps(k) /\ TRUE))
    <3>1. ~IsCaps(k)
      BY DEF CapsOnce
    <3>2. capsLock' = capsLock /\ capsLock \in BOOLEAN
      BY <1>3 DEF Repeat
    <3>. QED
      BY <3>1, <3>2
  <2>. QED
    BY <1>3, <2>1, <2>2, <2>3, ChainQueue DEF Repeat
<1>. QED
  BY <1>1, <1>2, <1>3 DEF Typist

(* A byte read that is not a prefix moves the flags past the first event.  *)
LEMMA ChainRead ==
  ASSUME DeviceOK, wire # <<>>, Chain, ChainEnd, wire' = Tail(wire),
         UNCHANGED <<held, capsLock>>,
         isShiftPressed' = ShiftAfter(isShiftPressed, Head(wire)),
         isCapsLockActive' = CapsAfter(isCapsLockActive, Head(wire))
  PROVE Chain' /\ ChainEnd'
<1>1. /\ wire \in Seq(Events) /\ Len(wire) \in Nat \ {0} /\ Head(wire) = wire[1]
      /\ Len(wire') = Len(wire) - 1
      /\ \A i \in 1..Len(wire') : wire'[i] = wire[i + 1]
  BY DEF DeviceOK
<1>2. wire[1].shift = isShiftPressed' /\ wire[1].caps = isCapsLockActive'
  BY <1>1 DEF Chain, ShiftBefore, CapsBefore
<1>3. \A i \in 1..Len(wire') + 1 : /\ ShiftBefore(i)' = ShiftBefore(i + 1)
                                   /\ CapsBefore(i)' = CapsBefore(i + 1)
  <2>. SUFFICES ASSUME NEW i \in 1..Len(wire') + 1
                PROVE /\ ShiftBefore(i)' = ShiftBefore(i + 1)
                      /\ CapsBefore(i)' = CapsBefore(i + 1)
    OBVIOUS
  <2>1. CASE i = 1
    BY <2>1, <1>2 DEF ShiftBefore, CapsBefore
  <2>2. CASE i # 1
    <3>1. i - 1 \in 1..Len(wire') /\ i + 1 # 1 /\ i + 1 - 1 = i /\ i - 1 + 1 = i
      BY <2>2, <1>1
    <3>2. wire'[i - 1] = wire[i]
      BY <3>1, <1>1
    <3>. QED
      BY <2>2, <3>1, <3>2 DEF ShiftBefore, CapsBefore
  <2>. QED
    BY <2>1, <2>2
<1>4. Chain'
  <2>. SUFFICES ASSUME NEW i \in 1..Len(wire')
                PROVE /\ wire'[i].shift = ShiftAfter(ShiftBefore(i)', wire'[i])
                      /\ wire'[i].caps = CapsAfter(CapsBefore(i)', wire'[i])
    BY DEF Chain, ShiftAfter, CapsAfter, IsShift, IsCaps
  <2>1. i + 1 \in 1..Len(wire) /\ wire'[i] = wire[i + 1]
    BY <1>1
  <2>. QED
    BY <2>1, <1>1, <1>3 DEF Chain
<1>5. ChainEnd'
  <2>1. Len(wire') + 1 \in 1..Len(wire') + 1 /\ Len(wire') + 1 + 1 = Len(wire) + 1
    BY <1>1
  <2>. QED
    BY <2>1, <1>3 DEF ChainEnd, ShiftDown
<1>. QED
  BY <1>4, <1>5

(* One interrupt: the flags follow the byte, and a scancode handed over    *)
(* finds them as they were when its key was pressed.                       *)
LEMMA InterruptChain ==
  ASSUME PlainModifiers, ShiftInv, Interrupt
  PROVE ShiftInv'
<1> DEFINE event == Head(wire)
           prefix == event.key.ext /\ ~midway
           byte == IF prefix THEN TWO_BYTES ELSE Code(event)
<1>1. /\ DeviceOK' /\ wire # <<>> /\ event \in Events
      /\ midway' => wire' = wire
      /\ ~midway' => wire' = Tail(wire)
  BY InterruptDevice DEF ShiftInv
<1>2. /\ midway' = prefix /\ UNCHANGED <<held, capsLock>>
      /\ Prefix(byte) \/ Modifier(byte) \/ Key(byte, event)
  BY DEF Interrupt
<1>3. Code(event) # TWO_BYTES
  BY <1>1, CodeFacts
<1>4. TWO_BYTES \notin ModifierBytes
  BY DEF TWO_BYTES, ModifierBytes, HeldCodes, ShiftCodes, BREAK_CODE, LEFT_SHIFT_SCANCODE,
         RIGHT_SHIFT_SCANCODE, LEFT_CTRL_SCANCODE, LEFT_ALT_SCANCODE, CAPSLOCK_SCANCODE
<1>. HIDE DEF event
<1>5. CASE prefix
  <2>1. Prefix(TWO_BYTES) /\ wire' = wire
    BY <1>1, <1>2, <1>4, <1>5 DEF Modifier, Key
  <2>2. UNCHANGED <<isShiftPressed, isCapsLockActive, taken, wire, held, capsLock>>
    BY <2>1, <1>2 DEF Prefix, flags
  <2>3. TypedAsHeld'
    BY <2>2 DEF ShiftInv, TypedAsHeld
  <2>4. Chain' /\ ChainEnd'
    BY <2>2 DEF ShiftInv, Chain, ChainEnd, ShiftBefore, CapsBefore, ShiftDown
  <2>. QED
    BY <2>2, <2>3, <2>4, <1>1 DEF ShiftInv
<1>6. CASE ~prefix
  <2>1. wire' = Tail(wire) /\ (Modifier(Code(event)) \/ Key(Code(event), event))
    BY <1>1, <1>2, <1>3, <1>6 DEF Prefix
  <2>2. CASE Modifier(Code(event))
    <3>1. /\ isShiftPressed' = ShiftAfter(isShiftPressed, event)
          /\ isCapsLockActive' = CapsAfter(isCapsLockActive, event)
      BY <2>2, <1>1, ModifierByte DEF Modifier, ShiftInv
    <3>2. Chain' /\ ChainEnd'
      BY <3>1, <2>1, <1>1, <1>2, ChainRead DEF ShiftInv, event
    <3>3. taken' = taken
      BY <2>2 DEF Modifier
    <3>4. TypedAsHeld'
      BY <3>3 DEF ShiftInv, TypedAsHeld
    <3>5. isShiftPressed' \in BOOLEAN /\ isCapsLockActive' \in BOOLEAN
      BY <2>2 DEF Modifier, Pressed
    <3>. QED
      BY <3>2, <3>4, <3>5, <1>1 DEF ShiftInv
  <2>3. CASE Key(Code(event), event)
    <3>1. /\ Code(event) \notin ModifierBytes
          /\ UNCHANGED <<isShiftPressed, isCapsLockActive>>
          /\ taken'.shifted = Shifted(Code(event)) /\ taken'.event = event
      BY <2>3 DEF Key, flags
    <3>2. /\ ShiftAfter(isShiftPressed, event) = isShiftPressed
          /\ CapsAfter(isCapsLockActive, event) = isCapsLockActive
      BY <3>1, <1>1, ModifierByte DEF ShiftInv
    <3>3. Chain' /\ ChainEnd'
      BY <3>1, <3>2, <2>1, <1>1, <1>2, ChainRead DEF ShiftInv, event
    <3>4. event.shift = isShiftPressed /\ event.caps = isCapsLockActive
      BY <3>2, <1>1 DEF ShiftInv, DeviceOK, Chain, ShiftBefore, CapsBefore, event
    <3>5. event.make => Code(event) = event.key.code
      <4>1. event.key \in PhysKey /\ event.key.code \in 1..127
        BY <1>1, KeyAssumption DEF Events
      <4>. QED
        BY <4>1 DEF Code
    <3>6. TypedAsHeld'
      BY <3>1, <3>4, <3>5 DEF TypedAsHeld, Shifted
    <3>. QED
      BY <3>1, <3>3, <3>6, <1>1 DEF ShiftInv
  <2>. QED
    BY <2>1, <2>2, <2>3
<1>. QED
  BY <1>5, <1>6

LEMMA ShiftInvariant ==
  ASSUME PlainModifiers, OneShift, CapsOnce
  PROVE Spec => []ShiftInv
<1>1. ASSUME Init PROVE ShiftInv
  <2>1. /\ held = {} /\ capsLock = FALSE /\ wire = <<>> /\ taken = NoKey
        /\ isShiftPressed = FALSE /\ isCapsLockActive = FALSE /\ midway = FALSE
    BY <1>1 DEF Init
  <2>2. DeviceOK
    <3>1. wire \in Seq(Events)
      BY <2>1
    <3>. QED
      BY <2>1, <3>1 DEF DeviceOK
  <2>3. Chain /\ ChainEnd
    <3>1. Len(wire) = 0 /\ Len(wire) + 1 = 1
      BY <2>1
    <3>2. Chain
      BY <3>1 DEF Chain
    <3>3. ShiftDown(held) = FALSE
      BY <2>1 DEF ShiftDown
    <3>4. ShiftBefore(1) = FALSE /\ CapsBefore(1) = FALSE
      BY <2>1 DEF ShiftBefore, CapsBefore
    <3>5. ChainEnd
      BY <2>1, <3>1, <3>3, <3>4 DEF ChainEnd
    <3>. QED
      BY <3>2, <3>5
  <2>4. TypedAsHeld
    BY <2>1 DEF TypedAsHeld
  <2>. QED
    BY <2>1, <2>2, <2>3, <2>4 DEF ShiftInv
<1>2. ASSUME ShiftInv, [Next]_vars PROVE ShiftInv'
  <2>1. CASE Typist
    BY <1>2, <2>1, TypistChain
  <2>2. CASE Interrupt
    BY <1>2, <2>2, InterruptChain
  <2>3. CASE ReadFails
    <3>1. /\ DeviceOK' /\ wire # <<>> /\ Len(wire') = Len(wire) /\ Len(wire) \in Nat \ {0}
          /\ UNCHANGED <<held, capsLock, isShiftPressed, isCapsLockActive, taken>>
      <4>1. DeviceOK' /\ wire # <<>> /\ Len(wire') = Len(wire)
        BY <1>2, <2>3, FailedRead DEF ShiftInv
      <4>2. wire \in Seq(Events)
        BY <1>2 DEF ShiftInv, DeviceOK
      <4>3. Len(wire) \in Nat \ {0}
        BY <4>1, <4>2
      <4>. QED
        BY <2>3, <4>1, <4>3 DEF ReadFails, flags
    <3>2. \A i \in 1..Len(wire) : /\ wire'[i].key = wire[i].key
                                  /\ wire'[i].make = wire[i].make
                                  /\ wire'[i].shift = wire[i].shift
                                  /\ wire'[i].caps = wire[i].caps
      BY <1>2, <2>3, FailedRead DEF ShiftInv, Events
    <3>3. \A i \in 1..Len(wire) + 1 : /\ ShiftBefore(i)' = ShiftBefore(i)
                                      /\ CapsBefore(i)' = CapsBefore(i)
      <4>1. \A i \in 1..Len(wire) + 1 : i # 1 => i - 1 \in 1..Len(wire)
        BY <3>1
      <4>. QED
        BY <3>1, <3>2, <4>1 DEF ShiftBefore, CapsBefore
    <3>4. Chain'
      <4>. SUFFICES ASSUME NEW i \in 1..Len(wire')
                    PROVE /\ wire'[i].shift = ShiftAfter(ShiftBefore(i)', wire'[i])
                          /\ wire'[i].caps = CapsAfter(CapsBefore(i)', wire'[i])
        BY DEF Chain, ShiftAfter, CapsAfter, IsShift, IsCaps
      <4>1. i \in 1..Len(wire) /\ i \in 1..Len(wire) + 1
        BY <3>1
      <4>. QED
        BY <1>2, <3>2, <3>3, <4>1 DEF ShiftInv, Chain, ShiftAfter, CapsAfter
    <3>5. ChainEnd'
      <4>1. Len(wire) + 1 \in 1..Len(wire) + 1
        BY <3>1
      <4>2. ShiftDown(held)' = ShiftDown(held)
        BY <3>1 DEF ShiftDown
      <4>3. /\ ShiftBefore(Len(wire) + 1)' = ShiftBefore(Len(wire) + 1)
            /\ CapsBefore(Len(wire) + 1)' = CapsBefore(Len(wire) + 1)
        BY <3>1, <3>3, <4>1 DEF ShiftBefore, CapsBefore
      <4>. QED
        BY <1>2, <3>1, <4>2, <4>3 DEF ShiftInv, ChainEnd
    <3>6. TypedAsHeld'
      BY <1>2, <3>1 DEF ShiftInv, TypedAsHeld
    <3>. QED
      BY <1>2, <3>1, <3>4, <3>5, <3>6 DEF ShiftInv
  <2>4. CASE UNCHANGED vars
    <3>1. UNCHANGED <<held, capsLock, wire, midway, isShiftPressed, isCapsLockActive, taken>>
      BY <2>4 DEF vars, device, flags
    <3>2. TypedAsHeld'
      BY <1>2, <3>1 DEF ShiftInv, TypedAsHeld
    <3>3. Chain' /\ ChainEnd'
      BY <1>2, <3>1 DEF ShiftInv, Chain, ChainEnd, ShiftBefore, CapsBefore, ShiftDown
    <3>. QED
      BY <1>2, <3>1, <3>2, <3>3 DEF ShiftInv, DeviceOK
  <2>. QED
    BY <1>2, <2>1, <2>2, <2>3, <2>4 DEF Next
<1>. QED
  BY <1>1, <1>2, PTL DEF Spec

(* If the modifiers have no prefix, one Shift is used and Caps Lock does   *)
(* not repeat, a character has the case it was pressed in, however late    *)
(* it is read and however often a read fails.                              *)
THEOREM CaseAsPressed ==
  ASSUME PlainModifiers, OneShift, CapsOnce
  PROVE Spec => []TypedAsHeld
<1>1. ShiftInv => TypedAsHeld
  BY DEF ShiftInv
<1>. QED
  BY <1>1, ShiftInvariant, PTL

-----------------------------------------------------------------------------
(* Ctrl and Alt: the last event of the key still queued says whether it is *)
(* down, and the program's flag says so if there is none.                  *)
IsKey(e, code) == e.key.code = code /\ ~e.key.ext
FlagAfter(flag, e, code) == IF IsKey(e, code) THEN e.make ELSE flag

LastOf(i, code) ==
    /\ IsKey(wire[i], code)
    /\ \A j \in 1..Len(wire) : j > i => ~IsKey(wire[j], code)

Follows(flag, code) ==
    /\ flag \in BOOLEAN
    /\ \A i \in 1..Len(wire) : LastOf(i, code) => wire[i].make = Down(code)
    /\ (\A i \in 1..Len(wire) : ~IsKey(wire[i], code)) => flag = Down(code)

HeldInv ==
    /\ DeviceOK
    /\ Follows(isCtrlPressed, LEFT_CTRL_SCANCODE)
    /\ Follows(isAltPressed, LEFT_ALT_SCANCODE)

(* What a byte does to the flag of a key with one code. *)
LEMMA HeldByte ==
  ASSUME PlainModifiers, NEW e \in Events, NEW flag \in BOOLEAN,
         NEW code \in {LEFT_CTRL_SCANCODE, LEFT_ALT_SCANCODE}
  PROVE /\ Code(e) \in ModifierBytes =>
             Pressed(flag, {code}, Code(e)) = FlagAfter(flag, e, code)
        /\ Code(e) \notin ModifierBytes => FlagAfter(flag, e, code) = flag
<1>1. /\ e.key \in PhysKey /\ e.key.code \in (1..127) \ {96} /\ e.key.ext \in BOOLEAN
      /\ e.make \in BOOLEAN
  BY KeyAssumption DEF Events
<1>2. e.key.ext => Code(e) \notin ModifierBytes
  BY CodeFacts
<1>3. ModifierBytes = {29, 42, 54, 56, 157, 170, 182, 184, 58} /\ code \in {29, 56}
  BY DEF ModifierBytes, HeldCodes, ShiftCodes, BREAK_CODE, LEFT_SHIFT_SCANCODE,
      RIGHT_SHIFT_SCANCODE, LEFT_CTRL_SCANCODE, LEFT_ALT_SCANCODE, CAPSLOCK_SCANCODE
<1>4. Code(e) = IF e.make THEN e.key.code ELSE e.key.code + 128
  BY <1>1 DEF Code, BREAK_CODE
<1>5. Pressed(flag, {code}, Code(e)) <=> Code(e) = code \/ (flag /\ Code(e) - 128 # code)
  BY DEF Pressed, BREAK_CODE
<1>6. Pressed(flag, {code}, Code(e)) \in BOOLEAN
  BY DEF Pressed
<1>7. ASSUME Code(e) \in ModifierBytes
      PROVE Pressed(flag, {code}, Code(e)) = FlagAfter(flag, e, code)
  <2>1. ~e.key.ext
    BY <1>2, <1>7
  <2>2. CASE e.make
    <3>1. e.make = TRUE /\ Code(e) = e.key.code /\ Code(e) - 128 # code
      BY <1>1, <1>3, <1>4, <2>2
    <3>. QED
      BY <1>5, <1>6, <2>1, <3>1 DEF FlagAfter, IsKey
  <2>3. CASE ~e.make
    <3>1. e.make = FALSE /\ Code(e) # code /\ (Code(e) - 128 = code <=> e.key.code = code)
      BY <1>1, <1>3, <1>4, <2>3
    <3>. QED
      BY <1>5, <1>6, <2>1, <3>1 DEF FlagAfter, IsKey
  <2>. QED
    BY <2>2, <2>3
<1>8. ASSUME Code(e) \notin ModifierBytes PROVE ~IsKey(e, code)
  BY <1>1, <1>3, <1>4, <1>8 DEF IsKey
<1>. QED
  BY <1>7, <1>8 DEF FlagAfter

(* A new event of the key is the last one; another leaves the last one.    *)
LEMMA FollowsQueue ==
  ASSUME NEW flag, NEW newFlag, newFlag = flag, NEW code,
         DeviceOK, Follows(flag, code),
         NEW e \in Events, wire' = Append(wire, e),
         NEW down \in BOOLEAN, down = FlagAfter(Down(code), e, code)
  PROVE /\ \A i \in 1..Len(wire') : LastOf(i, code)' => wire'[i].make = down
        /\ (\A i \in 1..Len(wire') : ~IsKey(wire'[i], code)) => newFlag = down
<1>1. /\ Len(wire') = Len(wire) + 1 /\ Len(wire) \in Nat
      /\ wire'[Len(wire) + 1] = e
      /\ \A i \in 1..Len(wire) : wire'[i] = wire[i]
  BY DEF DeviceOK
<1>2. ASSUME NEW i \in 1..Len(wire'), LastOf(i, code)' PROVE wire'[i].make = down
  <2>1. IsKey(wire'[i], code) /\ \A j \in 1..Len(wire') : j > i => ~IsKey(wire'[j], code)
    BY <1>2 DEF LastOf, IsKey
  <2>2. CASE i = Len(wire) + 1
    BY <2>1, <2>2, <1>1 DEF FlagAfter
  <2>3. CASE i # Len(wire) + 1
    <3>1. i \in 1..Len(wire) /\ Len(wire) + 1 \in 1..Len(wire') /\ Len(wire) + 1 > i
      BY <1>1, <2>3
    <3>2. ~IsKey(e, code)
      BY <2>1, <3>1, <1>1
    <3>3. \A j \in 1..Len(wire) : j \in 1..Len(wire') /\ wire'[j] = wire[j]
      BY <1>1
    <3>4. LastOf(i, code)
      BY <2>1, <3>1, <3>3 DEF LastOf
    <3>. QED
      BY <3>1, <3>2, <3>3, <3>4 DEF Follows, FlagAfter
  <2>. QED
    BY <2>2, <2>3
<1>3. ASSUME \A i \in 1..Len(wire') : ~IsKey(wire'[i], code) PROVE newFlag = down
  <2>1. ~IsKey(e, code) /\ \A i \in 1..Len(wire) : ~IsKey(wire[i], code)
    <3>1. Len(wire) + 1 \in 1..Len(wire') /\ \A i \in 1..Len(wire) : i \in 1..Len(wire')
      BY <1>1
    <3>. QED
      BY <1>1, <1>3, <3>1
  <2>. QED
    BY <2>1 DEF Follows, FlagAfter
<1>. QED
  BY <1>2, <1>3

(* Reading the first event: if it was the last of its key, the flag now    *)
(* says what it said.                                                      *)
LEMMA FollowsRead ==
  ASSUME NEW flag, NEW newFlag, NEW code,
         DeviceOK, wire # <<>>, wire' = Tail(wire), Follows(flag, code),
         newFlag = FlagAfter(flag, Head(wire), code),
         NEW down, down = Down(code)
  PROVE /\ \A i \in 1..Len(wire') : LastOf(i, code)' => wire'[i].make = down
        /\ (\A i \in 1..Len(wire') : ~IsKey(wire'[i], code)) => newFlag = down
<1>1. /\ Len(wire) \in Nat \ {0} /\ Head(wire) = wire[1] /\ Len(wire') = Len(wire) - 1
      /\ \A i \in 1..Len(wire') : wire'[i] = wire[i + 1]
  BY DEF DeviceOK
<1>2. \A j \in 1..Len(wire) : j = 1 \/ (j - 1 \in 1..Len(wire') /\ wire'[j - 1] = wire[j])
  <2>. SUFFICES ASSUME NEW j \in 1..Len(wire), j # 1
                PROVE j - 1 \in 1..Len(wire') /\ wire'[j - 1] = wire[j]
    OBVIOUS
  <2>1. j - 1 \in 1..Len(wire') /\ j - 1 + 1 = j
    BY <1>1
  <2>. QED
    BY <2>1, <1>1
<1>3. ASSUME NEW i \in 1..Len(wire'), LastOf(i, code)' PROVE wire'[i].make = down
  <2>1. IsKey(wire'[i], code) /\ \A j \in 1..Len(wire') : j > i => ~IsKey(wire'[j], code)
    BY <1>3 DEF LastOf, IsKey
  <2>2. i + 1 \in 1..Len(wire) /\ wire'[i] = wire[i + 1]
    BY <1>1
  <2>3. \A j \in 1..Len(wire) : j > i + 1 => j # 1 /\ j - 1 > i
    BY <1>1
  <2>4. LastOf(i + 1, code)
    BY <2>1, <2>2, <2>3, <1>2 DEF LastOf
  <2>. QED
    BY <2>2, <2>4 DEF Follows
<1>4. ASSUME \A i \in 1..Len(wire') : ~IsKey(wire'[i], code) PROVE newFlag = down
  <2>1. \A j \in 1..Len(wire) : j > 1 => ~IsKey(wire[j], code)
    BY <1>1, <1>2, <1>4
  <2>2. 1 \in 1..Len(wire) /\ \A j \in 1..Len(wire) : j = 1 \/ j > 1
    BY <1>1
  <2>3. CASE IsKey(wire[1], code)
    BY <2>1, <2>2, <2>3, <1>1 DEF Follows, LastOf, FlagAfter
  <2>4. CASE ~IsKey(wire[1], code)
    <3>1. \A j \in 1..Len(wire) : ~IsKey(wire[j], code)
      BY <2>1, <2>2, <2>4
    <3>. QED
      BY <3>1, <2>4, <1>1 DEF Follows, FlagAfter
  <2>. QED
    BY <2>3, <2>4
<1>. QED
  BY <1>3, <1>4

(* Down after the typist's actions, as their events say. *)
LEMMA TypistHeld ==
  ASSUME DeviceOK, Typist, NEW code \in Nat
  PROVE \E k \in PhysKey, make \in BOOLEAN :
          /\ held' \subseteq PhysKey /\ capsLock' \in BOOLEAN
          /\ Queue(k, make)
          /\ Down(code)' = FlagAfter(Down(code), Event(k, make), code)
<1>1. \A k \in PhysKey : k = [code |-> k.code, ext |-> k.ext] /\ k.ext \in BOOLEAN
  BY KeyAssumption
<1>2. \A k \in PhysKey, make \in BOOLEAN :
        FlagAfter(Down(code), Event(k, make), code)
          = IF k.code = code /\ ~k.ext THEN make ELSE Down(code)
  BY DEF FlagAfter, IsKey, Event
<1>3. ASSUME NEW k \in PhysKey, Press(k)
      PROVE Down(code)' = FlagAfter(Down(code), Event(k, TRUE), code)
  <2>1. Down(code)' = IF k.code = code /\ ~k.ext THEN TRUE ELSE Down(code)
    BY <1>3 DEF Press, Down
  <2>. QED
    BY <2>1, <1>2
<1>4. ASSUME NEW k \in PhysKey, Release(k)
      PROVE Down(code)' = FlagAfter(Down(code), Event(k, FALSE), code)
  <2>1. \A l \in held : l.code = k.code /\ ~l.ext /\ ~k.ext => l = k
    BY <1>1 DEF DeviceOK
  <2>2. Down(code)' = IF k.code = code /\ ~k.ext THEN FALSE ELSE Down(code)
    BY <1>4, <2>1 DEF Release, Down
  <2>. QED
    BY <2>2, <1>2
<1>5. ASSUME NEW k \in Repeats, Repeat(k)
      PROVE k \in PhysKey /\ Down(code)' = FlagAfter(Down(code), Event(k, TRUE), code)
  <2>1. k \in PhysKey
    BY KeyAssumption
  <2>2. Down(code)' = IF k.code = code /\ ~k.ext THEN TRUE ELSE Down(code)
    BY <1>5 DEF Repeat, Down
  <2>. QED
    BY <2>1, <2>2, <1>2
<1>6. ASSUME NEW k \in PhysKey, Press(k)
      PROVE held' \subseteq PhysKey /\ capsLock' \in BOOLEAN /\ Queue(k, TRUE)
  BY <1>6 DEF Press, DeviceOK
<1>7. ASSUME NEW k \in PhysKey, Release(k)
      PROVE held' \subseteq PhysKey /\ capsLock' \in BOOLEAN /\ Queue(k, FALSE)
  BY <1>7 DEF Release, DeviceOK
<1>8. ASSUME NEW k \in Repeats, Repeat(k)
      PROVE held' \subseteq PhysKey /\ capsLock' \in BOOLEAN /\ Queue(k, TRUE)
  BY <1>8 DEF Repeat, DeviceOK
<1>. QED
  BY <1>3, <1>4, <1>5, <1>6, <1>7, <1>8 DEF Typist

(* Nothing changes for a key as long as the events and what is down do not. *)
LEMMA FollowsStays ==
  ASSUME NEW flag, NEW newFlag, newFlag = flag, NEW code, Follows(flag, code),
         Len(wire') = Len(wire), held' = held,
         \A i \in 1..Len(wire) : wire'[i].key = wire[i].key /\ wire'[i].make = wire[i].make
  PROVE /\ \A i \in 1..Len(wire') : LastOf(i, code)' => wire'[i].make = Down(code)'
        /\ (\A i \in 1..Len(wire') : ~IsKey(wire'[i], code)) => newFlag = Down(code)'
<1>1. \A i \in 1..Len(wire) : IsKey(wire'[i], code) = IsKey(wire[i], code)
  BY DEF IsKey
<1>2. Down(code)' = Down(code)
  BY DEF Down
<1>3. \A i \in 1..Len(wire) : LastOf(i, code)' => LastOf(i, code)
  BY <1>1 DEF LastOf, IsKey
<1>. QED
  BY <1>1, <1>2, <1>3 DEF Follows

(* One interrupt moves Ctrl and Alt past the first event. *)
LEMMA InterruptHeld ==
  ASSUME PlainModifiers, HeldInv, Interrupt
  PROVE HeldInv'
<1> DEFINE event == Head(wire)
           prefix == event.key.ext /\ ~midway
           byte == IF prefix THEN TWO_BYTES ELSE Code(event)
<1>. USE DEF HeldInv
<1>1. /\ DeviceOK' /\ wire # <<>> /\ event \in Events
      /\ midway' => wire' = wire
      /\ ~midway' => wire' = Tail(wire)
  BY InterruptDevice
<1>2. /\ midway' = prefix /\ UNCHANGED <<held, capsLock>>
      /\ Prefix(byte) \/ Modifier(byte) \/ Key(byte, event)
  BY DEF Interrupt
<1>3. Code(event) # TWO_BYTES
  BY <1>1, CodeFacts
<1>4. TWO_BYTES \notin ModifierBytes
  BY DEF TWO_BYTES, ModifierBytes, HeldCodes, ShiftCodes, BREAK_CODE, LEFT_SHIFT_SCANCODE,
         RIGHT_SHIFT_SCANCODE, LEFT_CTRL_SCANCODE, LEFT_ALT_SCANCODE, CAPSLOCK_SCANCODE
<1>5. \A code : Down(code)' = Down(code)
  BY <1>2 DEF Down
<1>6. isCtrlPressed \in BOOLEAN /\ isAltPressed \in BOOLEAN
  BY DEF Follows
<1>. HIDE DEF event
<1>7. CASE prefix
  <2>1. Prefix(TWO_BYTES) /\ wire' = wire
    BY <1>1, <1>2, <1>4, <1>7 DEF Modifier, Key
  <2>2. UNCHANGED <<isCtrlPressed, isAltPressed, wire, held>>
    BY <2>1, <1>2 DEF Prefix, flags
  <2>. QED
    BY <2>2, <1>1 DEF Follows, LastOf, Down, IsKey
<1>8. CASE ~prefix
  <2>1. wire' = Tail(wire) /\ (Modifier(Code(event)) \/ Key(Code(event), event))
    BY <1>1, <1>2, <1>3, <1>8 DEF Prefix
  <2>2. /\ isCtrlPressed' = FlagAfter(isCtrlPressed, event, LEFT_CTRL_SCANCODE)
        /\ isAltPressed' = FlagAfter(isAltPressed, event, LEFT_ALT_SCANCODE)
        /\ isCtrlPressed' \in BOOLEAN /\ isAltPressed' \in BOOLEAN
    <3>1. CASE Modifier(Code(event))
      BY <3>1, <1>1, <1>6, HeldByte DEF Modifier, Pressed
    <3>2. CASE Key(Code(event), event)
      BY <3>2, <1>1, <1>6, HeldByte DEF Key, flags
    <3>. QED
      BY <2>1, <3>1, <3>2
  <2>. HIDE DEF prefix, byte
  <2>3. Follows(isCtrlPressed, LEFT_CTRL_SCANCODE)'
    <3>1. isCtrlPressed' = FlagAfter(isCtrlPressed, Head(wire), LEFT_CTRL_SCANCODE)
      BY <2>2 DEF event
    <3>2. Follows(isCtrlPressed, LEFT_CTRL_SCANCODE) /\ Down(LEFT_CTRL_SCANCODE)' = Down(LEFT_CTRL_SCANCODE)
      BY <1>5
    <3>3. /\ \A i \in 1..Len(wire') : LastOf(i, LEFT_CTRL_SCANCODE)' => wire'[i].make = Down(LEFT_CTRL_SCANCODE)'
          /\ (\A i \in 1..Len(wire') : ~IsKey(wire'[i], LEFT_CTRL_SCANCODE)) => isCtrlPressed' = Down(LEFT_CTRL_SCANCODE)'
      BY <1>1, <2>1, <3>1, <3>2, FollowsRead
    <3>. QED
      BY <2>2, <3>3 DEF Follows, IsKey
  <2>4. Follows(isAltPressed, LEFT_ALT_SCANCODE)'
    <3>1. isAltPressed' = FlagAfter(isAltPressed, Head(wire), LEFT_ALT_SCANCODE)
      BY <2>2 DEF event
    <3>2. Follows(isAltPressed, LEFT_ALT_SCANCODE) /\ Down(LEFT_ALT_SCANCODE)' = Down(LEFT_ALT_SCANCODE)
      BY <1>5
    <3>3. /\ \A i \in 1..Len(wire') : LastOf(i, LEFT_ALT_SCANCODE)' => wire'[i].make = Down(LEFT_ALT_SCANCODE)'
          /\ (\A i \in 1..Len(wire') : ~IsKey(wire'[i], LEFT_ALT_SCANCODE)) => isAltPressed' = Down(LEFT_ALT_SCANCODE)'
      BY <1>1, <2>1, <3>1, <3>2, FollowsRead
    <3>. QED
      BY <2>2, <3>3 DEF Follows, IsKey
  <2>. QED
    BY <1>1, <2>3, <2>4
<1>. QED
  BY <1>7, <1>8

LEMMA HeldInvariant ==
  ASSUME PlainModifiers
  PROVE Spec => []HeldInv
<1>1. ASSUME Init PROVE HeldInv
  <2>1. /\ held = {} /\ wire = <<>> /\ capsLock = FALSE /\ midway = FALSE
        /\ isCtrlPressed = FALSE /\ isAltPressed = FALSE
    BY <1>1 DEF Init
  <2>2. wire \in Seq(Events) /\ Len(wire) = 0
    BY <2>1
  <2>3. DeviceOK
    BY <2>1, <2>2 DEF DeviceOK
  <2>4. \A code : Down(code) = FALSE
    BY <2>1 DEF Down
  <2>5. \A code : Follows(FALSE, code)
    BY <2>2, <2>4 DEF Follows
  <2>. QED
    BY <2>1, <2>3, <2>5 DEF HeldInv
<1>2. ASSUME HeldInv, [Next]_vars PROVE HeldInv'
  <2>1. CASE Typist
    <3>1. ASSUME NEW code \in Nat, NEW flag, NEW newFlag, newFlag = flag, Follows(flag, code)
          PROVE /\ \A i \in 1..Len(wire') : LastOf(i, code)' => wire'[i].make = Down(code)'
                /\ (\A i \in 1..Len(wire') : ~IsKey(wire'[i], code)) => newFlag = Down(code)'
      <4>1. PICK k \in PhysKey, make \in BOOLEAN :
              /\ held' \subseteq PhysKey /\ capsLock' \in BOOLEAN
              /\ Queue(k, make)
              /\ Down(code)' = FlagAfter(Down(code), Event(k, make), code)
        BY <1>2, <2>1, TypistHeld DEF HeldInv
      <4>2. Event(k, make) \in Events /\ wire' = Append(wire, Event(k, make))
        BY <1>2, <4>1, QueueDevice DEF HeldInv, Queue
      <4>3. Down(code)' \in BOOLEAN
        BY DEF Down
      <4>. QED
        BY <1>2, <3>1, <4>1, <4>2, <4>3, FollowsQueue DEF HeldInv
    <3>2. PICK k \in PhysKey, make \in BOOLEAN :
            held' \subseteq PhysKey /\ capsLock' \in BOOLEAN /\ Queue(k, make)
      BY <1>2, <2>1, TypistStep DEF HeldInv
    <3>3. DeviceOK' /\ UNCHANGED <<isCtrlPressed, isAltPressed>>
      BY <1>2, <3>2, QueueDevice DEF HeldInv, Queue, flags
    <3>4. LEFT_CTRL_SCANCODE \in Nat /\ LEFT_ALT_SCANCODE \in Nat
      BY DEF LEFT_CTRL_SCANCODE, LEFT_ALT_SCANCODE
    <3>5. Follows(isCtrlPressed, LEFT_CTRL_SCANCODE)'
      <4>1. Follows(isCtrlPressed, LEFT_CTRL_SCANCODE) /\ isCtrlPressed' \in BOOLEAN
        BY <1>2, <3>3 DEF HeldInv, Follows
      <4>2. /\ \A i \in 1..Len(wire') : LastOf(i, LEFT_CTRL_SCANCODE)'
                                        => wire'[i].make = Down(LEFT_CTRL_SCANCODE)'
            /\ (\A i \in 1..Len(wire') : ~IsKey(wire'[i], LEFT_CTRL_SCANCODE))
                 => isCtrlPressed' = Down(LEFT_CTRL_SCANCODE)'
        BY <3>1, <3>3, <3>4, <4>1
      <4>. QED
        BY <4>1, <4>2 DEF Follows, IsKey
    <3>6. Follows(isAltPressed, LEFT_ALT_SCANCODE)'
      <4>1. Follows(isAltPressed, LEFT_ALT_SCANCODE) /\ isAltPressed' \in BOOLEAN
        BY <1>2, <3>3 DEF HeldInv, Follows
      <4>2. /\ \A i \in 1..Len(wire') : LastOf(i, LEFT_ALT_SCANCODE)'
                                        => wire'[i].make = Down(LEFT_ALT_SCANCODE)'
            /\ (\A i \in 1..Len(wire') : ~IsKey(wire'[i], LEFT_ALT_SCANCODE))
                 => isAltPressed' = Down(LEFT_ALT_SCANCODE)'
        BY <3>1, <3>3, <3>4, <4>1
      <4>. QED
        BY <4>1, <4>2 DEF Follows, IsKey
    <3>. QED
      BY <3>3, <3>5, <3>6 DEF HeldInv
  <2>2. CASE Interrupt
    BY <1>2, <2>2, InterruptHeld
  <2>3. ASSUME UNCHANGED <<held, isCtrlPressed, isAltPressed>>, DeviceOK',
               Len(wire') = Len(wire),
               \A i \in 1..Len(wire) : wire'[i].key = wire[i].key /\ wire'[i].make = wire[i].make
        PROVE HeldInv'
    <3>1. Follows(isCtrlPressed, LEFT_CTRL_SCANCODE) /\ Follows(isAltPressed, LEFT_ALT_SCANCODE)
      BY <1>2 DEF HeldInv
    <3>2. isCtrlPressed' \in BOOLEAN /\ isAltPressed' \in BOOLEAN
      BY <2>3, <3>1 DEF Follows
    <3>3. /\ \A i \in 1..Len(wire') : LastOf(i, LEFT_CTRL_SCANCODE)'
                                      => wire'[i].make = Down(LEFT_CTRL_SCANCODE)'
          /\ (\A i \in 1..Len(wire') : ~IsKey(wire'[i], LEFT_CTRL_SCANCODE))
               => isCtrlPressed' = Down(LEFT_CTRL_SCANCODE)'
      BY <2>3, <3>1, FollowsStays
    <3>4. /\ \A i \in 1..Len(wire') : LastOf(i, LEFT_ALT_SCANCODE)'
                                      => wire'[i].make = Down(LEFT_ALT_SCANCODE)'
          /\ (\A i \in 1..Len(wire') : ~IsKey(wire'[i], LEFT_ALT_SCANCODE))
               => isAltPressed' = Down(LEFT_ALT_SCANCODE)'
      BY <2>3, <3>1, FollowsStays
    <3>5. Follows(isCtrlPressed, LEFT_CTRL_SCANCODE)'
      BY <3>2, <3>3 DEF Follows, IsKey
    <3>6. Follows(isAltPressed, LEFT_ALT_SCANCODE)'
      BY <3>2, <3>4 DEF Follows, IsKey
    <3>. QED
      BY <2>3, <3>5, <3>6 DEF HeldInv
  <2>4. CASE ReadFails
    <3>1. /\ DeviceOK' /\ Len(wire') = Len(wire)
          /\ \A i \in 1..Len(wire) : wire'[i].key = wire[i].key /\ wire'[i].make = wire[i].make
      BY <1>2, <2>4, FailedRead DEF HeldInv, Events
    <3>. QED
      BY <2>3, <2>4, <3>1 DEF ReadFails, flags
  <2>5. CASE UNCHANGED vars
    BY <1>2, <2>3, <2>5 DEF vars, device, flags, HeldInv, DeviceOK
  <2>. QED
    BY <1>2, <2>1, <2>2, <2>4, <2>5 DEF Next
<1>. QED
  BY <1>1, <1>2, PTL DEF Spec

(* Once everything is read, the program's four flags are the modifiers of  *)
(* the keyboard, however many reads have failed on the way.                *)
THEOREM FlagsAgree ==
  ASSUME PlainModifiers, OneShift, CapsOnce
  PROVE Spec => []ModifiersAgree
<1>1. ShiftInv /\ HeldInv => ModifiersAgree
  <2>. SUFFICES ASSUME ShiftInv, HeldInv, wire = <<>>
                PROVE /\ isShiftPressed = ShiftDown(held)
                      /\ isCtrlPressed = Down(LEFT_CTRL_SCANCODE)
                      /\ isAltPressed = Down(LEFT_ALT_SCANCODE)
                      /\ isCapsLockActive = capsLock
    BY DEF ModifiersAgree
  <2>1. Len(wire) = 0 /\ Len(wire) + 1 = 1
    OBVIOUS
  <2>2. isShiftPressed = ShiftDown(held) /\ isCapsLockActive = capsLock
    BY <2>1 DEF ShiftInv, ChainEnd, ShiftBefore, CapsBefore
  <2>3. isCtrlPressed = Down(LEFT_CTRL_SCANCODE) /\ isAltPressed = Down(LEFT_ALT_SCANCODE)
    BY <2>1 DEF HeldInv, Follows
  <2>. QED
    BY <2>2, <2>3
<1>. QED
  BY <1>1, ShiftInvariant, HeldInvariant, PTL
=============================================================================
