------------------------------- MODULE Keyboard -------------------------------
(***************************************************************************)
(* The keyboard: keyboard_ih of keyboard.c, fed by a PS/2 keyboard and     *)
(* read by the main loop, and the choice of a character in scancode.c.     *)
(*                                                                         *)
(* The device queues one event per key pressed, repeated or released.  An  *)
(* event travels as one byte, or as the prefix TWO_BYTES and one byte, and *)
(* one byte is read per interrupt: midway says that the prefix of the      *)
(* first event has been read.  Each event remembers what the device knew   *)
(* when it was sent (its key, and Shift and Caps Lock after it) and        *)
(* whether it was cut, a read having failed after its prefix; the program  *)
(* only sees the bytes.                                                    *)
(***************************************************************************)
EXTENDS Integers, Sequences

CONSTANTS
    PhysKey,    \* the keys of the device: [code, ext], ext with a prefix
    Repeats,    \* those it repeats while they are held
    Capacity    \* events the device queues (a full one drops new keys)

(* No key's break code is the prefix itself. *)
ASSUME KeyAssumption ==
    /\ PhysKey \subseteq [code : (1..127) \ {96}, ext : BOOLEAN]
    /\ Repeats \subseteq PhysKey
ASSUME CapacityAssumption == Capacity \in Nat

VARIABLES
    held,       \* device: the keys that are down
    capsLock,   \* device: Caps Lock is on
    wire,       \* device: events not yet read
    midway,     \* device: the prefix of the first event has been read
    scancode, isTwoBytes, isScancodeTwoBytes,
    isShiftPressed, isCtrlPressed, isAltPressed, isCapsLockActive,
    taken       \* history: the last event handed over, and as what

device == <<held, capsLock, wire, midway>>
flags  == <<isShiftPressed, isCtrlPressed, isAltPressed, isCapsLockActive>>
vars   == <<device, scancode, isTwoBytes, isScancodeTwoBytes, flags, taken>>

BREAK_CODE == 128
TWO_BYTES  == 224

LEFT_SHIFT_SCANCODE  == 42
RIGHT_SHIFT_SCANCODE == 54
LEFT_CTRL_SCANCODE   == 29
LEFT_ALT_SCANCODE    == 56
CAPSLOCK_SCANCODE    == 58

ShiftCodes == {LEFT_SHIFT_SCANCODE, RIGHT_SHIFT_SCANCODE}
HeldCodes  == ShiftCodes \cup {LEFT_CTRL_SCANCODE, LEFT_ALT_SCANCODE}
ModifierBytes ==
    HeldCodes \cup {code + BREAK_CODE : code \in HeldCodes} \cup {CAPSLOCK_SCANCODE}

(* The keys of rows 2 and 3, and of row 4 up to M, follow Caps Lock. *)
Letters == (16..25) \cup (30..38) \cup (44..50)

NoKey == [code |-> 0]

-----------------------------------------------------------------------------
(* The device. *)
IsShift(k) == k.code \in ShiftCodes /\ ~k.ext
IsCaps(k)  == k.code = CAPSLOCK_SCANCODE /\ ~k.ext
Down(code) == \E k \in held : k.code = code /\ ~k.ext
ShiftDown(keys) == \E k \in keys : IsShift(k)

Event(k, make) ==
    [key |-> k, make |-> make, shift |-> ShiftDown(held'), caps |-> capsLock',
     cut |-> FALSE]

Code(event) == event.key.code + (IF event.make THEN 0 ELSE BREAK_CODE)

Queue(k, make) ==
    /\ Len(wire) < Capacity
    /\ wire' = Append(wire, Event(k, make))
    /\ UNCHANGED <<midway, scancode, isTwoBytes, isScancodeTwoBytes, flags, taken>>

Press(k) ==
    /\ k \notin held
    /\ held' = held \cup {k}
    /\ capsLock' = (capsLock # IsCaps(k))
    /\ Queue(k, TRUE)

Repeat(k) ==
    /\ k \in held
    /\ UNCHANGED <<held, capsLock>>
    /\ Queue(k, TRUE)

Release(k) ==
    /\ k \in held
    /\ held' = held \ {k}
    /\ UNCHANGED capsLock
    /\ Queue(k, FALSE)

-----------------------------------------------------------------------------
(* keyboard_ih on one byte. *)

(* A flag after a byte: set by a make code of its keys, cleared by a break. *)
MutPressed(flag, codes, byte) == flag \/ byte \in codes
Pressed(flag, codes, byte) ==
    byte \in codes \/ (flag /\ byte - BREAK_CODE \notin codes)

Prefix(byte) ==
    /\ byte = TWO_BYTES
    /\ isTwoBytes' = TRUE
    /\ UNCHANGED <<isScancodeTwoBytes, flags, taken>>

Modifier(byte) ==
    /\ byte \in ModifierBytes
    /\ isShiftPressed' = Pressed(isShiftPressed, ShiftCodes, byte)
    /\ isCtrlPressed' = Pressed(isCtrlPressed, {LEFT_CTRL_SCANCODE}, byte)
    /\ isAltPressed' = Pressed(isAltPressed, {LEFT_ALT_SCANCODE}, byte)
    /\ isCapsLockActive' = (isCapsLockActive # (byte = CAPSLOCK_SCANCODE))
    /\ UNCHANGED <<isTwoBytes, isScancodeTwoBytes, taken>>

(* getCharFromMakecode: does the key give its shifted character? *)
MutShifted(code) == isShiftPressed \/ (code \in Letters /\ isCapsLockActive)
Shifted(code) ==
    IF code \in Letters THEN isShiftPressed # isCapsLockActive ELSE isShiftPressed

(* A scancode for keyboardScancodeHandler. *)
MutScancode(byte) ==
    /\ isScancodeTwoBytes' = isTwoBytes
    /\ UNCHANGED isTwoBytes
Scancode(byte) ==
    /\ isScancodeTwoBytes' = isTwoBytes
    /\ isTwoBytes' = FALSE

MutKey(byte, event) ==
    /\ byte \notin ModifierBytes
    /\ Scancode(byte)
    /\ taken' = [code |-> byte, two |-> isScancodeTwoBytes',
                 shifted |-> Shifted(byte), event |-> event]
    /\ UNCHANGED flags
Key(byte, event) ==
    /\ byte # TWO_BYTES
    /\ byte \notin ModifierBytes
    /\ Scancode(byte)
    /\ taken' = [code |-> byte, two |-> isScancodeTwoBytes',
                 shifted |-> Shifted(byte), event |-> event]
    /\ UNCHANGED flags

Interrupt ==
    /\ wire # <<>>
    /\ LET event  == Head(wire)
           prefix == event.key.ext /\ ~midway
           byte   == IF prefix THEN TWO_BYTES ELSE Code(event)
       IN /\ midway' = prefix
          /\ wire' = IF prefix THEN wire ELSE Tail(wire)
          /\ scancode' = byte
          /\ Prefix(byte) \/ Modifier(byte) \/ Key(byte, event)
    /\ UNCHANGED <<held, capsLock>>

(* readKBCOutput fails (parity, timeout, a byte of the mouse): the byte    *)
(* is left where it is and a prefix read before it is forgotten.           *)
ReadFails ==
    /\ wire # <<>>
    /\ wire' = [wire EXCEPT ![1].cut = @ \/ midway]
    /\ isTwoBytes' = FALSE
    /\ isScancodeTwoBytes' = FALSE
    /\ UNCHANGED <<held, capsLock, midway, scancode, flags, taken>>

Init ==
    /\ held = {}
    /\ capsLock = FALSE
    /\ wire = <<>>
    /\ midway = FALSE
    /\ scancode = 0
    /\ isTwoBytes = FALSE
    /\ isScancodeTwoBytes = FALSE
    /\ isShiftPressed = FALSE
    /\ isCtrlPressed = FALSE
    /\ isAltPressed = FALSE
    /\ isCapsLockActive = FALSE
    /\ taken = NoKey

Typist == \/ \E k \in PhysKey : Press(k) \/ Release(k)
          \/ \E k \in Repeats : Repeat(k)

Next == Typist \/ Interrupt \/ ReadFails

Spec == Init /\ [][Next]_vars

-----------------------------------------------------------------------------
Events ==
    [key : PhysKey, make : BOOLEAN, shift : BOOLEAN, caps : BOOLEAN, cut : BOOLEAN]
Taken == [code : (1..255) \ {TWO_BYTES}, two : BOOLEAN, shifted : BOOLEAN, event : Events]

TypeOK ==
    /\ held \subseteq PhysKey
    /\ capsLock \in BOOLEAN
    /\ wire \in Seq(Events) /\ Len(wire) <= Capacity
    /\ midway \in BOOLEAN /\ (midway => wire # <<>> /\ Head(wire).key.ext)
    /\ scancode \in 0..255
    /\ isTwoBytes \in BOOLEAN /\ isScancodeTwoBytes \in BOOLEAN
    /\ isShiftPressed \in BOOLEAN /\ isCtrlPressed \in BOOLEAN
    /\ isAltPressed \in BOOLEAN /\ isCapsLockActive \in BOOLEAN
    /\ taken = NoKey \/ taken \in Taken

(* The restrictions under which the properties hold: the modifiers that    *)
(* have a prefix (right Ctrl and Alt, the Shift some keys simulate) are    *)
(* left alone, only one Shift is used, and Caps Lock does not repeat.      *)
PlainModifiers == \A k \in PhysKey : k.ext => k.code \notin HeldCodes \cup {CAPSLOCK_SCANCODE}
OneShift == \A k, l \in PhysKey : IsShift(k) /\ IsShift(l) => k = l
CapsOnce == \A k \in Repeats : ~IsCaps(k)

(* A scancode is handed over as the key that was pressed or released, with *)
(* or without prefix: ESC is told from a key that shares its code.         *)
KeyRecognised ==
    taken # NoKey => /\ taken.code = Code(taken.event)
                     /\ taken.two = (taken.event.key.ext /\ ~taken.event.cut)

(* A character is typed in the case in which its key was pressed, however  *)
(* late it is read: Shift and Caps Lock are those of that moment.          *)
TypedAsHeld ==
    taken # NoKey /\ taken.event.make /\ ~taken.event.key.ext =>
        taken.shifted = IF taken.event.key.code \in Letters
                        THEN taken.event.shift # taken.event.caps
                        ELSE taken.event.shift

(* Once every byte has been read, the modifier flags are the modifiers.    *)
ModifiersAgree ==
    wire = <<>> =>
        /\ isShiftPressed = ShiftDown(held)
        /\ isCtrlPressed = Down(LEFT_CTRL_SCANCODE)
        /\ isAltPressed = Down(LEFT_ALT_SCANCODE)
        /\ isCapsLockActive = capsLock
=============================================================================
