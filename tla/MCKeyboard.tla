----------------------------- MODULE MCKeyboard -----------------------------
(* Keyboard on a few keys: ordinary ones, one with a prefix, modifiers. *)
EXTENDS Keyboard

One(code) == [code |-> code, ext |-> FALSE]
Two(code) == [code |-> code, ext |-> TRUE]

MCLetter  == One(30)    \* A
MCComma   == One(51)
MCUp      == Two(72)
MCEscape  == One(1)

MCKeys == {MCLetter, MCComma, MCUp, One(RIGHT_SHIFT_SCANCODE), One(LEFT_CTRL_SCANCODE),
           One(LEFT_ALT_SCANCODE), One(CAPSLOCK_SCANCODE)}
MCRights == {MCEscape, Two(LEFT_CTRL_SCANCODE)}

MCNoCaps == PhysKey \ {One(CAPSLOCK_SCANCODE)}
=============================================================================
