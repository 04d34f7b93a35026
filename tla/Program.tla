------------------------------- MODULE Program -------------------------------
(***************************************************************************)
(* WriteWise from its first driver to its exit: proj_main_loop's start,    *)
(* the screens and their buttons (proj.c, ui.c), the change of resolution  *)
(* (lib.c, graphics.c) and the ways out.  One handler of the main loop is  *)
(* one action.                                                             *)
(*                                                                         *)
(* The record ui is what the handlers work on.  A frame is known by the    *)
(* mode whose size it has, a screen's table of buttons by the screen that  *)
(* filled it.  A mouse packet moves the cursor to any point of Points: the *)
(* bytes behind it are the module Mouse.  Positions are pixels, the edges  *)
(* of a button the percentages of the code, without the rounding of floats.*)
(***************************************************************************)
EXTENDS Integers, SequencesExt

CONSTANTS
    Points,     \* where the mouse may take the cursor, before it is clamped
    Failures    \* how many calls of exit_graphic_mode in a row may fail

ASSUME PointAssumption == Points \subseteq [x : Nat, y : Nat]
ASSUME FailureAssumption == Failures \subseteq 0..10

VARIABLES
    phase,      \* "drivers", "screen" (both of the start), "loop", "exited"
    subs,       \* devices whose interrupt is subscribed
    ui,         \* the globals of ui.c, lib.c and graphics.c (see UI)
    aim,        \* history: what the mouse button was last pressed on
    faults      \* history: what failed at the start and at the exit

vars == <<phase, subs, ui, aim, faults>>

-----------------------------------------------------------------------------
(* Modes, screens and buttons. *)
Modes == [vbe480pDc  |-> [x |-> 640,  y |-> 480,  bytes |-> 2],
          vbe600pDc  |-> [x |-> 800,  y |-> 600,  bytes |-> 3],
          vbe864pDc  |-> [x |-> 1152, y |-> 864,  bytes |-> 4],
          vbe1024pDc |-> [x |-> 1280, y |-> 1024, bytes |-> 2]]

Graphic == DOMAIN Modes
NoFrame == "none"

FrameSize(f) == IF f \in Graphic THEN Modes[f].x * Modes[f].y * Modes[f].bytes ELSE 0

At(px, py, width, click) ==
    [px |-> px, py |-> py, width |-> width, height |-> 10, click |-> click]

(* addButton's table: the places of _buttons, counted from one.            *)
Buttons(screen) ==
    CASE screen = "main" ->
           <<At(30, 30, 40, "training"), At(30, 45, 40, "race"),
             At(30, 60, 40, "instructions"), At(30, 75, 40, "settings")>>
      [] screen = "training" -> <<At(40, 70, 20, "newTest")>>
      [] screen = "race" -> <<At(40, 70, 20, "ready"), At(40, 70, 20, "newRace")>>
      [] screen = "settings" ->
           <<At(10, 30, 30, "vbe480pDc"), At(10, 45, 30, "vbe600pDc"),
             At(10, 60, 30, "vbe864pDc"), At(10, 75, 30, "vbe1024pDc"),
             At(60, 45, 30, "dark"), At(60, 60, 30, "light")>>
      [] OTHER -> <<>>

MaxButton == 10

(* _isClickOnButton with the percentages of the current mode (none in text *)
(* mode, where every edge is at zero).                                     *)
Percent(mode, axis, p) == IF mode \in Graphic THEN (p * Modes[mode][axis]) \div 100 ELSE 0

On(s, pos, b) ==
    /\ pos.x \in Percent(s.mode, "x", b.px)..(Percent(s.mode, "x", b.px + b.width) - 1)
    /\ pos.y \in Percent(s.mode, "y", b.py)..(Percent(s.mode, "y", b.py + b.height) - 1)

Under(s, pos) ==
    {Buttons(s.table)[i].click :
       i \in {j \in DOMAIN Buttons(s.table) : On(s, pos, Buttons(s.table)[j])}}

-----------------------------------------------------------------------------
(* Loading and drawing.  Nothing can be drawn without a resolution; the    *)
(* frame is cleared before that shows, and copied once all is drawn.       *)
Visible(s) == s.res \in Graphic

clearScreen(s) ==
    [s EXCEPT !.overrun = @ \/ FrameSize(s.frame) > FrameSize(s.frameBuffer)]

(* calcStaticUI and loadStaticUI. *)
CopyStatic(s) ==
    [s EXCEPT !.overrun = @ \/ FrameSize(s.frame) > FrameSize(s.frameBuffer)
                            \/ FrameSize(s.frame) > FrameSize(s.staticBuffer)]

Load(s, screen) ==
    LET blank == [clearScreen(s) EXCEPT !.table = NoFrame]
    IN IF Visible(s) THEN CopyStatic([blank EXCEPT !.table = screen]) ELSE blank

(* changeState: loadScreen for every screen but the last. *)
MutChangeState(s, new) == Load([s EXCEPT !.app = new], s.app)
changeState(s, new) ==
    IF new = "end" THEN [s EXCEPT !.app = new] ELSE Load([s EXCEPT !.app = new], new)

Origin == [x |-> 0, y |-> 0]

MutInitUI(s) ==
    [s EXCEPT !.cursor = [x |-> 200, y |-> 200], !.pressed = FALSE,
              !.staticBuffer = s.frame, !.table = NoFrame]
MutKeepStatic(s) ==
    [s EXCEPT !.cursor = [x |-> 200, y |-> 200], !.pressed = FALSE, !.left = Origin,
              !.table = NoFrame]
initUI(s) ==
    [s EXCEPT !.cursor = [x |-> 200, y |-> 200], !.pressed = FALSE, !.left = Origin,
              !.staticBuffer = s.frame, !.table = NoFrame]

(* What the BIOS and the kernel answer to a change of mode: all goes well, *)
(* the mode is refused, it is set but not described, or the video memory   *)
(* cannot be mapped (and text mode can be set again).                      *)
Answer == {"ok", "refused", "noInfo", "noMap"}

setMinixMode(s, new, answer) ==
    CASE answer = "ok" ->
           [s EXCEPT !.vbe = new, !.res = new, !.frame = new, !.frameBuffer = new, !.mode = new]
      [] answer = "refused" -> s
      [] answer = "noInfo" -> [s EXCEPT !.vbe = new, !.res = NoFrame]
      [] answer = "noMap" ->
           [s EXCEPT !.vbe = "text", !.res = NoFrame, !.frame = new, !.mode = "text",
                     !.unmapped = TRUE]

-----------------------------------------------------------------------------
(* Clicks. *)

(* The callbacks.  Those of the training and race screens change no screen *)
(* (modules Typing and Race).                                              *)
Run(s, click, answer) ==
    CASE click \in {"training", "race", "instructions", "settings"} -> changeState(s, click)
      [] click \in Graphic -> Load(initUI(setMinixMode(s, click, answer)), "settings")
      [] click \in {"dark", "light"} -> Load([s EXCEPT !.theme = click], "settings")
      [] OTHER -> s

(* The loop of mouseUpdate: each place is looked up in the table as the    *)
(* callbacks before it have left it, with the press position as they have  *)
(* left it.                                                                *)
ClickIndex(s, i, answer) ==
    IF i \in DOMAIN Buttons(s.table) /\ On(s, s.left, Buttons(s.table)[i])
    THEN LET click == Buttons(s.table)[i].click
         IN [Run(s, click, answer) EXCEPT !.ran = Append(@, click)]
    ELSE s

ClickAll(s, answer) ==
    LET after[n \in 0..MaxButton] ==
          IF n = 0 THEN s ELSE ClickIndex(after[n - 1], n, answer)
    IN after[MaxButton]

Dist(m, n) == IF m < n THEN n - m ELSE m - n
Near(p, q) == Dist(p.x, q.x) + Dist(p.y, q.y) <= 20

Clamp(v, upper) == IF v > upper THEN upper ELSE v

(* The clamp leaves the cursor one pixel outside the screen. *)
MutMoved(s, to) == [s EXCEPT !.cursor = to]
Moved(s, to) ==
    LET res == IF Visible(s) THEN Modes[s.res] ELSE Origin
    IN [s EXCEPT !.cursor = [x |-> Clamp(to.x, res.x), y |-> Clamp(to.y, res.y)]]

Pressed(s, lb) == IF lb /\ ~s.pressed THEN [s EXCEPT !.left = s.cursor, !.pressed = lb]
                                      ELSE [s EXCEPT !.pressed = lb]

mouseUpdate(s, lb, to, answer) ==
    LET m == Moved(s, to)
        c == IF m.pressed /\ ~lb /\ Near(m.left, m.cursor) THEN ClickAll(m, answer) ELSE m
    IN Pressed(c, lb)

Running == phase = "loop" /\ ui.app # "end"

(* What a press is aimed at: the screen the user sees, and the buttons on  *)
(* it under the cursor.                                                    *)
NoAim == [screen |-> NoFrame, buttons |-> {}]
AimAt(pos) == [screen |-> ui.app, buttons |-> Under(ui, pos)]

(* A complete packet (mouse_int_h), with the left, the right or no button  *)
(* down.  The answer matters only to a packet that may end a click.        *)
MousePacket(button, to, answer) ==
    LET idle == [ui EXCEPT !.ran = <<>>]
        lb == button = "left"
        s == IF ui.app = "start" /\ button # "none" THEN changeState(idle, "main") ELSE idle
    IN /\ Running
       /\ ui.pressed \/ answer = "ok"
       /\ ui' = mouseUpdate(s, lb, to, answer)
       /\ aim' = IF lb /\ ~ui.pressed THEN AimAt(ui'.cursor) ELSE aim
       /\ UNCHANGED <<phase, subs, faults>>

(* keyboardScancodeHandler: the break code of ESC, and any other make code *)
(* as far as it changes the screen.  ESC forgets no press: a mouse button  *)
(* still down will be released on another screen.                          *)
MutEscTo == "main"
EscTo == IF ui.app = "main" THEN "end" ELSE "main"

Esc ==
    /\ Running
    /\ ui' = changeState(ui, EscTo)
    /\ UNCHANGED <<phase, subs, aim, faults>>

AnyKey ==
    /\ Running
    /\ ui.app = "start"
    /\ ui' = changeState(ui, "main")
    /\ UNCHANGED <<phase, subs, aim, faults>>

-----------------------------------------------------------------------------
(* Start and exit.  The devices in the order initAllDrivers subscribes     *)
(* them; exitAllDrivers has its own list.                                  *)
Subscribed == <<"timer", "keyboard", "mouse", "serial", "rtc">>

MutUnsubscribed == <<"rtc", "mouse", "keyboard", "timer">>
Unsubscribed == <<"rtc", "serial", "mouse", "keyboard", "timer">>

(* The n-th call of exitAllDrivers fails (none if n is too large): those   *)
(* after it are not made.                                                  *)
exitAllDrivers(n) ==
    /\ subs' = subs \ {Unsubscribed[i] : i \in (1..(n - 1)) \cap DOMAIN Unsubscribed}
    /\ phase' = "exited"

Exits == 1..(Len(Subscribed) + 1)

Fault(name, here) == IF here THEN {name} ELSE {}

(* exitGraphMode: up to ten calls of exit_graphic_mode, "fails" of which   *)
(* fail; each frees the frame buffer first.                                *)
Attempts == 10

exitGraphMode(s, fails) ==
    [s EXCEPT !.vbe = IF fails < Attempts THEN "text" ELSE @,
              !.freed = IF fails < Attempts THEN fails + 1 ELSE Attempts]

exitAll(s, fails, n) ==
    /\ ui' = exitGraphMode(s, fails)
    /\ faults' = faults \cup Fault("vg_exit", fails > 0)
                        \cup Fault("unsubscribe", n \in DOMAIN Subscribed)
    /\ exitAllDrivers(n)
    /\ UNCHANGED aim

(* initAllDrivers, with its n-th subscription failing (none if n is too    *)
(* large).  The program then returns with the ones before it in place.     *)
InitDrivers(n) ==
    /\ phase = "drivers"
    /\ subs' = {Subscribed[i] : i \in 1..(n - 1)}
    /\ phase' = IF n \in DOMAIN Subscribed THEN "exited" ELSE "screen"
    /\ faults' = faults \cup Fault("subscribe", n \in DOMAIN Subscribed)
    /\ UNCHANGED <<ui, aim>>

(* The frame rate and the first mode: if one fails the drivers are given   *)
(* up, whatever the screen shows by then.                                  *)
ScreenFails(answer, n) ==
    /\ phase = "screen"
    /\ answer # "ok"
    /\ ui' = setMinixMode(ui, "vbe600pDc", answer)
    /\ faults' = faults \cup Fault("mode", ui'.vbe # ui.vbe)
                        \cup Fault("unsubscribe", n \in DOMAIN Subscribed)
    /\ exitAllDrivers(n)
    /\ UNCHANGED aim

Shown == Load(initUI(setMinixMode(ui, "vbe600pDc", "ok")), "start")

(* The first screen, the dictionary and the keyboard layout. *)
StartLoop ==
    /\ phase = "screen"
    /\ ui' = Shown
    /\ phase' = "loop"
    /\ UNCHANGED <<subs, aim, faults>>

DataFails(fails, n) ==
    /\ phase = "screen"
    /\ exitAll(Shown, fails, n)

LeaveLoop(fails, n) ==
    /\ phase = "loop"
    /\ ui.app = "end"
    /\ exitAll(ui, fails, n)

(* drawScreen at a timer tick: the program gives up when it cannot draw    *)
(* the clock; the start screen has none.                                   *)
Tick(fails, n) ==
    /\ Running
    /\ IF Visible(ui) \/ ui.app = "start"
       THEN /\ ui' = CopyStatic(ui)
            /\ UNCHANGED <<phase, subs, aim, faults>>
       ELSE exitAll(CopyStatic(ui), fails, n)

Init ==
    /\ phase = "drivers"
    /\ subs = {}
    /\ ui = [app |-> "start", table |-> NoFrame, theme |-> "dark", mode |-> "text",
             vbe |-> "text", res |-> NoFrame, frame |-> NoFrame,
             frameBuffer |-> NoFrame, staticBuffer |-> NoFrame, freed |-> 0,
             unmapped |-> FALSE, overrun |-> FALSE,
             cursor |-> Origin, left |-> Origin, pressed |-> FALSE, ran |-> <<>>]
    /\ aim = NoAim
    /\ faults = {}

User ==
    \E button \in {"left", "right", "none"}, to \in Points, answer \in Answer :
        MousePacket(button, to, answer)

Exit == \E fails \in Failures, n \in Exits : LeaveLoop(fails, n)

Next ==
    \/ \E n \in Exits : InitDrivers(n)
    \/ \E answer \in Answer, n \in Exits : ScreenFails(answer, n)
    \/ StartLoop
    \/ \E fails \in Failures, n \in Exits : DataFails(fails, n) \/ Tick(fails, n)
    \/ User
    \/ Esc
    \/ AnyKey
    \/ Exit

Spec == Init /\ [][Next]_vars

(* The main loop goes on, and so does somebody who wants out. *)
FairSpec ==
    /\ Spec
    /\ WF_vars(\E n \in Exits : InitDrivers(n))
    /\ WF_vars(StartLoop)
    /\ WF_vars(Esc)
    /\ WF_vars(Exit)

-----------------------------------------------------------------------------
Screens == {"start", "main", "training", "race", "instructions", "settings", "end"}
Position == [x : Nat, y : Nat]
Frames == Graphic \cup {NoFrame}
Clicks == UNION {{Buttons(s)[i].click : i \in DOMAIN Buttons(s)} : s \in Screens}

UI == [app : Screens, table : Screens \cup {NoFrame}, theme : {"dark", "light"},
       mode : Graphic \cup {"text"}, vbe : Graphic \cup {"text"}, res : Frames,
       frame : Frames, frameBuffer : Frames, staticBuffer : Frames, freed : 0..Attempts,
       unmapped : BOOLEAN, overrun : BOOLEAN,
       cursor : Position, left : Position, pressed : BOOLEAN, ran : Seq(Clicks)]

TypeOK ==
    /\ phase \in {"drivers", "screen", "loop", "exited"}
    /\ subs \subseteq Range(Subscribed)
    /\ ui \in UI
    /\ Visible(ui) => ui.cursor.x <= Modes[ui.res].x /\ ui.cursor.y <= Modes[ui.res].y
    /\ aim \in [screen : Screens \cup {NoFrame}, buttons : SUBSET Clicks]
    /\ faults \subseteq {"subscribe", "mode", "vg_exit", "unsubscribe"}

(* mouseUpdate goes on through a table that a callback has replaced, in a  *)
(* resolution it has changed.  Still a release runs no button twice, and   *)
(* none of a screen that comes up during the click: if the screen is the   *)
(* one pressed on, the buttons run lay under the cursor at the press.  If  *)
(* ESC, or a press that left the start screen, has changed it since, they  *)
(* are not what was pressed but what the new screen has at that place.     *)
ReleaseRunsWhatLiesThere ==
    [][ui.pressed /\ ~ui'.pressed =>
         /\ Len(ui'.ran) = Cardinality(Range(ui'.ran))
         /\ Range(ui'.ran) \subseteq
              IF ui.app = aim.screen THEN aim.buttons ELSE Under(ui, ui.left)]_vars

(* The buttons that can be clicked are those of the screen shown, unless   *)
(* the screen could not be drawn.                                          *)
ButtonsOfScreen ==
    phase = "loop" /\ ui.app # "end" => ui.table \in {ui.app, NoFrame}

(* No frame is cleared or copied past the end of the buffer allocated for  *)
(* another resolution, as long as the video memory can be mapped.          *)
WritesWithinBuffers == ui.overrun => ui.unmapped

(* Whatever happened before, a program that got as far as its first screen *)
(* leaves no interrupt subscribed and the terminal in text mode, and frees *)
(* the frame buffer once, if the calls that undo these things succeed.     *)
CleanExit ==
    phase = "exited" =>
        /\ subs = {} \/ faults \cap {"subscribe", "unsubscribe"} # {}
        /\ ui.vbe = "text" \/ faults \cap {"mode", "vg_exit"} # {}
        /\ ui.freed <= 1 \/ "vg_exit" \in faults

(* ESC leads out of every screen, also when a resolution could not be set. *)
EscLeadsOut == <>[][~User]_vars => <>(phase = "exited")
=============================================================================
