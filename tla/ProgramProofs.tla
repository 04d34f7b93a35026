---------------------------- MODULE ProgramProofs ----------------------------
(***************************************************************************)
(* The screens, buttons, buffers and drivers of the program, for every     *)
(* mouse (Point) and every set of calls that fail (PointAssumption,        *)
(* FailureAssumption).  ProgramInv knows what was subscribed while the     *)
(* program starts (StartInv) and that the machine shown by the main loop   *)
(* is Sound: its table is that of its screen, its buffers have the size of *)
(* its resolution, its cursor is on the screen.  While the mouse button is *)
(* down, Aimed relates what is shown to the screen that was pressed on.    *)
(* The loop of mouseUpdate over the table is taken apart in ClickSteps; a  *)
(* callback changes the table below the loop (RunKeeps), which goes on     *)
(* looking at the places behind it (ClickIndexKeeps).                      *)
(***************************************************************************)
EXTENDS Program, TLAPS, FiniteSetTheorems, WellFoundedInduction

(* The buttons of each screen. *)
LEMMA MainButtons ==
  /\ DOMAIN Buttons("main") = 1..4
  /\ Buttons("main")[1] = At(30, 30, 40, "training")
  /\ Buttons("main")[2] = At(30, 45, 40, "race")
  /\ Buttons("main")[3] = At(30, 60, 40, "instructions")
  /\ Buttons("main")[4] = At(30, 75, 40, "settings")
  BY DEF Buttons

LEMMA TrainingButtons ==
  /\ DOMAIN Buttons("training") = {1}
  /\ Buttons("training")[1] = At(40, 70, 20, "newTest")
  BY DEF Buttons

LEMMA SettingsButtons ==
  /\ DOMAIN Buttons("settings") = 1..6
  /\ Buttons("settings")[1] = At(10, 30, 30, "vbe480pDc")
  /\ Buttons("settings")[2] = At(10, 45, 30, "vbe600pDc")
  /\ Buttons("settings")[3] = At(10, 60, 30, "vbe864pDc")
  /\ Buttons("settings")[4] = At(10, 75, 30, "vbe1024pDc")
  /\ Buttons("settings")[5] = At(60, 45, 30, "dark")
  /\ Buttons("settings")[6] = At(60, 60, 30, "light")
  BY DEF Buttons

LEMMA RaceButtons ==
  /\ DOMAIN Buttons("race") = 1..2
  /\ Buttons("race")[1] = At(40, 70, 20, "ready")
  /\ Buttons("race")[2] = At(40, 70, 20, "newRace")
  BY DEF Buttons

LEMMA NoButtons ==
  \A screen : screen \notin {"main", "training", "race", "settings"} =>
  DOMAIN Buttons(screen) = {}
  BY DEF Buttons

(* No two buttons of a screen run the same callback, and a place of the    *)
(* table is one of the ten.                                                *)
LEMMA ButtonsDiffer ==
  ASSUME NEW screen
  PROVE /\ DOMAIN Buttons(screen) \subseteq 1..6
        /\ \A i, j \in DOMAIN Buttons(screen) :
             i # j => Buttons(screen)[i].click # Buttons(screen)[j].click
<1>1. CASE screen = "main"
  BY <1>1, MainButtons DEF At
<1>2. CASE screen = "training"
  BY <1>2, TrainingButtons DEF At
<1>3. CASE screen = "race"
  BY <1>3, RaceButtons DEF At
<1>4. CASE screen = "settings"
  BY <1>4, SettingsButtons DEF At
<1>. QED
  BY <1>1, <1>2, <1>3, <1>4, NoButtons

(* Every button runs one of the callbacks. *)
LEMMA ButtonsClicks ==
  ASSUME NEW screen, NEW i \in DOMAIN Buttons(screen)
  PROVE Buttons(screen)[i].click \in Clicks
<1>1. screen \in Screens
  BY NoButtons DEF Screens
<1>. QED
  BY <1>1 DEF Clicks

(* The sizes of the modes. *)
LEMMA ModeSizes ==
  /\ Graphic = {"vbe480pDc", "vbe600pDc", "vbe864pDc", "vbe1024pDc"}
  /\ Modes["vbe480pDc"]["x"] = 640 /\ Modes["vbe480pDc"]["y"] = 480
  /\ Modes["vbe600pDc"]["x"] = 800 /\ Modes["vbe600pDc"]["y"] = 600
  /\ Modes["vbe864pDc"]["x"] = 1152 /\ Modes["vbe864pDc"]["y"] = 864
  /\ Modes["vbe1024pDc"]["x"] = 1280 /\ Modes["vbe1024pDc"]["y"] = 1024
  BY DEF Graphic, Modes

(* Edges are in the order of their percentages.                            *)
LEMMA EdgesInOrder ==
  ASSUME NEW mode, NEW p \in Nat, NEW q \in Nat, p <= q
  PROVE /\ Percent(mode, "x", p) \in Nat /\ Percent(mode, "y", p) \in Nat
        /\ Percent(mode, "x", p) <= Percent(mode, "x", q)
        /\ Percent(mode, "y", p) <= Percent(mode, "y", q)
<1>1. CASE mode \notin Graphic
  BY <1>1 DEF Percent
<1>2. CASE mode = "vbe480pDc"
  BY <1>2, ModeSizes DEF Percent
<1>3. CASE mode = "vbe600pDc"
  BY <1>3, ModeSizes DEF Percent
<1>4. CASE mode = "vbe864pDc"
  BY <1>4, ModeSizes DEF Percent
<1>5. CASE mode = "vbe1024pDc"
  BY <1>5, ModeSizes DEF Percent
<1>. QED
  BY <1>1, <1>2, <1>3, <1>4, <1>5, ModeSizes

(* Nothing lies under the origin: initUI forgets where the button went down. *)
LEMMA NothingAtOrigin ==
  ASSUME NEW s, NEW b, b.px \in 10..100, NEW w \in Nat, b.width = w
  PROVE ~On(s, Origin, b)
<1>1. CASE s.mode \notin Graphic
  BY <1>1 DEF On, Percent, Origin
<1>2. CASE s.mode = "vbe480pDc"
  BY <1>2, ModeSizes DEF On, Percent, Origin
<1>3. CASE s.mode = "vbe600pDc"
  BY <1>3, ModeSizes DEF On, Percent, Origin
<1>4. CASE s.mode = "vbe864pDc"
  BY <1>4, ModeSizes DEF On, Percent, Origin
<1>5. CASE s.mode = "vbe1024pDc"
  BY <1>5, ModeSizes DEF On, Percent, Origin
<1>. QED
  BY <1>1, <1>2, <1>3, <1>4, <1>5, ModeSizes

-----------------------------------------------------------------------------
(* Recursion over the ten places of the table.  TLAPS has induction over   *)
(* predicates only; over sets it follows from the least element of the     *)
(* numbers a set lacks.                                                    *)
Less == {pair \in Nat \X Nat : pair[1] < pair[2]}

(* The order that induction over finite sets of numbers needs. *)
LEMMA LessWellFounded == IsWellFoundedOn(Less, Nat)
  BY NatLessThanWellFounded DEF OpToRel, Less

(* A set with 0 and every successor of its numbers has all numbers. *)
LEMMA SetInduction ==
  ASSUME NEW S, 0 \in S, \A n \in Nat : n \in S => n + 1 \in S
  PROVE  Nat \subseteq S
<1> DEFINE T == Nat \ S
<1>. SUFFICES ASSUME T # {} PROVE FALSE
  OBVIOUS
<1>1. T \subseteq Nat
  OBVIOUS
<1>. HIDE DEF T
<1>2. PICK x \in T : \A y \in T : ~ (<<y, x>> \in Less)
  BY <1>1, WFMin, LessWellFounded
<1>3. \A y \in T : ~(y < x)
  <2>. SUFFICES ASSUME NEW y \in T, y < x PROVE FALSE
    OBVIOUS
  <2>1. <<y, x>> \in Nat \X Nat
    BY <1>1
  <2>. QED
    BY <1>1, <1>2, <2>1 DEF Less
<1>4. x \in Nat /\ x \notin S
  BY <1>1 DEF T
<1>5. x - 1 \in Nat /\ x - 1 < x /\ (x - 1) + 1 = x
  BY <1>4
<1>6. x - 1 \in S
  BY <1>3, <1>5 DEF T
<1>. QED
  BY <1>4, <1>5, <1>6

(* The loop of mouseUpdate is the ten steps it is written as.              *)
Loops(f, s, answer) ==
    /\ f[0] = s
    /\ \A n \in 1..MaxButton : f[n] = ClickIndex(f[n - 1], n, answer)
    /\ ClickAll(s, answer) = f[MaxButton]

LEMMA ClickSteps == ASSUME NEW s, NEW answer PROVE \E f : Loops(f, s, answer)
<1> DEFINE Steps(f, k) ==
             f = [n \in 0..k |-> IF n = 0 THEN s ELSE ClickIndex(f[n - 1], n, answer)]
           S == {k \in Nat : \E f : Steps(f, k)}
<1>1. 0 \in S
  <2>1. Steps([n \in 0..0 |-> s], 0)
    OBVIOUS
  <2>. QED
    BY <2>1
<1>2. ASSUME NEW k \in Nat, k \in S PROVE k + 1 \in S
  <2>1. PICK f : Steps(f, k)
    BY <1>2
  <2> DEFINE g == [n \in 0..(k + 1) |-> IF n <= k THEN f[n] ELSE ClickIndex(f[k], k + 1,
      answer)]
  <2>2. ASSUME NEW n \in 0..(k + 1)
        PROVE g[n] = IF n = 0 THEN s ELSE ClickIndex(g[n - 1], n, answer)
    <3>1. CASE n = 0
      BY <2>1, <3>1
    <3>2. CASE n \in 1..k
      BY <2>1, <3>2
    <3>3. CASE n = k + 1
      BY <3>3
    <3>. QED
      BY <3>1, <3>2, <3>3
  <2>3. Steps(g, k + 1)
    BY <2>2
  <2>4. \E h : Steps(h, k + 1)
    <3>. HIDE DEF g, Steps
    <3>. QED
      BY <2>3
  <2>. QED
    BY <2>4
<1>3. \E f : Steps(f, MaxButton)
  <2>. HIDE DEF S
  <2>1. MaxButton \in S
    BY <1>1, <1>2, SetInduction DEF MaxButton
  <2>. QED
    BY <2>1 DEF S
<1> DEFINE after == CHOOSE f : Steps(f, MaxButton)
<1>4. Steps(after, MaxButton)
  BY <1>3
<1>5. ClickAll(s, answer) = after[MaxButton]
  BY DEF ClickAll
<1>. HIDE DEF after
<1>6. Loops(after, s, answer)
  BY <1>4, <1>5 DEF MaxButton, Loops
<1>. QED
  BY <1>6

-----------------------------------------------------------------------------
(* What the handlers do to the record ui.                                  *)

(* All but the table and the mark of an overrun.                           *)
Alike(s, t) ==
    /\ t.app = s.app /\ t.theme = s.theme /\ t.mode = s.mode /\ t.vbe = s.vbe
    /\ t.res = s.res /\ t.frame = s.frame /\ t.frameBuffer = s.frameBuffer
    /\ t.staticBuffer = s.staticBuffer /\ t.freed = s.freed /\ t.unmapped = s.unmapped
    /\ t.cursor = s.cursor /\ t.left = s.left /\ t.pressed = s.pressed /\ t.ran = s.ran

(* The cursor is on the screen, and the buffers have the size of a frame,  *)
(* unless the video memory could not be mapped.                            *)
OnScreen(s) == Visible(s) => s.cursor.x <= Modes[s.res].x /\ s.cursor.y <= Modes[s.res].y

(* Frame and static buffer are those of this resolution. *)
Buffered(s) == ~s.unmapped => s.frame = s.frameBuffer /\ ~s.overrun

StaticBuffered(s) == ~s.unmapped => s.staticBuffer = s.frame

(* The table shown is that of one of these screens, or none yet. *)
Shows(s, screens) == s.table \in screens \cup {NoFrame}

(* Sizes of frames are numbers. *)
LEMMA FrameSizes == \A f : FrameSize(f) \in Nat
<1>. SUFFICES ASSUME NEW f \in Graphic PROVE Modes[f].x * Modes[f].y * Modes[f].bytes \in Nat
  BY DEF FrameSize
<1>1. Modes[f].x \in Nat /\ Modes[f].y \in Nat /\ Modes[f].bytes \in Nat
  BY DEF Graphic, Modes
<1>. QED
  BY <1>1

(* Drawing the static buffer over the frame (copyStaticBuffer). *)
LEMMA CopyKeeps ==
  ASSUME NEW s \in UI
  PROVE /\ CopyStatic(s) \in UI
        /\ Alike(s, CopyStatic(s)) /\ CopyStatic(s).table = s.table
        /\ Buffered(s) /\ StaticBuffered(s) => Buffered(CopyStatic(s))
<1> DEFINE b == s.overrun \/ FrameSize(s.frame) > FrameSize(s.frameBuffer)
                          \/ FrameSize(s.frame) > FrameSize(s.staticBuffer)
<1>1. CopyStatic(s) = [s EXCEPT !.overrun = b]
  BY DEF CopyStatic
<1>2. Buffered(s) /\ StaticBuffered(s) /\ ~s.unmapped => b = FALSE
  BY FrameSizes DEF Buffered, StaticBuffered, UI
<1>. QED
  BY <1>1, <1>2 DEF UI, Alike, Buffered

(* The screens, loaded in any resolution (loadCurrentStateUI). *)
LEMMA LoadKeeps ==
  ASSUME NEW s \in UI, NEW screen \in Screens
  PROVE /\ Load(s, screen) \in UI
        /\ Alike(s, Load(s, screen)) /\ Shows(Load(s, screen), {screen})
        /\ Buffered(s) /\ StaticBuffered(s) => Buffered(Load(s, screen))
<1> DEFINE c == clearScreen(s)
           blank == [c EXCEPT !.table = NoFrame]
           filled == [blank EXCEPT !.table = screen]
<1>1. c \in UI /\ Alike(s, c) /\ (Buffered(s) => Buffered(c))
  <2> DEFINE b == s.overrun \/ FrameSize(s.frame) > FrameSize(s.frameBuffer)
  <2>1. c = [s EXCEPT !.overrun = b]
    BY DEF clearScreen
  <2>2. Buffered(s) /\ ~s.unmapped => b = FALSE
    BY FrameSizes DEF Buffered, UI
  <2>3. b \in BOOLEAN
    OBVIOUS
  <2>. HIDE DEF b, c
  <2>. QED
    BY <2>1, <2>2, <2>3 DEF UI, Alike, Buffered
<1>. HIDE DEF c
<1>2. /\ blank \in UI /\ Alike(s, blank) /\ blank.table = NoFrame
      /\ Buffered(c) => Buffered(blank)
  BY <1>1 DEF UI, Alike, Buffered
<1>. HIDE DEF blank
<1>3. /\ filled \in UI /\ Alike(s, filled) /\ filled.table = screen
      /\ Buffered(blank) => Buffered(filled)
  BY <1>2 DEF UI, Alike, Buffered
<1>. HIDE DEF filled
<1>4. /\ CopyStatic(filled) \in UI /\ Alike(filled, CopyStatic(filled))
      /\ CopyStatic(filled).table = screen
      /\ Buffered(filled) /\ StaticBuffered(s) => Buffered(CopyStatic(filled))
  BY <1>3, CopyKeeps DEF Alike, StaticBuffered
<1>5. Load(s, screen) = IF Visible(s) THEN CopyStatic(filled) ELSE blank
  BY DEF Load, c, blank, filled
<1>6. CASE Visible(s)
  <2>1. Load(s, screen) = CopyStatic(filled)
    BY <1>5, <1>6
  <2>2. Alike(s, CopyStatic(filled))
    BY <1>3, <1>4 DEF Alike
  <2>3. Shows(CopyStatic(filled), {screen})
    BY <1>4 DEF Shows
  <2>. QED
    BY <1>1, <1>2, <1>3, <1>4, <2>1, <2>2, <2>3
<1>7. CASE ~Visible(s)
  BY <1>1, <1>2, <1>5, <1>7 DEF Shows
<1>. QED
  BY <1>6, <1>7

(* A new screen, in the same resolution, with the same press.              *)
LEMMA ChangeStateKeeps ==
  ASSUME NEW s \in UI, NEW new \in Screens, Buffered(s), StaticBuffered(s)
  PROVE LET t == changeState(s, new)
        IN /\ t \in UI /\ Buffered(t) /\ StaticBuffered(t)
           /\ OnScreen(s) => OnScreen(t)
           /\ t.app = new /\ t.mode = s.mode /\ t.freed = s.freed /\ t.vbe = s.vbe
           /\ t.left = s.left /\ t.pressed = s.pressed /\ t.ran = s.ran
           /\ new # "end" => Shows(t, {new})
<1> DEFINE u == [s EXCEPT !.app = new]
<1>1. /\ u \in UI /\ u.app = new /\ Buffered(u) /\ StaticBuffered(u)
      /\ u.mode = s.mode /\ u.res = s.res /\ u.freed = s.freed /\ u.vbe = s.vbe
      /\ u.left = s.left /\ u.cursor = s.cursor
      /\ u.pressed = s.pressed /\ u.ran = s.ran
  BY DEF UI, Buffered, StaticBuffered
<1>. HIDE DEF u
<1>2. changeState(s, new) = IF new = "end" THEN u ELSE Load(u, new)
  BY DEF changeState, u
<1>3. /\ Load(u, new) \in UI /\ Alike(u, Load(u, new)) /\ Shows(Load(u, new), {new})
      /\ Buffered(Load(u, new))
  BY <1>1, LoadKeeps
<1>. QED
  BY <1>1, <1>2, <1>3 DEF Alike, OnScreen, Visible, StaticBuffered

(* A new resolution, with its buffers and the cursor back in its corner.   *)
LEMMA SetModeKeeps ==
  ASSUME NEW s \in UI, NEW new \in Graphic, NEW answer \in Answer, Buffered(s)
  PROVE LET t == setMinixMode(s, new, answer)
        IN /\ t \in UI /\ Buffered(t)
           /\ t.app = s.app /\ t.freed = s.freed /\ t.pressed = s.pressed /\ t.ran = s.ran
           /\ answer = "ok" => t.mode = new
           /\ answer = "refused" => t.mode = s.mode /\ t.vbe = s.vbe
<1>1. NoFrame \in Frames /\ new \in Frames
  BY DEF Frames
<1>2. CASE answer = "ok"
  BY <1>1, <1>2 DEF setMinixMode, UI, Buffered
<1>3. CASE answer = "refused"
  BY <1>3 DEF setMinixMode
<1>4. CASE answer = "noInfo"
  BY <1>1, <1>4 DEF setMinixMode, UI, Buffered
<1>5. CASE answer = "noMap"
  BY <1>1, <1>5 DEF setMinixMode, UI, Buffered
<1>. QED
  BY <1>2, <1>3, <1>4, <1>5 DEF Answer

(* The first screen. *)
LEMMA InitUIKeeps ==
  ASSUME NEW s \in UI, Buffered(s)
  PROVE /\ initUI(s) \in UI /\ Buffered(initUI(s)) /\ StaticBuffered(initUI(s))
        /\ OnScreen(initUI(s))
        /\ initUI(s).app = s.app /\ initUI(s).freed = s.freed /\ initUI(s).ran = s.ran
        /\ initUI(s).mode = s.mode /\ initUI(s).vbe = s.vbe /\ initUI(s).res = s.res
        /\ initUI(s).left = Origin /\ ~initUI(s).pressed
<1> DEFINE corner == [x |-> 200, y |-> 200]
<1>1. Origin \in Position /\ corner \in Position
  BY DEF Origin, Position
<1>2. initUI(s) = [s EXCEPT !.cursor = corner, !.pressed = FALSE, !.left = Origin,
                            !.staticBuffer = s.frame, !.table = NoFrame]
  BY DEF initUI
<1>. HIDE DEF corner
<1> DEFINE t == initUI(s)
<1>3. /\ t \in UI
      /\ t.cursor = corner /\ ~t.pressed /\ t.left = Origin
      /\ t.staticBuffer = s.frame /\ t.frame = s.frame /\ t.frameBuffer = s.frameBuffer
      /\ t.app = s.app /\ t.freed = s.freed /\ t.ran = s.ran /\ t.overrun = s.overrun
      /\ t.mode = s.mode /\ t.vbe = s.vbe /\ t.res = s.res /\ t.unmapped = s.unmapped
  BY <1>2, <1>1 DEF UI
<1>. HIDE DEF t
<1>4. OnScreen(t)
  BY <1>3, ModeSizes DEF OnScreen, Visible, corner
<1>. QED
  BY <1>3, <1>4 DEF t, Buffered, StaticBuffered

-----------------------------------------------------------------------------
(* What every screen of the main loop is like.                             *)
Sound(s) ==
    /\ s \in UI /\ OnScreen(s) /\ Buffered(s) /\ StaticBuffered(s)
    /\ s.app # "end" /\ Shows(s, {s.app})

(* The callbacks, known by the places of their buttons.                    *)
LEMMA ClickOf ==
  ASSUME NEW screen, NEW i \in DOMAIN Buttons(screen)
  PROVE LET click == Buttons(screen)[i].click
        IN \/ screen = "main" /\ click \in {"training", "race", "instructions", "settings"}
           \/ screen = "settings" /\ click \in Graphic
           \/ screen = "settings" /\ click \in {"dark", "light"}
           \/ click \in {"newTest", "ready", "newRace"}
<1>1. CASE screen = "main"
  BY <1>1, MainButtons DEF At
<1>2. CASE screen = "training"
  BY <1>2, TrainingButtons DEF At
<1>3. CASE screen = "race"
  BY <1>3, RaceButtons DEF At
<1>4. CASE screen = "settings"
  BY <1>4, SettingsButtons, ModeSizes DEF At
<1>. QED
  BY <1>1, <1>2, <1>3, <1>4, NoButtons

(* A callback leaves a sound screen.  It either keeps the table, the       *)
(* resolution and the place of the press, or leaves nothing under that     *)
(* place that the loop is still to look at.                                *)
LEMMA RunKeeps ==
  ASSUME NEW s, Sound(s), NEW answer \in Answer,
         NEW i \in DOMAIN Buttons(s.table), On(s, s.left, Buttons(s.table)[i])
  PROVE LET t == Run(s, Buttons(s.table)[i].click, answer)
        IN /\ Sound(t) /\ t.freed = s.freed /\ t.ran = s.ran
           /\ \/ t.table = s.table /\ t.mode = s.mode /\ t.left = s.left
              \/ \A k \in DOMAIN Buttons(t.table) :
                   k > i => ~On(t, t.left, Buttons(t.table)[k])
<1> DEFINE click == Buttons(s.table)[i].click
           t == Run(s, click, answer)
<1>1. s \in UI /\ OnScreen(s) /\ Buffered(s) /\ StaticBuffered(s) /\ Shows(s, {s.app})
  BY DEF Sound
<1>2. s.table = s.app
  BY <1>1, NoButtons DEF Shows, NoFrame
<1>3. CASE s.table = "main" /\ click \in {"training", "race", "instructions", "settings"}
  <2>1. t = changeState(s, click)
    BY <1>3, ModeSizes DEF Run
  <2>2. click \in Screens /\ click # "end"
    BY <1>3 DEF Screens
  <2>. HIDE DEF click
  <2>3. /\ t \in UI /\ Buffered(t) /\ StaticBuffered(t) /\ OnScreen(t)
        /\ t.app = click /\ t.mode = s.mode /\ t.freed = s.freed
        /\ t.left = s.left /\ t.ran = s.ran /\ Shows(t, {click})
    BY <1>1, <2>1, <2>2, ChangeStateKeeps
  <2>4. Sound(t)
    BY <2>2, <2>3 DEF Sound
  <2>. HIDE DEF t
  <2>5. ASSUME NEW k \in DOMAIN Buttons(t.table), k > i
        PROVE ~On(t, t.left, Buttons(t.table)[k])
    <3>1. i \in 1..4
      BY <1>3, MainButtons
    <3>2. t.table = click
      BY <2>3, <2>5, NoButtons DEF Shows, NoFrame
    <3>3. CASE i = 1
      <4>1. click = "training"
        BY <1>3, <3>3, MainButtons DEF At, click
      <4>. QED
        BY <2>5, <3>2, <3>3, <4>1, TrainingButtons
    <3>4. CASE i = 2
      <4>1. click = "race"
        BY <1>3, <3>4, MainButtons DEF At, click
      <4>. QED
        BY <2>5, <3>2, <3>4, <4>1, RaceButtons
    <3>5. CASE i = 3
      <4>1. click = "instructions"
        BY <1>3, <3>5, MainButtons DEF At, click
      <4>. QED
        BY <2>5, <3>2, <3>5, <4>1, NoButtons
    <3>6. CASE i = 4
      <4>1. click = "settings" /\ Buttons(s.table)[i] = At(30, 75, 40, "settings")
        BY <1>3, <3>6, MainButtons DEF At, click
      <4>2. s.left.y \in Percent(s.mode, "y", 75)..(Percent(s.mode, "y", 85) - 1)
        BY <4>1 DEF On, At
      <4>3. k \in {5, 6}
        BY <2>5, <3>2, <3>6, <4>1, SettingsButtons
      <4>4. Buttons(t.table)[k].py + 10 <= 75 /\ Buttons(t.table)[k].py \in Nat
            /\ Buttons(t.table)[k].height = 10
        BY <3>2, <4>1, <4>3, SettingsButtons DEF At
      <4>5. Percent(t.mode, "y", Buttons(t.table)[k].py + 10) <= Percent(s.mode, "y", 75)
        BY <2>3, <4>4, EdgesInOrder
      <4>6. Percent(t.mode, "y", Buttons(t.table)[k].py + 10) \in Nat
        BY <4>4, EdgesInOrder
      <4>7. Percent(s.mode, "y", 75) \in Nat /\ Percent(s.mode, "y", 85) \in Nat
        BY EdgesInOrder
      <4>8. Percent(t.mode, "y", Buttons(t.table)[k].py) \in Nat
        BY <4>4, EdgesInOrder
      <4>9. t.left.y \notin Percent(t.mode, "y", Buttons(t.table)[k].py)
                           ..(Percent(t.mode, "y", Buttons(t.table)[k].py + 10) - 1)
        BY <2>3, <4>2, <4>5, <4>6, <4>7, <4>8
      <4>. QED
        BY <4>4, <4>9 DEF On
    <3>. QED
      BY <3>1, <3>3, <3>4, <3>5, <3>6
  <2>. QED
    BY <2>3, <2>4, <2>5 DEF click, t
<1>4. CASE s.table = "settings" /\ click \in Graphic
  <2> DEFINE m == setMinixMode(s, click, answer)
             u == initUI(m)
  <2>1. t = Load(u, "settings")
    BY <1>4, ModeSizes DEF Run
  <2>2. /\ m \in UI /\ Buffered(m) /\ m.app = s.app /\ m.freed = s.freed /\ m.ran = s.ran
    BY <1>1, <1>4, SetModeKeeps
  <2>. HIDE DEF m
  <2>3. /\ u \in UI /\ Buffered(u) /\ StaticBuffered(u) /\ OnScreen(u)
        /\ u.app = s.app /\ u.freed = s.freed /\ u.ran = s.ran /\ u.left = Origin
    BY <2>2, InitUIKeeps
  <2>. HIDE DEF u
  <2>4. "settings" \in Screens
    BY DEF Screens
  <2>5. t \in UI /\ Alike(u, t) /\ Shows(t, {"settings"}) /\ Buffered(t)
    BY <2>1, <2>3, <2>4, LoadKeeps
  <2>. HIDE DEF t
  <2>6. Sound(t) /\ t.freed = s.freed /\ t.ran = s.ran /\ t.left = Origin
    BY <1>2, <1>4, <2>3, <2>5 DEF Sound, Alike, OnScreen, Visible, StaticBuffered
  <2>7. ASSUME NEW k \in DOMAIN Buttons(t.table)
        PROVE ~On(t, Origin, Buttons(t.table)[k])
    <3>1. t.table = "settings"
      BY <2>5, <2>7, NoButtons DEF Shows, NoFrame
    <3>2. Buttons(t.table)[k].px \in 10..100 /\ Buttons(t.table)[k].width \in Nat
      BY <2>7, <3>1, SettingsButtons DEF At
    <3>. QED
      BY <3>2, NothingAtOrigin
  <2>. QED
    BY <2>6, <2>7 DEF t
<1>5. CASE s.table = "settings" /\ click \in {"dark", "light"}
  <2> DEFINE u == [s EXCEPT !.theme = click]
  <2>1. t = Load(u, "settings")
    BY <1>5, ModeSizes DEF Run
  <2>2. /\ u \in UI /\ Buffered(u) /\ StaticBuffered(u) /\ OnScreen(u)
        /\ u.app = s.app /\ u.freed = s.freed /\ u.ran = s.ran
        /\ u.left = s.left /\ u.mode = s.mode
    BY <1>1, <1>5 DEF UI, Buffered, StaticBuffered, OnScreen, Visible
  <2>. HIDE DEF u
  <2>3. "settings" \in Screens
    BY DEF Screens
  <2>4. t \in UI /\ Alike(u, t) /\ Shows(t, {"settings"}) /\ Buffered(t)
    BY <2>1, <2>2, <2>3, LoadKeeps
  <2>. HIDE DEF t
  <2>5. Sound(t) /\ t.freed = s.freed /\ t.ran = s.ran
        /\ t.left = s.left /\ t.mode = s.mode
    BY <1>2, <1>5, <2>2, <2>4 DEF Sound, Alike, OnScreen, Visible, StaticBuffered
  <2>6. t.table = s.table \/ DOMAIN Buttons(t.table) = {}
    BY <1>5, <2>4, NoButtons DEF Shows, NoFrame
  <2>. QED
    BY <2>5, <2>6 DEF t
<1>6. CASE click \in {"newTest", "ready", "newRace"}
  <2>1. t = s
    BY <1>6, ModeSizes DEF Run
  <2>. QED
    BY <2>1
<1>. QED
  BY <1>3, <1>4, <1>5, <1>6, ClickOf

-----------------------------------------------------------------------------
(* A whole click. *)

(* No callback is run twice. *)
Once(ran) == \A i, j \in DOMAIN ran : i # j => ran[i] # ran[j]

LEMMA OnceCounts ==
  ASSUME NEW S, NEW ran \in Seq(S), Once(ran)
  PROVE Len(ran) = Cardinality(Range(ran))
<1>1. DOMAIN ran = 1..Len(ran) /\ Len(ran) \in Nat
  OBVIOUS
<1>2. ran \in Bijection(1..Len(ran), Range(ran))
  BY <1>1 DEF Once, Range, Bijection, Injection, Surjection, IsInjective
<1>3. IsFiniteSet(1..Len(ran)) /\ Cardinality(1..Len(ran)) = Len(ran)
  BY <1>1, FS_Interval
<1>4. ExistsBijection(1..Len(ran), Range(ran))
  BY <1>2 DEF ExistsBijection
<1>. QED
  BY <1>3, <1>4, FS_Bijection

(* The loop after n places, begun in m: until a callback changed the table *)
(* under the press, the buttons run are those met so far; afterwards there *)
(* is nothing left under the press.                                        *)
Clicked(m, t, n) ==
    /\ Sound(t) /\ t.freed = m.freed
    /\ Once(t.ran) /\ Range(t.ran) \subseteq Under(m, m.left)
    /\ \/ /\ t.table = m.table /\ t.mode = m.mode /\ t.left = m.left
          /\ \A j \in DOMAIN t.ran : \E i \in DOMAIN Buttons(m.table) :
               i <= n /\ t.ran[j] = Buttons(m.table)[i].click
       \/ \A k \in DOMAIN Buttons(t.table) :
            k > n => ~On(t, t.left, Buttons(t.table)[k])

(* One place of the table, looked at by the loop. *)
LEMMA ClickIndexKeeps ==
  ASSUME NEW m, NEW t, NEW n \in Nat, Clicked(m, t, n), NEW answer \in Answer
  PROVE Clicked(m, ClickIndex(t, n + 1, answer), n + 1)
<1> DEFINE k == n + 1
           b == Buttons(t.table)[k]
<1>1. DOMAIN Buttons(t.table) \subseteq 1..6 /\ DOMAIN Buttons(m.table) \subseteq 1..6
  BY ButtonsDiffer
<1>2. CASE ~(k \in DOMAIN Buttons(t.table) /\ On(t, t.left, b))
  <2>1. ClickIndex(t, k, answer) = t
    BY <1>2 DEF ClickIndex
  <2>. QED
    BY <1>1, <2>1 DEF Clicked
<1>3. CASE k \in DOMAIN Buttons(t.table) /\ On(t, t.left, b)
  <2> DEFINE u == Run(t, b.click, answer)
             v == [u EXCEPT !.ran = Append(@, b.click)]
  <2>1. ClickIndex(t, k, answer) = v
    BY <1>3 DEF ClickIndex
  <2>2. t.table = m.table /\ t.mode = m.mode /\ t.left = m.left
    BY <1>3 DEF Clicked
  <2>3. \A j \in DOMAIN t.ran : \E i \in DOMAIN Buttons(m.table) :
           i <= n /\ t.ran[j] = Buttons(m.table)[i].click
    BY <1>3 DEF Clicked
  <2>4. Sound(t) /\ t.freed = m.freed /\ Once(t.ran) /\
        Range(t.ran) \subseteq Under(m, m.left)
    BY DEF Clicked
  <2>5. b.click \in Clicks
    BY <1>3, ButtonsClicks
  <2>6. b.click \in Under(m, m.left)
    <3>1. On(m, m.left, b)
      BY <1>3, <2>2 DEF On
    <3>. QED
      BY <1>3, <2>2, <3>1 DEF Under
  <2>7. \A j \in DOMAIN t.ran : t.ran[j] # b.click
    BY <1>1, <1>3, <2>2, <2>3, ButtonsDiffer
  <2>8. /\ Sound(u) /\ u.freed = t.freed /\ u.ran = t.ran
        /\ \/ u.table = t.table /\ u.mode = t.mode /\ u.left = t.left
           \/ \A i \in DOMAIN Buttons(u.table) :
                i > k => ~On(u, u.left, Buttons(u.table)[i])
    BY <1>3, <2>4, RunKeeps
  <2>9. t.ran \in Seq(Clicks)
    BY <2>4 DEF Sound, UI
  <2> DEFINE c == b.click
  <2>. HIDE DEF u, c
  <2> DEFINE ran == Append(t.ran, c)
  <2>10. /\ ran \in Seq(Clicks)
         /\ DOMAIN ran = 1..(Len(t.ran) + 1) /\ DOMAIN t.ran = 1..Len(t.ran)
         /\ \A j \in DOMAIN t.ran : ran[j] = t.ran[j]
         /\ ran[Len(t.ran) + 1] = c /\ Len(t.ran) \in Nat
    BY <2>5, <2>9 DEF c
  <2>11. v = [u EXCEPT !.ran = ran]
    BY <2>8 DEF c
  <2>. HIDE DEF ran, v
  <2>12. /\ v \in UI /\ v.ran = ran
         /\ v.table = u.table /\ v.mode = u.mode /\ v.left = u.left
         /\ v.app = u.app /\ v.freed = u.freed
         /\ v.cursor = u.cursor /\ v.res = u.res /\ v.unmapped = u.unmapped
         /\ v.overrun = u.overrun /\ v.frame = u.frame
         /\ v.frameBuffer = u.frameBuffer /\ v.staticBuffer = u.staticBuffer
    BY <2>8, <2>10, <2>11 DEF Sound, UI
  <2>13. Sound(v)
    BY <2>8, <2>12 DEF Sound, Buffered, StaticBuffered, OnScreen, Visible, Shows
  <2>14. Once(v.ran)
    <3>. SUFFICES ASSUME NEW i \in DOMAIN ran, NEW j \in DOMAIN ran, i # j
                 PROVE ran[i] # ran[j]
      BY <2>12 DEF Once
    <3>1. /\ i \in DOMAIN t.ran \/ i = Len(t.ran) + 1
          /\ j \in DOMAIN t.ran \/ j = Len(t.ran) + 1
      BY <2>10
    <3>. QED
      BY <2>4, <2>7, <2>10, <3>1 DEF Once, c
  <2>15. Range(v.ran) \subseteq Under(m, m.left)
    <3>. SUFFICES ASSUME NEW j \in DOMAIN ran PROVE ran[j] \in Under(m, m.left)
      BY <2>12 DEF Range
    <3>1. CASE j \in DOMAIN t.ran
      BY <2>4, <2>10, <3>1 DEF Range
    <3>2. CASE j = Len(t.ran) + 1
      BY <2>6, <2>10, <3>2 DEF c
    <3>. QED
      BY <2>10, <3>1, <3>2
  <2>16. ASSUME NEW j \in DOMAIN v.ran
         PROVE \E i \in DOMAIN Buttons(m.table) : i <= k /\
               v.ran[j] = Buttons(m.table)[i].click
    <3>1. CASE j \in DOMAIN t.ran
      BY <1>1, <2>3, <2>12, <2>10, <3>1
    <3>2. CASE j = Len(t.ran) + 1
      BY <1>3, <2>2, <2>12, <2>10, <3>2 DEF c
    <3>. QED
      BY <2>12, <2>10, <2>16, <3>1, <3>2
  <2>17. \/ v.table = m.table /\ v.mode = m.mode /\ v.left = m.left
         \/ \A i \in DOMAIN Buttons(v.table) : i > k => ~On(v, v.left, Buttons(v.table)[i])
    BY <2>2, <2>8, <2>12 DEF On
  <2>. QED
    BY <2>1, <2>4, <2>8, <2>12, <2>14, <2>15, <2>16, <2>17, <2>13 DEF Clicked
<1>. QED
  BY <1>2, <1>3

(* The whole loop of mouseUpdate. *)
LEMMA ClickAllKeeps ==
  ASSUME NEW m, Sound(m), m.ran = <<>>, NEW answer \in Answer
  PROVE LET t == ClickAll(m, answer)
        IN /\ Sound(t) /\ t.freed = m.freed
           /\ Once(t.ran) /\ Range(t.ran) \subseteq Under(m, m.left)
<1>1. PICK f : Loops(f, m, answer)
  BY ClickSteps
<1>2. f[0] = m /\ ClickAll(m, answer) = f[MaxButton]
  BY <1>1 DEF Loops
<1> DEFINE S == {n \in Nat : n <= MaxButton => Clicked(m, f[n], n)}
<1>3. 0 \in S
  BY <1>2 DEF Clicked, Once, Range
<1>4. ASSUME NEW n \in Nat, n \in S PROVE n + 1 \in S
  <2>. SUFFICES ASSUME n + 1 <= MaxButton PROVE Clicked(m, f[n + 1], n + 1)
    OBVIOUS
  <2>1. Clicked(m, f[n], n)
    BY <1>4 DEF MaxButton
  <2>2. f[n + 1] = ClickIndex(f[n], n + 1, answer)
    BY <1>1, <1>4 DEF MaxButton, Loops
  <2>. QED
    BY <2>1, <2>2, ClickIndexKeeps
<1>. HIDE DEF S
<1>5. MaxButton \in S
  BY <1>3, <1>4, SetInduction DEF MaxButton
<1>. QED
  BY <1>2, <1>5 DEF S, Clicked, MaxButton

(* A movement of the cursor. *)
LEMMA MovedKeeps ==
  ASSUME NEW s, Sound(s), NEW to \in Position
  PROVE LET t == Moved(s, to)
        IN /\ Sound(t) /\ t.freed = s.freed /\ t.ran = s.ran /\ t.pressed = s.pressed
           /\ t.table = s.table /\ t.mode = s.mode /\ t.left = s.left /\ t.app = s.app
<1> DEFINE res == IF Visible(s) THEN Modes[s.res] ELSE Origin
           c == [x |-> Clamp(to.x, res.x), y |-> Clamp(to.y, res.y)]
           t == Moved(s, to)
<1>1. t = [s EXCEPT !.cursor = c]
  BY DEF Moved
<1>2. res.x \in Nat /\ res.y \in Nat
  BY ModeSizes DEF Visible, Origin
<1>3. Visible(s) => res = Modes[s.res]
  OBVIOUS
<1>. HIDE DEF res
<1>4. c \in Position /\ c.x <= res.x /\ c.y <= res.y
  BY <1>2 DEF Position, Clamp
<1>. HIDE DEF c, t
<1>5. s \in UI
  BY DEF Sound
<1>6. /\ t \in UI /\ t.cursor = c /\ t.res = s.res
      /\ t.freed = s.freed /\ t.ran = s.ran /\ t.pressed = s.pressed
      /\ t.table = s.table /\ t.mode = s.mode /\ t.left = s.left /\ t.app = s.app
      /\ t.unmapped = s.unmapped /\ t.overrun = s.overrun /\ t.frame = s.frame
      /\ t.frameBuffer = s.frameBuffer /\ t.staticBuffer = s.staticBuffer
  BY <1>1, <1>4, <1>5 DEF UI
<1>7. Sound(t)
  BY <1>3, <1>4, <1>6 DEF Sound, OnScreen, Visible, Buffered, StaticBuffered, Shows
<1>. QED
  BY <1>6, <1>7 DEF t

(* A button that goes down or stays as it was. *)
LEMMA PressedKeeps ==
  ASSUME NEW s, Sound(s), NEW lb \in BOOLEAN
  PROVE LET t == Pressed(s, lb)
        IN /\ Sound(t) /\ t.freed = s.freed /\ t.ran = s.ran /\ t.pressed = lb
           /\ t.table = s.table /\ t.mode = s.mode /\ t.cursor = s.cursor /\ t.app = s.app
           /\ t.left = IF lb /\ ~s.pressed THEN s.cursor ELSE s.left
<1> DEFINE place == IF lb /\ ~s.pressed THEN s.cursor ELSE s.left
           t == Pressed(s, lb)
<1>1. s \in UI /\ place \in Position
  BY DEF Sound, UI
<1>2. t = [s EXCEPT !.left = place, !.pressed = lb]
  BY <1>1 DEF Pressed, UI
<1>. HIDE DEF place, t
<1>3. /\ t \in UI /\ t.left = place /\ t.pressed = lb
      /\ t.freed = s.freed /\ t.ran = s.ran /\ t.cursor = s.cursor /\ t.res = s.res
      /\ t.table = s.table /\ t.mode = s.mode /\ t.app = s.app
      /\ t.unmapped = s.unmapped /\ t.overrun = s.overrun /\ t.frame = s.frame
      /\ t.frameBuffer = s.frameBuffer /\ t.staticBuffer = s.staticBuffer
  BY <1>1, <1>2 DEF UI
<1>4. Sound(t)
  BY <1>3 DEF Sound, OnScreen, Visible, Buffered, StaticBuffered, Shows
<1>. QED
  BY <1>3, <1>4 DEF t, place

(* A packet that does not end a press moves the cursor and may begin one;  *)
(* one that does runs what was under the press.                            *)
LEMMA PacketKeeps ==
  ASSUME NEW s, Sound(s), s.ran = <<>>, NEW lb \in BOOLEAN, NEW to \in Position,
         NEW answer \in Answer
  PROVE LET t == mouseUpdate(s, lb, to, answer)
        IN /\ Sound(t) /\ t.freed = s.freed /\ t.pressed = lb
           /\ ~(s.pressed /\ ~lb) => /\ t.ran = <<>> /\ t.table = s.table /\ t.mode = s.mode
                                     /\ t.app = s.app
                                     /\ t.left = IF lb /\ ~s.pressed THEN t.cursor ELSE s.left
           /\ Once(t.ran) /\ Range(t.ran) \subseteq Under(s, s.left)
<1> DEFINE m == Moved(s, to)
           c == IF m.pressed /\ ~lb /\ Near(m.left, m.cursor) THEN ClickAll(m, answer) ELSE m
           t == Pressed(c, lb)
<1>1. mouseUpdate(s, lb, to, answer) = t
  BY DEF mouseUpdate
<1>2. /\ Sound(m) /\ m.freed = s.freed /\ m.ran = <<>> /\ m.pressed = s.pressed
      /\ m.table = s.table /\ m.mode = s.mode /\ m.left = s.left /\ m.app = s.app
  BY MovedKeeps
<1>. HIDE DEF m
<1>3. Under(m, m.left) = Under(s, s.left)
  BY <1>2 DEF Under, On
<1>4. /\ Sound(c) /\ c.freed = s.freed /\ Once(c.ran) /\
         Range(c.ran) \subseteq Under(s, s.left)
      /\ ~(s.pressed /\ ~lb) => c = m
  <2>1. Once(m.ran) /\ Range(m.ran) \subseteq Under(s, s.left)
    BY <1>2 DEF Once, Range
  <2>2. CASE m.pressed /\ ~lb /\ Near(m.left, m.cursor)
    BY <1>2, <1>3, <2>2, ClickAllKeeps
  <2>3. CASE ~(m.pressed /\ ~lb /\ Near(m.left, m.cursor))
    BY <1>2, <2>1, <2>3
  <2>. QED
    BY <2>2, <2>3
<1>. HIDE DEF c
<1>5. /\ Sound(t) /\ t.freed = c.freed /\ t.ran = c.ran /\ t.pressed = lb
      /\ t.table = c.table /\ t.mode = c.mode /\ t.cursor = c.cursor /\ t.app = c.app
      /\ t.left = IF lb /\ ~c.pressed THEN c.cursor ELSE c.left
  BY <1>4, PressedKeeps
<1>. HIDE DEF t
<1>. QED
  BY <1>1, <1>2, <1>4, <1>5

-----------------------------------------------------------------------------
(* The program. *)
StartInv ==
    phase \in {"drivers", "screen"} =>
        /\ ui.app = "start" /\ ~ui.pressed /\ ui.vbe = "text" /\ ui.freed = 0
        /\ Buffered(ui)

(* While the button is down: the screen pressed on, as it was, or one that *)
(* came after it, which ESC makes another one.                             *)
Aimed(s, a) ==
    /\ a.screen # "end" /\ s.app \in {a.screen, "main", "end"}
    /\ s.app = a.screen => a.buttons = Under(s, s.left)

(* While the loop runs nothing is freed, and what it shows is sound. *)
LoopInv ==
    phase = "loop" =>
        /\ ui.freed = 0
        /\ ui.app # "end" => Sound(ui)
        /\ ui.app = "start" => ~ui.pressed
        /\ ui.pressed => Aimed(ui, aim)

ProgramInv ==
    /\ TypeOK /\ WritesWithinBuffers /\ CleanExit
    /\ StartInv /\ LoopInv

(* Before the drivers are started. *)
LEMMA ProgramInit == Init => ProgramInv
<1>. SUFFICES ASSUME Init PROVE ProgramInv
  OBVIOUS
<1>1. ui \in UI
  BY DEF Init, UI, Screens, Frames, Position, Origin, Attempts
<1>2. ui.ran = <<>> /\ ui.overrun = FALSE /\ ui.frame = NoFrame /\ ui.frameBuffer = NoFrame
      /\ ui.app = "start" /\ ~ui.pressed /\ ui.vbe = "text" /\ ui.freed = 0 /\
         ui.res = NoFrame
  BY DEF Init
<1>3. TypeOK
  BY <1>1, <1>2, ModeSizes DEF Init, TypeOK, Visible, NoFrame, NoAim
<1>. QED
  BY <1>2, <1>3
  DEF Init, ProgramInv, WritesWithinBuffers, CleanExit, StartInv,
      LoopInv, Buffered

Aims == [screen : Screens \cup {NoFrame}, buttons : SUBSET Clicks]

(* What an action has to leave, for a program that goes on.                *)
LEMMA GoesOn ==
  ASSUME ProgramInv, phase' = "loop", ui' \in UI, OnScreen(ui'), ui'.freed = 0, Buffered(ui'),
         ui'.app # "end" => Sound(ui'),
         ui'.app = "start" => ~ui'.pressed,
         aim' \in Aims, ui'.pressed => Aimed(ui', aim'),
         UNCHANGED <<subs, faults>>
  PROVE ProgramInv'
<1>1. TypeOK'
  BY DEF ProgramInv, TypeOK, OnScreen, Aims
<1>2. WritesWithinBuffers' /\ CleanExit' /\ StartInv' /\ LoopInv'
  BY DEF WritesWithinBuffers, CleanExit, StartInv, LoopInv, Buffered
<1>. QED
  BY <1>1, <1>2 DEF ProgramInv

(* The keyboard changes the screen, and leaves the press as it was.        *)
LEMMA ChangesScreen ==
  ASSUME ProgramInv, Running, NEW new \in Screens, new # "start", ui' = changeState(ui, new),
         ui.pressed => new # aim.screen /\ new \in {"main", "end"},
         UNCHANGED <<phase, subs, aim, faults>>
  PROVE ProgramInv' /\ ui'.pressed = ui.pressed
<1>1. Sound(ui) /\ ui.freed = 0 /\ (ui.pressed => Aimed(ui, aim)) /\ aim \in Aims
  BY DEF ProgramInv, TypeOK, LoopInv, Running, Aims
<1>2. /\ ui' \in UI /\ Buffered(ui') /\ StaticBuffered(ui') /\ OnScreen(ui')
      /\ ui'.app = new /\ ui'.freed = 0 /\ ui'.pressed = ui.pressed
      /\ new # "end" => Shows(ui', {new})
  BY <1>1, ChangeStateKeeps DEF Sound
<1>3. new # "end" => Sound(ui')
  BY <1>2 DEF Sound
<1>4. ui'.pressed => Aimed(ui', aim')
  BY <1>1, <1>2 DEF Aimed
<1>5. ProgramInv'
  BY <1>1, <1>2, <1>3, <1>4, GoesOn DEF Running
<1>. QED
  BY <1>2, <1>5

(* The actions, one by one. *)
LEMMA EscKeeps == ASSUME ProgramInv, Esc PROVE ProgramInv' /\ ui'.pressed = ui.pressed
<1>1. ui.pressed => Aimed(ui, aim)
  BY DEF Esc, Running, ProgramInv, LoopInv
<1>2. EscTo \in {"main", "end"} /\ (ui.pressed => EscTo # aim.screen)
  BY <1>1 DEF EscTo, Esc, Running, Aimed
<1>3. EscTo \in Screens /\ EscTo # "start"
  BY <1>2 DEF Screens
<1>. QED
  BY <1>2, <1>3, ChangesScreen DEF Esc

LEMMA AnyKeyKeeps == ASSUME ProgramInv, AnyKey PROVE ProgramInv' /\ ui'.pressed = ui.pressed
<1>1. ~ui.pressed
  BY DEF AnyKey, Running, ProgramInv, LoopInv
<1>. QED
  BY <1>1, ChangesScreen DEF AnyKey, Screens

(* What lies under a place are callbacks. *)
LEMMA UnderClicks == ASSUME NEW s, NEW pos PROVE Under(s, pos) \subseteq Clicks
  BY ButtonsClicks DEF Under

(* What the property says of a release.                                    *)
Released ==
    /\ Len(ui'.ran) = Cardinality(Range(ui'.ran))
    /\ Range(ui'.ran) \subseteq
         IF ui.app = aim.screen THEN aim.buttons ELSE Under(ui, ui.left)

(* A packet, with a press or a release or neither. *)
LEMMA MousePacketKeeps ==
  ASSUME ProgramInv, NEW button \in {"left", "right", "none"}, NEW to \in Points,
         NEW answer \in Answer, MousePacket(button, to, answer)
  PROVE ProgramInv' /\ (ui.pressed /\ ~ui'.pressed => Released)
<1> DEFINE idle == [ui EXCEPT !.ran = <<>>]
           lb == button = "left"
           s == IF ui.app = "start" /\
           button # "none" THEN changeState(idle, "main") ELSE idle
<1>1. /\ phase = "loop" /\ Sound(ui) /\ ui.freed = 0
      /\ ui.app = "start" => ~ui.pressed
      /\ ui.pressed => Aimed(ui, aim)
  BY DEF MousePacket, Running, ProgramInv, LoopInv
<1>2. /\ Sound(idle) /\ idle.ran = <<>> /\ idle.freed = 0 /\ idle.pressed = ui.pressed
      /\ idle.table = ui.table /\ idle.mode = ui.mode /\ idle.left = ui.left
      /\ idle.app = ui.app
  <2>1. <<>> \in Seq(Clicks)
    OBVIOUS
  <2>2. ui \in UI
    BY <1>1 DEF Sound
  <2>3. /\ idle \in UI /\ idle.ran = <<>> /\ idle.freed = ui.freed /\
           idle.pressed = ui.pressed
        /\ idle.table = ui.table /\ idle.mode = ui.mode /\ idle.left = ui.left
        /\ idle.app = ui.app /\ idle.cursor = ui.cursor /\ idle.res = ui.res
        /\ idle.unmapped = ui.unmapped /\ idle.overrun = ui.overrun /\ idle.frame = ui.frame
        /\ idle.frameBuffer = ui.frameBuffer /\ idle.staticBuffer = ui.staticBuffer
    BY <2>1, <2>2 DEF UI
  <2>. HIDE DEF idle
  <2>4. Sound(idle)
    BY <1>1, <2>3 DEF Sound, OnScreen, Visible, Buffered, StaticBuffered, Shows
  <2>. QED
    BY <1>1, <2>3, <2>4
<1>. HIDE DEF idle
<1>3. /\ Sound(s) /\ s.ran = <<>> /\ s.freed = 0 /\ s.pressed = ui.pressed
      /\ ui.pressed => /\ s.table = ui.table /\ s.mode = ui.mode /\ s.left = ui.left
                       /\ s.app = ui.app
      /\ s.app = "start" => button = "none"
      /\ s.app = "main" \/ (s.app = ui.app /\ s.table = ui.table /\ s.mode = ui.mode)
      /\ s.app = ui.app => s.table = ui.table /\ s.mode = ui.mode
  <2>1. CASE ui.app = "start" /\ button # "none"
    <3>1. "main" \in Screens /\ "main" # "end" /\ "main" # "start"
      BY DEF Screens
    <3>2. LET t == changeState(idle, "main")
          IN /\ t \in UI /\ Buffered(t) /\ StaticBuffered(t)
             /\ OnScreen(t) /\ t.app = "main" /\ t.freed = 0
             /\ t.pressed = ui.pressed /\ t.ran = <<>> /\ Shows(t, {"main"})
      BY <1>2, <3>1, ChangeStateKeeps DEF Sound
    <3>3. s = changeState(idle, "main")
      BY <2>1
    <3>. HIDE DEF s
    <3>. QED
      BY <1>1, <2>1, <3>1, <3>2, <3>3 DEF Sound
  <2>2. CASE ~(ui.app = "start" /\ button # "none")
    BY <1>2, <2>2
  <2>. QED
    BY <2>1, <2>2
<1>4. ui' = mouseUpdate(s, lb, to, answer)
  BY DEF MousePacket, idle
<1>. HIDE DEF s
<1>5. to \in Position
  BY PointAssumption DEF Position
<1>6. /\ Sound(ui') /\ ui'.freed = 0 /\ ui'.pressed = lb
      /\ ~(ui.pressed /\ ~lb) =>
           /\ ui'.ran = <<>> /\ ui'.table = s.table /\ ui'.mode = s.mode /\ ui'.app = s.app
           /\ ui'.left = IF lb /\ ~ui.pressed THEN ui'.cursor ELSE s.left
      /\ Once(ui'.ran) /\ Range(ui'.ran) \subseteq Under(s, s.left)
  <2> DEFINE t == mouseUpdate(s, lb, to, answer)
  <2>1. lb \in BOOLEAN
    OBVIOUS
  <2>. HIDE DEF lb
  <2>2. Sound(s) /\ s.ran = <<>>
    BY <1>3
  <2>3. /\ Sound(t) /\ t.freed = s.freed /\ t.pressed = lb
        /\ ~(s.pressed /\ ~lb) => /\ t.ran = <<>> /\ t.table = s.table /\ t.mode = s.mode
                                  /\ t.app = s.app
                                  /\ t.left = IF lb /\ ~s.pressed THEN t.cursor ELSE s.left
        /\ Once(t.ran) /\ Range(t.ran) \subseteq Under(s, s.left)
    BY <1>5, <2>1, <2>2, PacketKeeps, SMTT(60)
  <2>. HIDE DEF t
  <2>4. ui' = t
    BY <1>4 DEF t
  <2>. QED
    BY <1>3, <2>3, <2>4
<1>7. ui'.app = "start" => ~ui'.pressed
  <2>1. lb => ui'.app # "start"
    BY <1>3, <1>6
  <2>. QED
    BY <1>6, <2>1
<1>8. aim \in Aims /\ ui.app \in Screens /\ ui.app # "end"
  BY <1>1 DEF ProgramInv, TypeOK, Aims, Sound, UI
<1>9. CASE lb /\ ~ui.pressed
  <2>1. /\ aim' = [screen |-> ui.app, buttons |-> Under(ui, ui'.cursor)]
        /\ ui'.left = ui'.cursor
    BY <1>6, <1>9 DEF MousePacket, AimAt
  <2>2. aim' \in Aims
    BY <1>8, <2>1, UnderClicks DEF Aims
  <2>3. ui'.app = ui.app => Under(ui', ui'.left) = Under(ui, ui'.cursor)
    BY <1>3, <1>6, <1>9, <2>1 DEF Under, On
  <2>4. Aimed(ui', aim')
    BY <1>3, <1>6, <1>8, <1>9, <2>1, <2>3 DEF Aimed
  <2>. QED
    BY <1>1, <1>6, <1>7, <1>9, <2>2, <2>4, GoesOn DEF Sound, MousePacket
<1>10. CASE ~lb /\ ~ui.pressed
  <2>1. aim' = aim
    BY <1>10 DEF MousePacket
  <2>. QED
    BY <1>1, <1>6, <1>7, <1>8, <1>10, <2>1, GoesOn DEF Sound, MousePacket
<1>11. CASE lb /\ ui.pressed
  <2>1. aim' = aim
    BY <1>11 DEF MousePacket
  <2>2. Under(ui', ui'.left) = Under(ui, ui.left)
    BY <1>3, <1>6, <1>11 DEF Under, On
  <2>3. ui'.app = ui.app
    BY <1>1, <1>3, <1>6, <1>11
  <2>4. Aimed(ui', aim')
    BY <1>1, <1>11, <2>1, <2>2, <2>3 DEF Aimed
  <2>. QED
    BY <1>1, <1>6, <1>7, <1>8, <1>11, <2>1, <2>4, GoesOn DEF Sound, MousePacket
<1>12. CASE ~lb /\ ui.pressed
  <2>1. aim' = aim
    BY <1>12 DEF MousePacket
  <2>2. Under(s, s.left) = Under(ui, ui.left)
    BY <1>3, <1>12 DEF Under, On
  <2>3. Len(ui'.ran) = Cardinality(Range(ui'.ran))
    BY <1>6, OnceCounts DEF Sound, UI
  <2>4. Released
    BY <1>1, <1>6, <1>12, <2>2, <2>3 DEF Released, Aimed
  <2>5. ProgramInv'
    BY <1>1, <1>6, <1>7, <1>8, <1>12, <2>1, GoesOn DEF Sound, MousePacket
  <2>. QED
    BY <2>4, <2>5
<1>. QED
  BY <1>9, <1>10, <1>11, <1>12

(* The first screen, drawn in a mode that could be set.                    *)
LEMMA ShownSound ==
  ASSUME ProgramInv, phase = "screen"
  PROVE /\ Sound(Shown) /\ Shown.freed = 0 /\ Shown.app = "start" /\ ~Shown.pressed
        /\ Shown.ran = ui.ran
<1> DEFINE m == setMinixMode(ui, "vbe600pDc", "ok")
           u == initUI(m)
<1>1. /\ ui \in UI /\ ui.app = "start" /\ ~ui.pressed /\ ui.freed = 0 /\ Buffered(ui)
      /\ "vbe600pDc" \in Graphic /\ "ok" \in Answer /\ "start" \in Screens
  BY ModeSizes DEF ProgramInv, TypeOK, StartInv, Answer, Screens
<1>2. m \in UI /\ Buffered(m) /\ m.app = "start" /\ m.freed = 0 /\ m.ran = ui.ran
  BY <1>1, SetModeKeeps
<1>. HIDE DEF m
<1>3. /\ u \in UI /\ Buffered(u) /\ StaticBuffered(u) /\ OnScreen(u)
      /\ u.app = "start" /\ u.freed = 0 /\ u.ran = ui.ran /\ ~u.pressed
  BY <1>2, InitUIKeeps
<1>. HIDE DEF u
<1>4. Shown = Load(u, "start")
  BY DEF Shown, m, u
<1>5. /\ Shown \in UI /\ Alike(u, Shown) /\ Shows(Shown, {"start"}) /\ Buffered(Shown)
  BY <1>1, <1>3, <1>4, LoadKeeps
<1>. QED
  BY <1>3, <1>5 DEF Alike, Sound, OnScreen, Visible, StaticBuffered

(* The start of the loop. *)
LEMMA StartLoopKeeps == ASSUME ProgramInv, StartLoop PROVE ProgramInv' /\ ~ui.pressed
<1>1. phase = "screen" /\ phase' = "loop" /\ ui' = Shown /\ UNCHANGED <<subs, aim, faults>>
  BY DEF StartLoop
<1>2. /\ Sound(ui') /\ ui'.freed = 0 /\ ui'.app = "start" /\ ~ui'.pressed /\ ui'.ran = ui.ran
  BY <1>1, ShownSound
<1>3. aim \in Aims /\ ~ui.pressed
  BY <1>1 DEF ProgramInv, TypeOK, Aims, StartInv
<1>. QED
  BY <1>1, <1>2, <1>3, GoesOn DEF Sound

(* The ways out: what is subscribed is given up, unless a call fails.      *)
LEMMA Unsubscribes ==
  ASSUME ProgramInv, NEW n \in Exits, exitAllDrivers(n)
  PROVE /\ phase' = "exited" /\ subs' \subseteq Range(Subscribed)
        /\ n \notin DOMAIN Subscribed => subs' = {}
<1>1. subs \subseteq Range(Subscribed)
  BY DEF ProgramInv, TypeOK
<1>2. Range(Subscribed) = {"timer", "keyboard", "mouse", "serial", "rtc"}
      /\ DOMAIN Subscribed = 1..5 /\ DOMAIN Unsubscribed = 1..5
  BY DEF Subscribed, Unsubscribed, Range
<1>3. Exits = 1..6
  BY DEF Exits, Subscribed
<1>4. n = 6 => subs' = {}
  <2>. SUFFICES ASSUME n = 6 PROVE subs' = {}
    OBVIOUS
  <2>1. {Unsubscribed[i] : i \in (1..(n - 1)) \cap DOMAIN Unsubscribed}
        = {Unsubscribed[i] : i \in 1..5}
    BY <1>2
  <2>2. {Unsubscribed[i] : i \in 1..5} = {"timer", "keyboard", "mouse", "serial", "rtc"}
    BY DEF Unsubscribed
  <2>. QED
    BY <1>1, <1>2, <2>1, <2>2 DEF exitAllDrivers
<1>. QED
  BY <1>1, <1>2, <1>3, <1>4 DEF exitAllDrivers

(* The way out of the program leaves only what a failed call left. *)
LEMMA ExitKeeps ==
  ASSUME ProgramInv, NEW s \in UI, OnScreen(s), s.overrun => s.unmapped, s.freed = 0,
         NEW fails \in Failures, NEW n \in Exits, exitAll(s, fails, n)
  PROVE ProgramInv' /\ ui'.pressed = s.pressed
<1>1. fails \in 0..10
  BY FailureAssumption
<1>2. /\ ui' \in UI /\ ui'.pressed = s.pressed /\ ui'.res = s.res /\ ui'.cursor = s.cursor
      /\ ui'.overrun = s.overrun /\ ui'.unmapped = s.unmapped
      /\ fails = 0 => ui'.freed = 1 /\ ui'.vbe = "text"
      /\ fails # Attempts => ui'.vbe = "text"
  <2> DEFINE vbe == IF fails < Attempts THEN "text" ELSE s.vbe
             freed == IF fails < Attempts THEN fails + 1 ELSE Attempts
  <2>1. ui' = [s EXCEPT !.vbe = vbe, !.freed = freed]
    BY DEF exitAll, exitGraphMode
  <2>2. vbe \in Graphic \cup {"text"} /\ freed \in 0..Attempts
    BY <1>1 DEF UI, Attempts
  <2>3. /\ fails = 0 => freed = 1 /\ vbe = "text"
        /\ fails # Attempts => vbe = "text"
    BY <1>1 DEF Attempts
  <2>. HIDE DEF vbe, freed
  <2>. QED
    BY <2>1, <2>2, <2>3 DEF UI
<1>3. /\ phase' = "exited" /\ subs' \subseteq Range(Subscribed)
      /\ n \notin DOMAIN Subscribed => subs' = {}
  BY Unsubscribes DEF exitAll
<1>4. /\ faults' \subseteq {"subscribe", "mode", "vg_exit", "unsubscribe"}
      /\ fails # 0 => "vg_exit" \in faults'
      /\ n \in DOMAIN Subscribed => "unsubscribe" \in faults'
  BY <1>1 DEF exitAll, Fault, ProgramInv, TypeOK
<1>5. aim' = aim
  BY DEF exitAll
<1>6. TypeOK'
  BY <1>2, <1>3, <1>4, <1>5 DEF ProgramInv, TypeOK, OnScreen, Visible
<1>7. CleanExit'
  BY <1>1, <1>2, <1>3, <1>4 DEF CleanExit, Attempts
<1>8. WritesWithinBuffers'
  BY <1>2 DEF ProgramInv, WritesWithinBuffers
<1>. QED
  BY <1>2, <1>3, <1>6, <1>7, <1>8 DEF ProgramInv, StartInv, LoopInv

(* The drivers are set up, as far as the calls succeed. *)
LEMMA InitDriversKeeps ==
  ASSUME ProgramInv, NEW n \in Exits, InitDrivers(n)
  PROVE ProgramInv' /\ ui' = ui
<1>1. subs' \subseteq Range(Subscribed)
  BY DEF InitDrivers, Exits, Subscribed, Range
<1>2. faults' \subseteq {"subscribe", "mode", "vg_exit", "unsubscribe"}
  BY DEF InitDrivers, Fault, ProgramInv, TypeOK
<1>3. TypeOK'
  BY <1>1, <1>2 DEF InitDrivers, ProgramInv, TypeOK, Visible
<1>4. CleanExit'
  BY DEF InitDrivers, CleanExit, Fault, ProgramInv, StartInv
<1>. QED
  BY <1>3, <1>4
  DEF InitDrivers, ProgramInv, WritesWithinBuffers, StartInv, LoopInv

LEMMA ScreenFailsKeeps ==
  ASSUME ProgramInv, NEW answer \in Answer, NEW n \in Exits, ScreenFails(answer, n)
  PROVE ProgramInv' /\ ~ui.pressed
<1>1. /\ ui \in UI /\ Buffered(ui) /\ ui.vbe = "text" /\ ui.freed = 0 /\ answer # "ok"
      /\ "vbe600pDc" \in Graphic /\ WritesWithinBuffers /\ OnScreen(ui)
  BY ModeSizes DEF ScreenFails, ProgramInv, TypeOK, StartInv, OnScreen
<1>2. ui' = setMinixMode(ui, "vbe600pDc", answer)
  BY DEF ScreenFails
<1>3. ui' \in UI /\ Buffered(ui') /\ ui'.freed = 0
  BY <1>1, <1>2, SetModeKeeps
<1>4. OnScreen(ui')
  <2>1. answer = "refused" => ui' = ui
    BY <1>2 DEF setMinixMode
  <2>2. answer \in {"noInfo", "noMap"} => ~Visible(ui')
    BY <1>1, <1>2, ModeSizes DEF setMinixMode, UI, Visible, NoFrame
  <2>. QED
    BY <1>1, <2>1, <2>2 DEF Answer, OnScreen
<1>5. /\ phase' = "exited" /\ subs' \subseteq Range(Subscribed)
      /\ n \notin DOMAIN Subscribed => subs' = {}
  BY Unsubscribes DEF ScreenFails
<1>6. /\ faults' \subseteq {"subscribe", "mode", "vg_exit", "unsubscribe"}
      /\ ui'.vbe # "text" => "mode" \in faults'
      /\ n \in DOMAIN Subscribed => "unsubscribe" \in faults'
  BY <1>1 DEF ScreenFails, Fault, ProgramInv, TypeOK
<1>7. aim' = aim
  BY DEF ScreenFails
<1>8. TypeOK'
  BY <1>3, <1>4, <1>5, <1>6, <1>7 DEF ProgramInv, TypeOK, OnScreen
<1>9. CleanExit'
  BY <1>3, <1>5, <1>6 DEF CleanExit
<1>10. WritesWithinBuffers'
  BY <1>3 DEF ProgramInv, WritesWithinBuffers, Buffered
<1>11. ~ui.pressed
  BY DEF ScreenFails, ProgramInv, StartInv
<1>. QED
  BY <1>5, <1>8, <1>9, <1>10, <1>11 DEF ProgramInv, StartInv, LoopInv

LEMMA DataFailsKeeps ==
  ASSUME ProgramInv, NEW fails \in Failures, NEW n \in Exits, DataFails(fails, n)
  PROVE ProgramInv' /\ ~ui.pressed
<1>1. Sound(Shown) /\ Shown.freed = 0
  BY ShownSound DEF DataFails
<1>2. ~ui.pressed
  BY DEF DataFails, ProgramInv, StartInv
<1>. QED
  BY <1>1, <1>2, ExitKeeps DEF DataFails, Sound, Buffered

LEMMA LeaveLoopKeeps ==
  ASSUME ProgramInv, NEW fails \in Failures, NEW n \in Exits, LeaveLoop(fails, n)
  PROVE ProgramInv' /\ ui'.pressed = ui.pressed
<1>1. ui \in UI /\ OnScreen(ui) /\ ui.freed = 0 /\ (ui.overrun => ui.unmapped)
  BY DEF LeaveLoop, ProgramInv, TypeOK, OnScreen, LoopInv, WritesWithinBuffers
<1>. QED
  BY <1>1, ExitKeeps DEF LeaveLoop

(* A tick redraws the screen. *)
LEMMA TickKeeps ==
  ASSUME ProgramInv, NEW fails \in Failures, NEW n \in Exits, Tick(fails, n)
  PROVE ProgramInv' /\ ui'.pressed = ui.pressed
<1> DEFINE s == CopyStatic(ui)
<1>1. /\ phase = "loop" /\ ui.app # "end" /\ Sound(ui) /\ ui.freed = 0
      /\ ui.app = "start" => ~ui.pressed
      /\ ui.pressed => Aimed(ui, aim)
      /\ aim \in Aims
  BY DEF Tick, Running, ProgramInv, TypeOK, LoopInv, Aims
<1>2. s \in UI /\ Alike(ui, s) /\ s.table = ui.table /\ Buffered(s)
  BY <1>1, CopyKeeps DEF Sound
<1>. HIDE DEF s
<1>3. /\ Sound(s) /\ s.freed = 0 /\ s.pressed = ui.pressed
      /\ s.left = ui.left /\ s.app = ui.app /\ s.mode = ui.mode
  BY <1>1, <1>2 DEF Sound, Alike, OnScreen, Visible, StaticBuffered, Shows
<1>4. CASE Visible(ui) \/ ui.app = "start"
  <2>1. ui' = s /\ UNCHANGED <<phase, subs, aim, faults>>
    BY <1>4 DEF Tick, s
  <2>2. Under(s, s.left) = Under(ui, ui.left)
    BY <1>2, <1>3 DEF Under, On
  <2>3. ui.pressed => Aimed(s, aim)
    BY <1>1, <1>3, <2>2 DEF Aimed
  <2>. QED
    BY <1>1, <1>3, <2>1, <2>3, GoesOn DEF Sound
<1>5. CASE ~(Visible(ui) \/ ui.app = "start")
  <2>1. exitAll(s, fails, n)
    BY <1>5 DEF Tick, s
  <2>. QED
    BY <1>3, <2>1, ExitKeeps DEF Sound, Buffered
<1>. QED
  BY <1>4, <1>5

(* Every action keeps the invariant, and a release is what it should be.   *)
Step == ProgramInv' /\ (ui.pressed /\ ~ui'.pressed => Released)

LEMMA ProgramNext == ProgramInv /\ [Next]_vars => Step
<1>. SUFFICES ASSUME ProgramInv, [Next]_vars PROVE Step
  OBVIOUS
<1>1. CASE UNCHANGED vars
  BY <1>1
  DEF vars, Step, ProgramInv, TypeOK, WritesWithinBuffers, CleanExit, StartInv, LoopInv
<1>2. ASSUME NEW n \in Exits, InitDrivers(n) PROVE Step
  BY <1>2, InitDriversKeeps DEF Step
<1>3. ASSUME NEW answer \in Answer, NEW n \in Exits, ScreenFails(answer, n) PROVE Step
  BY <1>3, ScreenFailsKeeps DEF Step
<1>4. ASSUME NEW fails \in Failures, NEW n \in Exits, DataFails(fails, n) \/ Tick(fails, n)
      PROVE Step
  BY <1>4, DataFailsKeeps, TickKeeps DEF Step
<1>5. ASSUME User PROVE Step
  BY <1>5, MousePacketKeeps DEF User, Step
<1>6. ASSUME Exit PROVE Step
  BY <1>6, LeaveLoopKeeps DEF Exit, Step
<1>7. ASSUME StartLoop \/ Esc \/ AnyKey PROVE Step
  BY <1>7, StartLoopKeeps, EscKeeps, AnyKeyKeeps DEF Step
<1>. QED
  BY <1>1, <1>2, <1>3, <1>4, <1>5, <1>6, <1>7 DEF Next

(* ProgramInv holds of the program. *)
THEOREM ProgramInvariant == Spec => []ProgramInv
<1>1. ProgramInv /\ [Next]_vars => ProgramInv'
  BY ProgramNext DEF Step
<1>. QED
  BY <1>1, ProgramInit, PTL DEF Spec

(* The cursor, the screens, the buffers and the mode stay in their ranges, *)
(* for every mouse and every answer to a change of resolution.             *)
THEOREM ProgramTypes == Spec => []TypeOK
<1>1. ProgramInv => TypeOK
  BY DEF ProgramInv
<1>. QED
  BY <1>1, ProgramInvariant, PTL

(* However the callbacks of a click change the table and the resolution    *)
(* under the loop of mouseUpdate, a release runs no button twice: those    *)
(* under the press, on the screen that was pressed on, or, when that has   *)
(* gone, those its successor has at the same place.                        *)
THEOREM ClickRight == Spec => ReleaseRunsWhatLiesThere
<1>1. ProgramInv /\ [Next]_vars => [ui.pressed /\ ~ui'.pressed => Released]_vars
  BY ProgramNext DEF Step
<1>2. [][ui.pressed /\ ~ui'.pressed => Released]_vars => ReleaseRunsWhatLiesThere
  BY DEF Released, ReleaseRunsWhatLiesThere
<1>. QED
  BY <1>1, <1>2, ProgramInvariant, PTL DEF Spec

(* The buttons that can be clicked are those of the screen shown.          *)
THEOREM TableOfScreen == Spec => []ButtonsOfScreen
<1>1. ProgramInv => ButtonsOfScreen
  BY DEF ProgramInv, LoopInv, Sound, Shows, ButtonsOfScreen
<1>. QED
  BY <1>1, ProgramInvariant, PTL

(* No frame is written past a buffer of another resolution.                *)
THEOREM BuffersKept == Spec => []WritesWithinBuffers
<1>1. ProgramInv => WritesWithinBuffers
  BY DEF ProgramInv
<1>. QED
  BY <1>1, ProgramInvariant, PTL

(* The program takes back what it did, if the calls that do so succeed.    *)
THEOREM ExitsClean == Spec => []CleanExit
<1>1. ProgramInv => CleanExit
  BY DEF ProgramInv
<1>. QED
  BY <1>1, ProgramInvariant, PTL
=============================================================================
