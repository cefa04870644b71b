-------------------------------- MODULE Menu --------------------------------
(***************************************************************************)
(* The menu of the control panel, r61529_screen_menu: which sub-menu is     *)
(* shown, the cursor, the counters that slow the buttons down, and the      *)
(* settings.  One poll of the menu is one action; what the manual menu does *)
(* to the machine and to the pendant is in Panel.tla, here it only counts   *)
(* the buttons.  Drawing is left out.                                       *)
(*                                                                          *)
(* The 16-bit words of level_indexes are kept as their two bytes: low is    *)
(* the entry selected at a level, high the entry that was opened.  The code *)
(* decides now by one of them and now by the other.                         *)
(***************************************************************************)
EXTENDS Naturals, Integers, Sequences

CONSTANTS
  SUBMENUS, SETTINGS_SUBMENUS, MPG_AXES_SETTINGS, MPG_SPINDLE_SETTINGS,
  DIST_SETTINGS,     \* X_AXIS_DIST_SETTINGS, YZ_AXIS_DIST_SETTINGS, JOG_FEED_SETTINGS
  button_delay,      \* DEFAULT_DELAY / ENTER_MENU_DELAY_TIME
  Default, Diff,     \* of x_axis_multiplicity, yz_axis_multiplicity, jog_speeds
  Bound, Top,        \* the value that is compared with, the value that is set
  MINIMUM_BRIGHTNESS, MAXIMUM_BRIGHTNESS,
  SPINDLE_SPEED_MIN, SPINDLE_SPEED_MAX, SPINDLE_SPEED_DIFF,
  SPINDLE_SPEED_DEFAULT,
  Held,              \* the sets of buttons held down at a poll
  Points,            \* bound: the points of the screen that are touched
  NoTouch            \* touch_point_cnt = 0

Buttons == {"UP", "DOWN", "LEFT", "RIGHT", "ENTER", "BACK"}
Levels  == 0..3
Axes    == 0..(MPG_AXES_SETTINGS - 1)
Dists   == 0..(DIST_SETTINGS - 1)
Preset  == [Axes -> [Dists -> Nat]]

ASSUME SizeAssumption ==
  /\ SUBMENUS = 3 /\ SETTINGS_SUBMENUS = 3 /\ MPG_AXES_SETTINGS = 3
  /\ {MPG_SPINDLE_SETTINGS, DIST_SETTINGS} \subseteq Nat \ {0}

\* A counter that acts at one must not pass button_delay before it is
\* compared again.
ASSUME DelayAssumption == button_delay \in Nat /\ button_delay >= 3

ASSUME HeldAssumption == Held \subseteq SUBSET Buttons

\* A button at its end of the range stays there, and the coarser preset
\* starts where the finer one ends or above.
ASSUME PresetAssumption ==
  /\ {Default, Diff, Bound, Top} \subseteq Preset
  /\ \A a \in Axes : \A i \in Dists :
       /\ Diff[a][i] <= Default[a][i]
       /\ Default[a][i] <= Bound[a][i] /\ Bound[a][i] <= Top[a][i]
       /\ i + 1 \in Dists => Top[a][i] <= Default[a][i + 1]

ASSUME SpindleAssumption ==
  /\ {SPINDLE_SPEED_MIN, SPINDLE_SPEED_MAX, SPINDLE_SPEED_DIFF} \subseteq Nat
  /\ SPINDLE_SPEED_DEFAULT \in SPINDLE_SPEED_MIN..SPINDLE_SPEED_MAX

ASSUME BrightnessAssumption ==
  /\ {MINIMUM_BRIGHTNESS, MAXIMUM_BRIGHTNESS} \subseteq Nat
  /\ MINIMUM_BRIGHTNESS <= MAXIMUM_BRIGHTNESS

VARIABLES
  level,
  low, high,            \* bytes of level_indexes
  button_delay_cnts,
  presets,              \* the three arrays of mpg_settings
  spindle_speed,
  brightness_value

indexVars   == <<level, low, high>>
settingVars == <<presets, spindle_speed, brightness_value>>
vars == <<indexVars, button_delay_cnts, settingVars>>

TypeOK ==
  /\ level \in Levels
  /\ low \in [Levels -> Nat]
  /\ high \in [Levels -> Nat]
  /\ button_delay_cnts \in [Buttons -> Nat]
  /\ presets \in Preset
  /\ spindle_speed \in SPINDLE_SPEED_MIN..SPINDLE_SPEED_MAX
  /\ brightness_value \in MINIMUM_BRIGHTNESS..MAXIMUM_BRIGHTNESS

\* draw_loading_screen and the initial values of mpg_settings; the backlight
\* starts at full duty.
Init ==
  /\ level = 0 /\ low = [k \in Levels |-> 0] /\ high = [k \in Levels |-> 0]
  /\ button_delay_cnts = [b \in Buttons |-> 0]
  /\ presets = Default
  /\ spindle_speed = SPINDLE_SPEED_DEFAULT
  /\ brightness_value = MAXIMUM_BRIGHTNESS

-----------------------------------------------------------------------------
(* The counters of the buttons.                                             *)

\* clear_button_channel_cnts, at the start of every poll.
Cleared(held) ==
  [b \in Buttons |-> IF b \in held THEN button_delay_cnts[b] ELSE 0]

\* The first button of a chain of else-ifs that is held; "" when none is.
Handled(held, chain) ==
  LET pressed == SelectSeq(chain, LAMBDA b : b \in held)
  IN IF pressed = <<>> THEN "" ELSE Head(pressed)

\* A held button acts at once and then whenever its counter comes to
\* button_delay; level 0 compares for equality, the others for at least.
Acts(c, b) ==
  \/ c[b] = 0
  \/ IF level = 0 THEN c[b] + 1 = button_delay ELSE c[b] + 1 >= button_delay

\* Seeded bug: the counter is not restarted after the delay.
Counted_Bug(c, b) ==
  [c EXCEPT ![b] = IF c[b] = 0 THEN 2 ELSE c[b] + 1]

Counted(c, b) ==
  [c EXCEPT ![b] = IF Acts(c, b) THEN (IF c[b] = 0 THEN 2 ELSE 0)
                                 ELSE c[b] + 1]

-----------------------------------------------------------------------------
(* Moving through the menus.                                                *)

Next_(i, n)     == IF i + 1 >= n THEN 0 ELSE i + 1
Previous_(i, n) == IF i = 0 THEN n - 1 ELSE i - 1

\* "When menu index has changed": the new index replaces both bytes.
Select(k, i) ==
  IF i = low[k] THEN UNCHANGED indexVars
  ELSE /\ low' = [low EXCEPT ![k] = i] /\ high' = [high EXCEPT ![k] = 0]
       /\ UNCHANGED level

\* The buttons forward and back move the cursor of this level among n entries.
Scroll(c, b, forward, back, n) ==
  /\ b \in {forward, back}
  /\ button_delay_cnts' = Counted(c, b)
  /\ IF Acts(c, b)
     THEN Select(level, IF b = forward THEN Next_(low[level], n)
                                       ELSE Previous_(low[level], n))
     ELSE UNCHANGED indexVars
  /\ UNCHANGED settingVars

\* ENTER has no counter: held, it opens a menu at every poll.
Enter(c, b) ==
  /\ b = "ENTER"
  /\ level' = level + 1 /\ high' = [high EXCEPT ![level] = low[level]]
  /\ button_delay_cnts' = c
  /\ UNCHANGED <<low, settingVars>>

\* Seeded bug: the index of the level that is left is not reset.
Leave_Bug(c) ==
  /\ level' = level - 1 /\ UNCHANGED low
  /\ high' = [high EXCEPT ![level] = 0, ![level - 1] = 0]
  /\ button_delay_cnts' = c
  /\ UNCHANGED settingVars

Leave(c) ==
  /\ level' = level - 1
  /\ low' = [low EXCEPT ![level] = 0]
  /\ high' = [high EXCEPT ![level] = 0, ![level - 1] = 0]
  /\ button_delay_cnts' = c
  /\ UNCHANGED settingVars

Idle(c) == button_delay_cnts' = c /\ UNCHANGED <<indexVars, settingVars>>

-----------------------------------------------------------------------------
(* The touch screen.                                                        *)

Inside(p, x, y, width, height) ==
  p[1] > x /\ p[1] < x + width /\ p[2] > y /\ p[2] < y + height

\* The entries drawn as blocks, by their pixels; the macro for the margin of
\* the main menu has no parentheses, so that i * 30 is divided by 4.
MainBlocks(p) ==
  {i \in 0..(SUBMENUS - 1) : Inside(p, 7 + (i * 30) \div 4 + i * 150, 30, 150, 60)}
SettingBlocks(p) ==
  {i \in 0..(SUBMENUS - 1) : Inside(p, 20, 60 + i * 60, 300, 40)}
AxesBlocks(p) ==
  {i \in 0..(MPG_AXES_SETTINGS - 1) : Inside(p, 20, 80 + i * 50, 300, 30)}
SpindleBlocks(p) ==
  {i \in 0..(MPG_SPINDLE_SETTINGS - 1) : Inside(p, 20, 80 + i * 60, 250, 40)}

\* Seeded bug: the blocks of the axes settings are looked up by the cursor.
Touched_Bug(p) ==
  IF p = NoTouch THEN {}
  ELSE {i \in MainBlocks(p) : level = 0}
    \cup {i \in SettingBlocks(p) : level = 1 /\ low[0] = 2}
    \cup {i \in AxesBlocks(p) : level = 2 /\ high[0] = 2}

\* touch_select_submenu; no two blocks of a menu overlap.
Touched(p) ==
  IF p = NoTouch THEN {}
  ELSE {i \in MainBlocks(p) : level = 0}
    \cup {i \in SettingBlocks(p) : level = 1 /\ high[0] = 2}
    \cup {i \in AxesBlocks(p) : level = 2 /\ high[0] = 2 /\ high[1] = 1}
    \cup {i \in SpindleBlocks(p) : level = 2 /\ high[0] = 2 /\ high[1] = 2}

touch_exit_submenu(p) == p # NoTouch /\ p[1] > 410 /\ p[2] < 40

TouchSelect(c, p) ==
  /\ \E i \in Touched(p) : /\ low'  = [low EXCEPT ![level] = i]
                           /\ high' = [high EXCEPT ![level] = i]
  /\ level' = level + 1
  /\ button_delay_cnts' = c
  /\ UNCHANGED settingVars

-----------------------------------------------------------------------------
(* The settings.                                                            *)

\* Seeded bug: a preset that passes its bound is not set back.
Raised_Bug(a, i) == presets[a][i] + Diff[a][i]

\* The slow jog speed is compared with 590 and set to 750.
Raised(a, i) ==
  IF presets[a][i] + Diff[a][i] > Bound[a][i]
  THEN Top[a][i] ELSE presets[a][i] + Diff[a][i]

Lowered(a, i) ==
  IF presets[a][i] - Diff[a][i] < Default[a][i]
  THEN Default[a][i] ELSE presets[a][i] - Diff[a][i]

\* Seeded bug: a value below its minimum is not set back.
Clamp_Bug(v, min, max) == IF v > max THEN max ELSE v

Clamp(v, min, max) == IF v > max THEN max ELSE IF v < min THEN min ELSE v

\* RIGHT raises and LEFT lowers the value that is shown, once per act.
AdjustPreset(c, b) ==
  /\ b \in {"RIGHT", "LEFT"}
  /\ button_delay_cnts' = Counted(c, b)
  /\ presets' = IF Acts(c, b) /\ high[2] \in Axes /\ low[3] \in Dists
                THEN [presets EXCEPT ![high[2]][low[3]] =
                        IF b = "RIGHT" THEN Raised(high[2], low[3])
                                       ELSE Lowered(high[2], low[3])]
                ELSE presets
  /\ UNCHANGED <<indexVars, spindle_speed, brightness_value>>

AdjustSpindle(c, b) ==
  /\ b \in {"RIGHT", "LEFT"}
  /\ button_delay_cnts' = Counted(c, b)
  /\ spindle_speed' =
       IF Acts(c, b) /\ low[2] = 0
       THEN Clamp(IF b = "RIGHT" THEN spindle_speed + SPINDLE_SPEED_DIFF
                                 ELSE spindle_speed - SPINDLE_SPEED_DIFF,
                  SPINDLE_SPEED_MIN, SPINDLE_SPEED_MAX)
       ELSE spindle_speed
  /\ UNCHANGED <<indexVars, presets, brightness_value>>

AdjustBrightness(c, b) ==
  /\ b \in {"RIGHT", "LEFT"}
  /\ button_delay_cnts' = Counted(c, b)
  /\ brightness_value' =
       IF Acts(c, b)
       THEN Clamp(IF b = "RIGHT" THEN brightness_value + 1
                                 ELSE brightness_value - 1,
                  MINIMUM_BRIGHTNESS, MAXIMUM_BRIGHTNESS)
       ELSE brightness_value
  /\ UNCHANGED <<indexVars, presets, spindle_speed>>

-----------------------------------------------------------------------------
(* The menu selector, one operator per level.                               *)

MainMenu(held, c) ==
  LET b == Handled(held, <<"RIGHT", "LEFT", "ENTER">>)
  IN level = 0 /\ \/ Scroll(c, b, "RIGHT", "LEFT", SUBMENUS)
                  \/ Enter(c, b)
                  \/ b = "" /\ Idle(c)

\* The manual menu: ENTER switches MPG mode, and in MPG mode the arrows jog.
Manual(held, c) ==
  \E mpgMode \in BOOLEAN :
    LET enter == IF "ENTER" \in held THEN Counted(c, "ENTER") ELSE c
        b == IF mpgMode THEN Handled(held, <<"RIGHT", "LEFT", "UP", "DOWN">>) ELSE ""
    IN /\ button_delay_cnts' = IF b = "" THEN enter ELSE Counted(enter, b)
       /\ UNCHANGED <<indexVars, settingVars>>

Level1(held, c, p) ==
  LET b == Handled(held, <<"DOWN", "UP", "ENTER">>)
  IN /\ level = 1
     /\ IF touch_exit_submenu(p) \/ "BACK" \in held THEN Leave(c)
        ELSE \/ high[0] = 1 /\ Manual(held, c)
             \/ high[0] = 2 /\ Scroll(c, b, "DOWN", "UP", SETTINGS_SUBMENUS)
             \/ high[0] = 2 /\ Enter(c, b)
             \/ high[0] # 1 /\ (high[0] = 2 => b = "") /\ Idle(c)

Level2(held, c, p) ==
  LET slider == Handled(held, <<"RIGHT", "LEFT">>)
      b == Handled(held, <<"DOWN", "UP", "ENTER">>)
      n == IF high[1] = 1 THEN MPG_AXES_SETTINGS ELSE MPG_SPINDLE_SETTINGS
      brightness == high[0] = 2 /\ high[1] = 0
      selector   == high[0] = 2 /\ high[1] \in {1, 2}
  IN /\ level = 2
     /\ IF touch_exit_submenu(p) \/ "BACK" \in held THEN Leave(c)
        ELSE \/ brightness /\ AdjustBrightness(c, slider)
             \/ selector /\ Scroll(c, b, "DOWN", "UP", n)
             \/ selector /\ Enter(c, b)
             \/ (brightness => slider = "") /\ (selector => b = "") /\ Idle(c)

Level3(held, c, p) ==
  LET slider == Handled(held, <<"RIGHT", "LEFT">>)
      b == Handled(held, <<"DOWN", "UP", "RIGHT", "LEFT">>)
      axes    == low[0] = 2 /\ low[1] = 1
      spindle == low[0] = 2 /\ low[1] = 2
  IN /\ level = 3
     /\ IF touch_exit_submenu(p) \/ "BACK" \in held THEN Leave(c)
        ELSE \/ axes /\ Scroll(c, b, "DOWN", "UP", DIST_SETTINGS)
             \/ axes /\ AdjustPreset(c, b)
             \/ spindle /\ AdjustSpindle(c, slider)
             \/ (axes => b = "") /\ (spindle => slider = "") /\ Idle(c)

\* r61529_screen_menu, with the buttons held and the point touched.
Poll(held, p) ==
  LET c == Cleared(held)
  IN \/ TouchSelect(c, p)
     \/ Touched(p) = {} /\ \/ MainMenu(held, c)
                           \/ Level1(held, c, p)
                           \/ Level2(held, c, p)
                           \/ Level3(held, c, p)

Next == \E held \in Held, p \in Points \cup {NoTouch} : Poll(held, p)

Spec == Init /\ [][Next]_vars

-----------------------------------------------------------------------------
(* Properties.                                                              *)

\* At a menu that is open the byte it was opened with is the byte the cursor
\* has, at the others nothing is left over: it makes no difference that
\* level 3 and draw_menu look at the one byte where the other levels look at
\* the other.
PathConsistent ==
  \A k \in Levels : IF k < level THEN high[k] = low[k]
                    ELSE high[k] = 0 /\ (k > level => low[k] = 0)

\* The entry that draw_menu takes out of settings_options, mpg_axes_settings
\* or mpg_spindle_settings is in the array.
NamesInRange ==
  /\ low[0] < SUBMENUS
  /\ level >= 2 => low[0] = 2 /\ high[1] < SETTINGS_SUBMENUS
  /\ level = 3 => \/ low[1] = 1 /\ high[2] < MPG_AXES_SETTINGS
                  \/ low[1] = 2 /\ high[2] < MPG_SPINDLE_SETTINGS

\* Between two polls no counter has reached the delay: the main menu, which
\* compares for equality, would wait for it until the button is released.
CountersBelowDelay == \A b \in Buttons : button_delay_cnts[b] < button_delay

\* Precise is never coarser than normal, nor normal than coarse, and the jog
\* speeds likewise, however the operator adjusts them.
PresetsOrdered ==
  \A a \in Axes : \A i \in Dists :
    i + 1 \in Dists => presets[a][i] <= presets[a][i + 1]

\* The menu is the tree that the operator sees: the buttons, the touch screen
\* and the two bytes of level_indexes only ever move a cursor in it, and only
\* the setting at the cursor changes.  Of the spindle's settings only the first
\* has a value; any others would be entries that nothing changes.
trail == [k \in 1..(level + 1) |-> low[k - 1]]
leaves ==
  {<<2, 0, 0>>} \cup {<<2, 1, a, i>> : a \in Axes, i \in Dists}
    \cup {<<2, 2, s, 0>> : s \in 0..(MPG_SPINDLE_SETTINGS - 1)}
value == [t \in leaves |->
  CASE t[2] = 0 -> brightness_value
    [] t[2] = 1 -> presets[t[3]][t[4]]
    [] t[2] = 2 -> IF t[3] = 0 THEN spindle_speed ELSE SPINDLE_SPEED_DEFAULT]
range == [t \in leaves |->
  CASE t[2] = 0 -> MINIMUM_BRIGHTNESS..MAXIMUM_BRIGHTNESS
    [] t[2] = 1 -> Default[t[3]][t[4]]..Top[t[3]][t[4]]
    [] t[2] = 2 -> SPINDLE_SPEED_MIN..SPINDLE_SPEED_MAX]

Tree == INSTANCE MenuTree WITH Range <- range
TreeSpec == Tree!Spec
=============================================================================
