----------------------------- MODULE MenuProofs -----------------------------
(***************************************************************************)
(* Proofs about Menu.tla, for all sizes of the settings menus, all presets  *)
(* and their bounds, and whatever is pressed and touched.                   *)
(*                                                                          *)
(* The three groups of variables are treated one after the other.  For the  *)
(* indexes a poll is one of four moves, and the cursor has to be among the  *)
(* entries of the menu that is open; the counters are below the delay by    *)
(* themselves; the presets are in order because each stays in a range of    *)
(* its own.                                                                 *)
(*                                                                          *)
(* Last, the menu implements MenuTree: each of the four moves, and each     *)
(* change of a setting, maps to a step of the tree or to none.              *)
(***************************************************************************)
EXTENDS Menu, TLAPS

IndexType ==
  /\ level \in Levels /\ low \in [Levels -> Nat] /\ high \in [Levels -> Nat]

\* The cursor is among the entries of the menu that is open.
CursorInRange ==
  /\ level = 0 => low[0] < SUBMENUS
  /\ level = 1 => low[1] < SETTINGS_SUBMENUS
  /\ level = 2 /\ high[1] = 1 => low[2] < MPG_AXES_SETTINGS
  /\ level = 2 /\ high[1] = 2 => low[2] < MPG_SPINDLE_SETTINGS
  /\ level = 2 /\ high[1] = 0 => low[2] = 0
  /\ level = 3 /\ low[1] = 1 => low[3] < DIST_SETTINGS
  /\ level = 3 /\ low[1] = 2 => low[3] = 0

IndexInv == IndexType /\ PathConsistent /\ NamesInRange /\ CursorInRange

\* i is an entry of the menu that is open, which has more than one.
IsEntry(i) ==
  /\ i \in Nat
  /\ level = 0 => i < SUBMENUS
  /\ level = 1 => high[0] = 2 /\ i < SETTINGS_SUBMENUS
  /\ level = 2 => \/ high[1] = 1 /\ i < MPG_AXES_SETTINGS
                  \/ high[1] = 2 /\ i < MPG_SPINDLE_SETTINGS
  /\ level = 3 => low[1] = 1 /\ i < DIST_SETTINGS

\* What a poll does to the indexes.
Stays == UNCHANGED indexVars
Moves == \E i \in Nat :
  /\ IsEntry(i) /\ UNCHANGED level
  /\ low' = [low EXCEPT ![level] = i] /\ high' = [high EXCEPT ![level] = 0]
Opens == \E i \in Nat :
  /\ IsEntry(i) /\ level < 3 /\ level' = level + 1
  /\ low' = [low EXCEPT ![level] = i] /\ high' = [high EXCEPT ![level] = i]
Leaves_ ==
  /\ level > 0 /\ level' = level - 1
  /\ low' = [low EXCEPT ![level] = 0]
  /\ high' = [high EXCEPT ![level] = 0, ![level - 1] = 0]

IndexMove == Stays \/ Moves \/ Opens \/ Leaves_

LEMMA Sizes ==
  /\ SUBMENUS = 3 /\ SETTINGS_SUBMENUS = 3 /\ MPG_AXES_SETTINGS = 3
  /\ MPG_SPINDLE_SETTINGS \in Nat \ {0} /\ DIST_SETTINGS \in Nat \ {0}
BY SizeAssumption DEF SizeAssumption

-----------------------------------------------------------------------------
(* Every move keeps the invariant of the indexes.                           *)

LEMMA StaysInv == IndexInv /\ Stays => IndexInv'
BY DEF IndexInv, IndexType, PathConsistent, NamesInRange, CursorInRange, Stays, indexVars

LEMMA MovesInv == IndexInv /\ Moves => IndexInv'
<1> SUFFICES ASSUME IndexInv, NEW i \in Nat, IsEntry(i), UNCHANGED level,
                    low' = [low EXCEPT ![level] = i], high' = [high EXCEPT ![level] = 0]
             PROVE  IndexInv'
  BY DEF Moves
<1>1. IndexType' BY DEF IndexInv, IndexType, Levels
<1>2. PathConsistent' BY DEF IndexInv, IndexType, PathConsistent, Levels
<1>3. NamesInRange' BY DEF IndexInv, IndexType, NamesInRange, Levels, IsEntry
<1>4. CursorInRange' BY DEF IndexInv, IndexType, CursorInRange, Levels, IsEntry
<1> QED BY <1>1, <1>2, <1>3, <1>4 DEF IndexInv

LEMMA OpensInv == IndexInv /\ Opens => IndexInv'
<1> SUFFICES ASSUME IndexInv, NEW i \in Nat, IsEntry(i), level < 3, level' = level + 1,
                    low' = [low EXCEPT ![level] = i], high' = [high EXCEPT ![level] = i]
             PROVE  IndexInv'
  BY DEF Opens
<1>1. IndexType' BY DEF IndexInv, IndexType, Levels
<1>2. PathConsistent' BY DEF IndexInv, IndexType, PathConsistent, Levels
<1>3. NamesInRange'
  BY Sizes DEF IndexInv, IndexType, PathConsistent, NamesInRange, Levels, IsEntry
<1>4. CursorInRange'
  BY Sizes DEF IndexInv, IndexType, PathConsistent, CursorInRange, Levels
<1> QED BY <1>1, <1>2, <1>3, <1>4 DEF IndexInv

LEMMA LeavesInv == IndexInv /\ Leaves_ => IndexInv'
<1> SUFFICES ASSUME IndexInv, Leaves_ PROVE IndexInv' OBVIOUS
<1>1. IndexType' BY DEF Leaves_, IndexInv, IndexType, Levels
<1>2. PathConsistent' BY DEF Leaves_, IndexInv, IndexType, PathConsistent, Levels
<1>3. NamesInRange'
  BY Sizes DEF Leaves_, IndexInv, IndexType, PathConsistent, NamesInRange, Levels
<1>4. CursorInRange'
  BY Sizes DEF Leaves_, IndexInv, IndexType, PathConsistent, NamesInRange,
               CursorInRange, Levels
<1> QED BY <1>1, <1>2, <1>3, <1>4 DEF IndexInv

LEMMA IndexMoveInv == IndexInv /\ IndexMove => IndexInv'
BY StaysInv, MovesInv, OpensInv, LeavesInv DEF IndexMove

-----------------------------------------------------------------------------
(* A poll is one of the moves.                                              *)

\* The cursor that goes round n entries stays among them.
LEMMA RoundAndRound ==
  ASSUME NEW n \in Nat \ {0}, NEW i \in Nat, i < n
  PROVE  /\ Next_(i, n) \in Nat /\ Next_(i, n) < n
         /\ Previous_(i, n) \in Nat /\ Previous_(i, n) < n
BY DEF Next_, Previous_

LEMMA ScrollMoves ==
  ASSUME IndexInv, NEW c, NEW b, NEW forward, NEW back, NEW n \in Nat \ {0},
         low[level] < n, \A i \in Nat : i < n => IsEntry(i),
         Scroll(c, b, forward, back, n)
  PROVE  IndexMove
<1>1. low[level] \in Nat BY DEF IndexInv, IndexType
<1>2. CASE UNCHANGED indexVars BY <1>2 DEF IndexMove, Stays
<1>3. CASE ~UNCHANGED indexVars
  <2>1. PICK i \in Nat : i < n /\ Select(level, i)
    BY <1>1, <1>3, RoundAndRound DEF Scroll
  <2>2. IsEntry(i) BY <2>1
  <2>3. Moves BY <1>3, <2>1, <2>2 DEF Select, Moves
  <2> QED BY <2>3 DEF IndexMove
<1> QED BY <1>2, <1>3

LEMMA EnterOpens ==
  ASSUME IndexInv, NEW c, NEW b, level < 3, IsEntry(low[level]), Enter(c, b)
  PROVE  IndexMove
<1>1. low' = [low EXCEPT ![level] = low[level]] BY DEF Enter, IndexInv, IndexType
<1>2. Opens BY <1>1 DEF Enter, Opens, IndexInv, IndexType
<1> QED BY <1>2 DEF IndexMove

LEMMA TouchOpens ==
  ASSUME IndexInv, NEW c, NEW p, TouchSelect(c, p)
  PROVE  IndexMove
<1>1. PICK i \in Touched(p) : /\ low'  = [low EXCEPT ![level] = i]
                              /\ high' = [high EXCEPT ![level] = i]
  BY DEF TouchSelect
<1>2. i \in Nat /\ IsEntry(i) /\ level < 3
  BY Sizes DEF Touched, MainBlocks, SettingBlocks, AxesBlocks, SpindleBlocks, IsEntry
<1>3. Opens BY <1>1, <1>2 DEF TouchSelect, Opens
<1> QED BY <1>3 DEF IndexMove

LEMMA LeaveLeaves ==
  ASSUME IndexInv, level > 0, NEW c, Leave(c)
  PROVE  IndexMove
BY DEF Leave, IndexMove, Leaves_

LEMMA Level0Moves ==
  ASSUME IndexInv, NEW held, NEW c, MainMenu(held, c)
  PROVE  IndexMove
<1> DEFINE b == Handled(held, <<"RIGHT", "LEFT", "ENTER">>)
<1>1. level = 0 /\ low[0] \in Nat /\ low[0] < SUBMENUS
  BY DEF MainMenu, IndexInv, IndexType, CursorInRange, Levels
<1>2. \A i \in Nat : i < SUBMENUS => IsEntry(i) BY <1>1 DEF IsEntry
<1>3. CASE Scroll(c, b, "RIGHT", "LEFT", SUBMENUS)
  BY <1>1, <1>2, <1>3, Sizes, ScrollMoves
<1>4. CASE Enter(c, b) BY <1>1, <1>2, <1>4, EnterOpens
<1>5. CASE Idle(c) BY <1>5 DEF Idle, IndexMove, Stays
<1> QED BY <1>3, <1>4, <1>5 DEF MainMenu

LEMMA Level1Moves ==
  ASSUME IndexInv, NEW held, NEW c, NEW p, Level1(held, c, p)
  PROVE  IndexMove
<1> DEFINE b == Handled(held, <<"DOWN", "UP", "ENTER">>)
<1>1. level = 1 /\ low[1] \in Nat /\ low[1] < SETTINGS_SUBMENUS
  BY DEF Level1, IndexInv, IndexType, CursorInRange, Levels
<1>2. high[0] = 2 => \A i \in Nat : i < SETTINGS_SUBMENUS => IsEntry(i)
  BY <1>1 DEF IsEntry
<1>3. CASE Leave(c) BY <1>1, <1>3, LeaveLeaves
<1>4. CASE Manual(held, c) BY <1>4 DEF Manual, IndexMove, Stays
<1>5. CASE high[0] = 2 /\ Scroll(c, b, "DOWN", "UP", SETTINGS_SUBMENUS)
  BY <1>1, <1>2, <1>5, Sizes, ScrollMoves
<1>6. CASE high[0] = 2 /\ Enter(c, b) BY <1>1, <1>2, <1>6, EnterOpens
<1>7. CASE Idle(c) BY <1>7 DEF Idle, IndexMove, Stays
<1> QED BY <1>3, <1>4, <1>5, <1>6, <1>7 DEF Level1

LEMMA Level2Moves ==
  ASSUME IndexInv, NEW held, NEW c, NEW p, Level2(held, c, p)
  PROVE  IndexMove
<1> DEFINE slider == Handled(held, <<"RIGHT", "LEFT">>)
           b == Handled(held, <<"DOWN", "UP", "ENTER">>)
           n == IF high[1] = 1 THEN MPG_AXES_SETTINGS ELSE MPG_SPINDLE_SETTINGS
           selector == high[0] = 2 /\ high[1] \in {1, 2}
<1>1. level = 2 /\ low[2] \in Nat /\ n \in Nat \ {0}
  <2>1. level = 2 BY DEF Level2
  <2>2. low[2] \in Nat BY DEF IndexInv, IndexType, Levels
  <2>3. n \in Nat \ {0} BY Sizes
  <2> QED BY <2>1, <2>2, <2>3
<1>2. selector => low[2] < n
  BY <1>1 DEF IndexInv, CursorInRange
<1>3. selector => \A i \in Nat : i < n => IsEntry(i)
  BY <1>1 DEF IsEntry
<1>4. CASE Leave(c) BY <1>1, <1>4, LeaveLeaves
<1>5. CASE AdjustBrightness(c, slider)
  BY <1>5 DEF AdjustBrightness, IndexMove, Stays
<1>6. CASE selector /\ Scroll(c, b, "DOWN", "UP", n)
  <2> HIDE DEF n
  <2> QED BY <1>1, <1>2, <1>3, <1>6, ScrollMoves
<1>7. CASE selector /\ Enter(c, b) BY <1>1, <1>2, <1>3, <1>7, EnterOpens
<1>8. CASE Idle(c) BY <1>8 DEF Idle, IndexMove, Stays
<1> QED BY <1>4, <1>5, <1>6, <1>7, <1>8 DEF Level2

LEMMA Level3Moves ==
  ASSUME IndexInv, NEW held, NEW c, NEW p, Level3(held, c, p)
  PROVE  IndexMove
<1> DEFINE slider == Handled(held, <<"RIGHT", "LEFT">>)
           b == Handled(held, <<"DOWN", "UP", "RIGHT", "LEFT">>)
<1>1. level = 3 /\ low[3] \in Nat BY DEF Level3, IndexInv, IndexType, Levels
<1>2. low[1] = 1 => low[3] < DIST_SETTINGS BY <1>1 DEF IndexInv, CursorInRange
<1>3. CASE Leave(c) BY <1>1, <1>3, LeaveLeaves
<1>4. CASE low[1] = 1 /\ Scroll(c, b, "DOWN", "UP", DIST_SETTINGS)
  <2>1. \A i \in Nat : i < DIST_SETTINGS => IsEntry(i) BY <1>1, <1>4 DEF IsEntry
  <2> QED BY <1>1, <1>2, <1>4, <2>1, Sizes, ScrollMoves
<1>5. CASE AdjustPreset(c, b) BY <1>5 DEF AdjustPreset, IndexMove, Stays
<1>6. CASE AdjustSpindle(c, slider) BY <1>6 DEF AdjustSpindle, IndexMove, Stays
<1>7. CASE Idle(c) BY <1>7 DEF Idle, IndexMove, Stays
<1> QED BY <1>3, <1>4, <1>5, <1>6, <1>7 DEF Level3

LEMMA IndexNext == IndexInv /\ [Next]_vars => IndexInv'
<1> SUFFICES ASSUME IndexInv, [Next]_vars PROVE IndexMove BY IndexMoveInv
<1>1. CASE UNCHANGED vars BY <1>1 DEF vars, indexVars, IndexMove, Stays
<1>2. ASSUME NEW held \in Held, NEW p \in Points \cup {NoTouch}, Poll(held, p)
      PROVE  IndexMove
  BY <1>2, TouchOpens, Level0Moves, Level1Moves, Level2Moves, Level3Moves DEF Poll
<1> QED BY <1>1, <1>2 DEF Next

LEMMA IndexInit == Init => IndexInv
BY Sizes DEF Init, IndexInv, IndexType, PathConsistent, NamesInRange, CursorInRange, Levels

LEMMA AlwaysIndexInv == Spec => []IndexInv
BY IndexInit, IndexNext, PTL DEF Spec

\* The two bytes of an open menu's index are the same, and nothing is left
\* over of a closed one.
THEOREM PathIsConsistent == Spec => []PathConsistent
<1>1. IndexInv => PathConsistent BY DEF IndexInv
<1> QED BY <1>1, AlwaysIndexInv, PTL

\* What is drawn is taken from within its array.
THEOREM NamesAreInRange == Spec => []NamesInRange
<1>1. IndexInv => NamesInRange BY DEF IndexInv
<1> QED BY <1>1, AlwaysIndexInv, PTL

-----------------------------------------------------------------------------
(* The counters, whatever the menu.                                         *)

CountersInv ==
  button_delay_cnts \in [Buttons -> 0..(button_delay - 1)] /\ level \in Levels

Below(c) == c \in [Buttons -> 0..(button_delay - 1)]

\* A counter that has not acted has not reached the delay, for either of the
\* two comparisons.
LEMMA CountedBelow ==
  ASSUME NEW c, Below(c), NEW b
  PROVE  Below(Counted(c, b))
<1>1. button_delay \in Nat /\ button_delay >= 3
  BY DelayAssumption DEF DelayAssumption
<1>2. CASE b \in Buttons
  <2>1. c[b] \in 0..(button_delay - 1) BY <1>2 DEF Below
  <2>2. (IF Acts(c, b) THEN (IF c[b] = 0 THEN 2 ELSE 0) ELSE c[b] + 1)
          \in 0..(button_delay - 1)
    BY <1>1, <2>1 DEF Acts
  <2> QED BY <2>2 DEF Counted, Below
<1>3. CASE b \notin Buttons BY <1>3 DEF Counted, Below
<1> QED BY <1>2, <1>3

LEMMA ClearedBelow ==
  ASSUME CountersInv, NEW held
  PROVE  Below(Cleared(held))
<1>1. 0 \in 0..(button_delay - 1)
  BY DelayAssumption DEF DelayAssumption
<1> QED BY <1>1 DEF CountersInv, Below, Cleared

LEMMA PollBelow ==
  ASSUME CountersInv, NEW held, NEW p, Poll(held, p)
  PROVE  Below(button_delay_cnts)'
<1> DEFINE c == Cleared(held)
<1>1. Below(c) BY ClearedBelow
<1>2. \A b : Below(Counted(c, b)) BY <1>1, CountedBelow
<1>3. ASSUME NEW b, NEW forward, NEW back, NEW n, Scroll(c, b, forward, back, n)
      PROVE  Below(button_delay_cnts)'
  BY <1>2, <1>3 DEF Scroll, Below
<1>4. ASSUME NEW b, Enter(c, b) PROVE Below(button_delay_cnts)'
  BY <1>1, <1>4 DEF Enter, Below
<1>5. ASSUME Leave(c) \/ Idle(c) \/ TouchSelect(c, p) PROVE Below(button_delay_cnts)'
  BY <1>1, <1>5 DEF Leave, Idle, TouchSelect, Below
<1>6. ASSUME NEW b, AdjustPreset(c, b) \/ AdjustSpindle(c, b) \/ AdjustBrightness(c, b)
      PROVE  Below(button_delay_cnts)'
  BY <1>2, <1>6 DEF AdjustPreset, AdjustSpindle, AdjustBrightness, Below
<1>7. ASSUME Manual(held, c) PROVE Below(button_delay_cnts)'
  <2> DEFINE enter == IF "ENTER" \in held THEN Counted(c, "ENTER") ELSE c
  <2>1. Below(enter) BY <1>1, <1>2
  <2>2. \A b : Below(Counted(enter, b)) BY <2>1, CountedBelow
  <2>3. PICK b : button_delay_cnts' = IF b = "" THEN enter ELSE Counted(enter, b)
    BY <1>7 DEF Manual
  <2> QED BY <2>1, <2>2, <2>3 DEF Below
<1>8. CASE MainMenu(held, c) BY <1>3, <1>4, <1>5, <1>8 DEF MainMenu
<1>9. CASE Level1(held, c, p) BY <1>3, <1>4, <1>5, <1>7, <1>9 DEF Level1
<1>10. CASE Level2(held, c, p) BY <1>3, <1>4, <1>5, <1>6, <1>10 DEF Level2
<1>11. CASE Level3(held, c, p) BY <1>3, <1>4, <1>5, <1>6, <1>11 DEF Level3
<1> QED BY <1>5, <1>8, <1>9, <1>10, <1>11 DEF Poll

LEMMA CountersNext == IndexInv /\ CountersInv /\ [Next]_vars => CountersInv'
<1> SUFFICES ASSUME IndexInv, CountersInv, [Next]_vars PROVE CountersInv' OBVIOUS
<1>1. level' \in Levels BY IndexNext DEF IndexInv, IndexType
<1>2. Below(button_delay_cnts)'
  BY PollBelow DEF Next, vars, CountersInv, Below
<1> QED BY <1>1, <1>2 DEF CountersInv, Below

\* No counter is past the value that the main menu compares it with.
THEOREM CountersAreBelowDelay == Spec => []CountersBelowDelay
<1>1. Init => CountersInv
  BY DelayAssumption DEF Init, CountersInv, Levels, DelayAssumption
<1>2. CountersInv => CountersBelowDelay
  <2>1. \A n \in 0..(button_delay - 1) : n < button_delay
    BY DelayAssumption DEF DelayAssumption
  <2> QED BY <2>1 DEF CountersInv, CountersBelowDelay
<1> QED BY <1>1, <1>2, CountersNext, AlwaysIndexInv, PTL DEF Spec

-----------------------------------------------------------------------------
(* The presets.                                                             *)

\* Each preset stays between its default and the value set at its bound.
PresetsInv ==
  /\ presets \in Preset
  /\ \A a \in Axes : \A i \in Dists :
       Default[a][i] <= presets[a][i] /\ presets[a][i] <= Top[a][i]

LEMMA PresetFacts ==
  ASSUME NEW a \in Axes, NEW i \in Dists
  PROVE  /\ Default[a][i] \in Nat /\ Diff[a][i] \in Nat
         /\ Bound[a][i] \in Nat /\ Top[a][i] \in Nat
         /\ Default[a][i] <= Bound[a][i] /\ Bound[a][i] <= Top[a][i]
         /\ i + 1 \in Dists => Top[a][i] <= Default[a][i + 1]
BY PresetAssumption DEF PresetAssumption, Preset

\* A press of RIGHT or LEFT keeps the preset in its range.
LEMMA AdjustKeepsRange ==
  ASSUME PresetsInv, NEW a \in Axes, NEW i \in Dists, NEW v,
         v = Raised(a, i) \/ v = Lowered(a, i)
  PROVE  v \in Nat /\ Default[a][i] <= v /\ v <= Top[a][i]
<1>1. presets[a][i] \in Nat /\ Default[a][i] <= presets[a][i] /\ presets[a][i] <= Top[a][i]
  BY DEF PresetsInv, Preset
<1> QED BY <1>1, PresetFacts DEF Raised, Lowered

LEMMA AdjustInv ==
  ASSUME PresetsInv, NEW c, NEW b, AdjustPreset(c, b)
  PROVE  PresetsInv'
<1>1. CASE presets' = presets BY <1>1 DEF PresetsInv
<1>2. CASE presets' # presets
  <2>1. high[2] \in Axes /\ low[3] \in Dists BY <1>2 DEF AdjustPreset
  <2>2. PICK v : /\ presets' = [presets EXCEPT ![high[2]][low[3]] = v]
                 /\ v = Raised(high[2], low[3]) \/ v = Lowered(high[2], low[3])
    BY <1>2 DEF AdjustPreset
  <2>3. v \in Nat /\ Default[high[2]][low[3]] <= v /\ v <= Top[high[2]][low[3]]
    BY <2>1, <2>2, AdjustKeepsRange
  <2> QED BY <2>1, <2>2, <2>3 DEF PresetsInv, Preset
<1> QED BY <1>1, <1>2

LEMMA PresetsNext == PresetsInv /\ [Next]_vars => PresetsInv'
<1> SUFFICES ASSUME PresetsInv, [Next]_vars PROVE PresetsInv' OBVIOUS
<1>1. CASE presets' = presets BY <1>1 DEF PresetsInv
<1>2. CASE presets' # presets
  <2>1. PICK held \in Held, p \in Points \cup {NoTouch} : Poll(held, p)
    BY <1>2 DEF Next, vars, settingVars
  <2>2. Level3(held, Cleared(held), p)
    BY <1>2, <2>1 DEF Poll, TouchSelect, MainMenu, Level1, Level2, Scroll, Enter, Leave,
                      Idle, Manual, AdjustBrightness, settingVars
  <2>3. \E b : AdjustPreset(Cleared(held), b)
    BY <1>2, <2>2 DEF Level3, Scroll, Leave, Idle, AdjustSpindle, settingVars
  <2> QED BY <2>3, AdjustInv
<1> QED BY <1>1, <1>2

\* Precise, normal and coarse stay in this order.
THEOREM PresetsAreOrdered == Spec => []PresetsOrdered
<1>1. Init => PresetsInv
  BY PresetFacts, PresetAssumption DEF Init, PresetsInv, PresetAssumption
<1>2. PresetsInv => PresetsOrdered
  <2> SUFFICES ASSUME PresetsInv, NEW a \in Axes, NEW i \in Dists, i + 1 \in Dists
               PROVE  presets[a][i] <= presets[a][i + 1]
    BY DEF PresetsOrdered
  <2>1. presets[a][i] \in Nat /\ presets[a][i + 1] \in Nat BY DEF PresetsInv, Preset
  <2>2. presets[a][i] <= Top[a][i] /\ Default[a][i + 1] <= presets[a][i + 1]
    BY DEF PresetsInv
  <2> QED BY <2>1, <2>2, PresetFacts
<1> QED BY <1>1, <1>2, PresetsNext, PTL DEF Spec

-----------------------------------------------------------------------------
(* The other two settings and the types.                                    *)

SlidersInv ==
  /\ spindle_speed \in SPINDLE_SPEED_MIN..SPINDLE_SPEED_MAX
  /\ brightness_value \in MINIMUM_BRIGHTNESS..MAXIMUM_BRIGHTNESS

LEMMA ClampInRange ==
  ASSUME NEW min \in Nat, NEW max \in Nat, min <= max, NEW v \in Int
  PROVE  Clamp(v, min, max) \in min..max
BY DEF Clamp

LEMMA SpindleInv ==
  ASSUME SlidersInv, NEW c, NEW b, AdjustSpindle(c, b)
  PROVE  SlidersInv'
<1>1. /\ SPINDLE_SPEED_MIN \in Nat /\ SPINDLE_SPEED_MAX \in Nat
      /\ SPINDLE_SPEED_DIFF \in Nat /\ SPINDLE_SPEED_MIN <= SPINDLE_SPEED_MAX
  BY SpindleAssumption DEF SpindleAssumption
<1>2. spindle_speed \in Int BY <1>1 DEF SlidersInv
<1>3. \A v \in Int : Clamp(v, SPINDLE_SPEED_MIN, SPINDLE_SPEED_MAX)
                       \in SPINDLE_SPEED_MIN..SPINDLE_SPEED_MAX
  BY <1>1, ClampInRange
<1>4. /\ spindle_speed + SPINDLE_SPEED_DIFF \in Int
      /\ spindle_speed - SPINDLE_SPEED_DIFF \in Int
  BY <1>1, <1>2
<1> QED BY <1>3, <1>4 DEF AdjustSpindle, SlidersInv

LEMMA BrightnessInv ==
  ASSUME SlidersInv, NEW c, NEW b, AdjustBrightness(c, b)
  PROVE  SlidersInv'
<1>1. /\ MINIMUM_BRIGHTNESS \in Nat /\ MAXIMUM_BRIGHTNESS \in Nat
      /\ MINIMUM_BRIGHTNESS <= MAXIMUM_BRIGHTNESS
  BY BrightnessAssumption DEF BrightnessAssumption
<1>2. brightness_value \in Int BY <1>1 DEF SlidersInv
<1>3. \A v \in Int : Clamp(v, MINIMUM_BRIGHTNESS, MAXIMUM_BRIGHTNESS)
                       \in MINIMUM_BRIGHTNESS..MAXIMUM_BRIGHTNESS
  BY <1>1, ClampInRange
<1>4. brightness_value + 1 \in Int /\ brightness_value - 1 \in Int
  BY <1>2
<1> QED BY <1>3, <1>4 DEF AdjustBrightness, SlidersInv

LEMMA SlidersNext == SlidersInv /\ [Next]_vars => SlidersInv'
<1> SUFFICES ASSUME SlidersInv, [Next]_vars PROVE SlidersInv' OBVIOUS
<1>1. CASE UNCHANGED <<spindle_speed, brightness_value>> BY <1>1 DEF SlidersInv
<1>2. CASE ~UNCHANGED <<spindle_speed, brightness_value>>
  <2>1. PICK held \in Held, p \in Points \cup {NoTouch} : Poll(held, p)
    BY <1>2 DEF Next, vars, settingVars
  <2>2. \E b : \/ AdjustSpindle(Cleared(held), b)
               \/ AdjustBrightness(Cleared(held), b)
    BY <1>2, <2>1 DEF Poll, TouchSelect, MainMenu, Level1, Level2, Level3, Scroll, Enter,
                      Leave, Idle, Manual, AdjustPreset, settingVars
  <2> QED BY <2>2, SpindleInv, BrightnessInv
<1> QED BY <1>1, <1>2

LEMMA SlidersInit == Init => SlidersInv
<1>1. MAXIMUM_BRIGHTNESS \in MINIMUM_BRIGHTNESS..MAXIMUM_BRIGHTNESS
  BY BrightnessAssumption DEF BrightnessAssumption
<1> QED BY <1>1, SpindleAssumption DEF Init, SlidersInv, SpindleAssumption

\* The settings stay in their ranges and the indexes keep their types.
THEOREM TypeCorrect == Spec => []TypeOK
<1> DEFINE All == IndexInv /\ CountersInv /\ PresetsInv /\ SlidersInv
<1>1. Init => CountersInv
  BY DelayAssumption DEF Init, CountersInv, Levels, DelayAssumption
<1>2. Init => PresetsInv
  BY PresetFacts, PresetAssumption DEF Init, PresetsInv, PresetAssumption
<1>3. Init => SlidersInv BY SlidersInit
<1>4. Init => All BY <1>1, <1>2, <1>3, IndexInit
<1>5. All /\ [Next]_vars => All'
  BY IndexNext, CountersNext, PresetsNext, SlidersNext
<1>6. All => TypeOK
  <2>1. 0..(button_delay - 1) \subseteq Nat
    BY DelayAssumption DEF DelayAssumption
  <2>2. CountersInv => button_delay_cnts \in [Buttons -> Nat]
    BY <2>1 DEF CountersInv
  <2> QED BY <2>2 DEF IndexInv, IndexType, PresetsInv, SlidersInv, TypeOK
<1> HIDE DEF All
<1> QED BY <1>4, <1>5, <1>6, PTL DEF Spec

-----------------------------------------------------------------------------
(* The menu implements the tree of MenuTree.tla, with the entries selected   *)
(* at the open levels as its trail and the settings as its values.           *)

\* What the tree's operators come to under this mapping.
PointAt(i) == [k \in 1..(level + 1) |-> IF k = level + 1 THEN i ELSE low[k - 1]]

LEMMA TrailShape ==
  ASSUME IndexInv
  PROVE  /\ trail \in Seq(Nat) /\ Len(trail) = level + 1 /\ level \in 0..3
         /\ Tree!Cursor = low[level]
         /\ \A i : Tree!Point(i) = PointAt(i)
         /\ Tree!Path = [k \in 1..level |-> low[k - 1]]
<1>1. level \in 0..3 /\ low \in [0..3 -> Nat] BY DEF IndexInv, IndexType, Levels
<1>2. trail \in Seq(Nat) /\ Len(trail) = level + 1
  <2>1. \A k \in 1..(level + 1) : low[k - 1] \in Nat BY <1>1
  <2>2. trail \in [1..(level + 1) -> Nat] BY <2>1 DEF trail
  <2>3. level + 1 \in Nat BY <1>1
  <2> QED BY <2>2, <2>3 DEF trail
<1>3. Tree!Cursor = low[level] BY <1>1, <1>2 DEF Tree!Cursor, trail
<1>4. \A i : Tree!Point(i) = PointAt(i)
  BY <1>1, <1>2 DEF Tree!Point, PointAt, trail
<1>5. Tree!Path = [k \in 1..level |-> low[k - 1]]
  BY <1>1, <1>2 DEF Tree!Path, trail
<1> QED BY <1>1, <1>2, <1>3, <1>4, <1>5

\* The number of entries is the one the code goes round, and the menus that
\* ENTER and the touch screen open are those of the tree.
LEMMA EntriesShape ==
  ASSUME IndexInv
  PROVE  /\ level = 0 => Tree!Opens(Tree!Path) /\ Tree!Entries(Tree!Path) = SUBMENUS
         /\ level = 1 /\ high[0] = 2 =>
              Tree!Opens(Tree!Path) /\ Tree!Entries(Tree!Path) = SETTINGS_SUBMENUS
         /\ level = 2 /\ high[1] = 1 =>
              Tree!Opens(Tree!Path) /\ Tree!Entries(Tree!Path) = MPG_AXES_SETTINGS
         /\ level = 2 /\ high[1] = 2 =>
              Tree!Opens(Tree!Path) /\ Tree!Entries(Tree!Path) = MPG_SPINDLE_SETTINGS
         /\ level = 3 /\ low[1] = 1 => Tree!Entries(Tree!Path) = DIST_SETTINGS
<1> DEFINE path == Tree!Path
<1>1. path = [k \in 1..level |-> low[k - 1]] /\ level \in 0..3
  BY TrailShape
<1> HIDE DEF path
<1>2. ASSUME level = 0 PROVE path = <<>>
  BY <1>1, <1>2
<1>3. ASSUME level = 1 PROVE path = <<low[0]>>
  BY <1>1, <1>3
<1>4. ASSUME level = 2 PROVE path = <<low[0], low[1]>>
  BY <1>1, <1>4
<1>5. ASSUME level = 3 PROVE path = <<low[0], low[1], low[2]>>
  BY <1>1, <1>5
<1>6. /\ level = 1 => high[0] = low[0]
      /\ level = 2 => high[1] = low[1] /\ low[0] = 2
  BY DEF IndexInv, PathConsistent, NamesInRange, Levels
<1>7. CASE level = 0
  BY <1>2, <1>7 DEF Tree!Entries, Tree!Opens, path
<1>8. CASE level = 1 /\ high[0] = 2
  <2>1. path = <<2>> BY <1>3, <1>6, <1>8
  <2> QED BY <1>8, <2>1 DEF Tree!Entries, Tree!Opens, path
<1>9. CASE level = 2 /\ high[1] = 1
  <2>1. path = <<2, 1>> BY <1>4, <1>6, <1>9
  <2> QED BY <1>9, <2>1 DEF Tree!Entries, Tree!Opens, path
<1>10. CASE level = 2 /\ high[1] = 2
  <2>1. path = <<2, 2>> BY <1>4, <1>6, <1>10
  <2> QED BY <1>10, <2>1 DEF Tree!Entries, Tree!Opens, path
<1>11. CASE level = 3 /\ low[1] = 1
  <2>1. Len(path) = 3 /\ path[2] = 1 BY <1>5, <1>11
  <2> QED BY <1>11, <2>1 DEF Tree!Entries, path
<1> QED BY <1>7, <1>8, <1>9, <1>10, <1>11

LEMMA SameValues == UNCHANGED settingVars => UNCHANGED value
BY DEF settingVars, value, leaves

LEMMA RoundIsModular ==
  ASSUME NEW n \in Nat \ {0}, NEW i \in Nat, i < n
  PROVE  /\ Next_(i, n) = (i + 1) % n
         /\ Previous_(i, n) = (i + n - 1) % n
<1>1. Next_(i, n) = (i + 1) % n
  <2>1. CASE i + 1 = n
    <3>1. (i + 1) % n = 0 BY <2>1
    <3> QED BY <2>1, <3>1 DEF Next_
  <2>2. CASE i + 1 # n
    <3>1. i + 1 < n /\ i + 1 \in Nat BY <2>2
    <3>2. (i + 1) % n = i + 1 BY <3>1
    <3> QED BY <3>1, <3>2 DEF Next_
  <2> QED BY <2>1, <2>2
<1>2. CASE i = 0
  <2>1. (n - 1) % n = n - 1 OBVIOUS
  <2>2. i + n - 1 = n - 1 BY <1>2
  <2> QED BY <1>1, <1>2, <2>1, <2>2 DEF Previous_
<1>3. CASE i # 0
  <2>1. i - 1 \in Nat /\ i - 1 < n BY <1>3
  <2>2. (n + (i - 1)) % n = i - 1 BY <2>1
  <2>3. i + n - 1 = n + (i - 1) OBVIOUS
  <2> QED BY <1>1, <1>3, <2>1, <2>2, <2>3 DEF Previous_
<1> QED BY <1>2, <1>3

\* A cursor that moves.
LEMMA ScrollInTree ==
  ASSUME IndexInv, NEW c, NEW b, NEW forward, NEW back, NEW n \in Nat \ {0},
         low[level] < n, Tree!Entries(Tree!Path) = n,
         Scroll(c, b, forward, back, n)
  PROVE  [Tree!Next]_(Tree!vars)
<1>1. UNCHANGED value BY SameValues DEF Scroll
<1>2. CASE UNCHANGED indexVars
  BY <1>1, <1>2 DEF indexVars, trail, Tree!vars
<1>3. CASE ~UNCHANGED indexVars
  <2>1. low[level] \in Nat BY DEF IndexInv, IndexType
  <2>2. PICK i : /\ i = Next_(low[level], n) \/ i = Previous_(low[level], n)
                 /\ Select(level, i)
    BY <1>3 DEF Scroll
  <2>3. level' = level /\ low' = [low EXCEPT ![level] = i]
    BY <1>3, <2>2 DEF Select
  <2>4. trail' = PointAt(i)
    BY <2>3 DEF trail, PointAt, IndexInv, IndexType, Levels
  <2>5. i = (low[level] + 1) % n \/ i = (low[level] + n - 1) % n
    BY <2>1, <2>2, RoundIsModular
  <2>6. /\ Tree!Point((low[level] + 1) % n) = PointAt((low[level] + 1) % n)
        /\ Tree!Point((low[level] + n - 1) % n) = PointAt((low[level] + n - 1) % n)
        /\ Tree!Cursor = low[level]
    BY TrailShape
  <2>7. Tree!Move BY <1>1, <2>4, <2>5, <2>6 DEF Tree!Move
  <2> QED BY <2>7 DEF Tree!Next
<1> QED BY <1>2, <1>3

\* A menu that opens.
LEMMA OpenInTree ==
  ASSUME IndexInv, NEW i \in Nat, level < 3, Tree!Opens(Tree!Path),
         i < Tree!Entries(Tree!Path), Tree!Entries(Tree!Path) \in Nat,
         level' = level + 1, low' = [low EXCEPT ![level] = i], UNCHANGED settingVars
  PROVE  [Tree!Next]_(Tree!vars)
<1>1. UNCHANGED value BY SameValues
<1>2. level \in 0..2 /\ low \in [0..3 -> Nat] /\ low[level + 1] = 0
  BY DEF IndexInv, IndexType, Levels, PathConsistent
<1>3. trail' = [k \in 1..(level + 2) |-> IF k = level + 2 THEN 0 ELSE
                                         IF k = level + 1 THEN i ELSE low[k - 1]]
  BY <1>2 DEF trail
<1>4. PointAt(i) \in Seq(Nat) /\ Len(PointAt(i)) = level + 1
  <2>1. PointAt(i) \in [1..(level + 1) -> Nat] BY <1>2 DEF PointAt
  <2>2. level + 1 \in Nat BY <1>2
  <2>3. DOMAIN PointAt(i) = 1..(level + 1) BY DEF PointAt
  <2> QED BY <2>1, <2>2, <2>3
<1>5. Append(PointAt(i), 0) =
        [k \in 1..(level + 2) |-> IF k = level + 2 THEN 0 ELSE
                                  IF k = level + 1 THEN i ELSE low[k - 1]]
  BY <1>2, <1>4 DEF PointAt
<1>6. trail' = Append(Tree!Point(i), 0) BY <1>3, <1>5, TrailShape
<1>7. i \in 0..(Tree!Entries(Tree!Path) - 1) OBVIOUS
<1>8. Tree!Open BY <1>1, <1>6, <1>7 DEF Tree!Open
<1> QED BY <1>8 DEF Tree!Next

\* A menu that is left.
LEMMA LeaveInTree ==
  ASSUME IndexInv, level > 0, NEW c, Leave(c)
  PROVE  [Tree!Next]_(Tree!vars)
<1>1. UNCHANGED value BY SameValues DEF Leave
<1>2. level \in 1..3 /\ low \in [0..3 -> Nat] /\ level' = level - 1
      /\ low' = [low EXCEPT ![level] = 0]
  BY DEF IndexInv, IndexType, Levels, Leave
<1>3. trail' = [k \in 1..level |-> low[k - 1]] BY <1>2 DEF trail
<1>4. Len(trail) > 1 BY <1>2, TrailShape
<1>5. Tree!Back BY <1>1, <1>3, <1>4, TrailShape DEF Tree!Back
<1> QED BY <1>5 DEF Tree!Next

\* The settings as leaves of the tree.
LEMMA LeafValues ==
  /\ Tree!Leaves = leaves
  /\ <<2, 0, 0>> \in leaves /\ value[<<2, 0, 0>>] = brightness_value
  /\ range[<<2, 0, 0>>] = MINIMUM_BRIGHTNESS..MAXIMUM_BRIGHTNESS
  /\ \A a \in Axes, i \in Dists :
       /\ <<2, 1, a, i>> \in leaves /\ value[<<2, 1, a, i>>] = presets[a][i]
       /\ range[<<2, 1, a, i>>] = Default[a][i]..Top[a][i]
  /\ \A s \in 0..(MPG_SPINDLE_SETTINGS - 1) :
       /\ <<2, 2, s, 0>> \in leaves
       /\ value[<<2, 2, s, 0>>] = IF s = 0 THEN spindle_speed ELSE SPINDLE_SPEED_DEFAULT
       /\ range[<<2, 2, s, 0>>] = SPINDLE_SPEED_MIN..SPINDLE_SPEED_MAX
<1>1. Tree!Leaves = leaves BY DEF Tree!Leaves, leaves, Axes, Dists
<1>2. /\ <<2, 0, 0>> \in leaves
      /\ \A a \in Axes, i \in Dists : <<2, 1, a, i>> \in leaves
      /\ \A s \in 0..(MPG_SPINDLE_SETTINGS - 1) : <<2, 2, s, 0>> \in leaves
  BY DEF leaves
<1> HIDE DEF leaves
<1>3. value[<<2, 0, 0>>] = brightness_value
      /\ range[<<2, 0, 0>>] = MINIMUM_BRIGHTNESS..MAXIMUM_BRIGHTNESS
  BY <1>2 DEF value, range
<1>4. ASSUME NEW a \in Axes, NEW i \in Dists
      PROVE  /\ value[<<2, 1, a, i>>] = presets[a][i]
             /\ range[<<2, 1, a, i>>] = Default[a][i]..Top[a][i]
  BY <1>2 DEF value, range
<1>5. ASSUME NEW s \in 0..(MPG_SPINDLE_SETTINGS - 1)
      PROVE  /\ value[<<2, 2, s, 0>>] =
                  IF s = 0 THEN spindle_speed ELSE SPINDLE_SPEED_DEFAULT
             /\ range[<<2, 2, s, 0>>] = SPINDLE_SPEED_MIN..SPINDLE_SPEED_MAX
  BY <1>2 DEF value, range
<1> QED BY <1>1, <1>2, <1>3, <1>4, <1>5

\* The setting under the cursor changes and no other.
LEMMA AdjustsInTree ==
  ASSUME UNCHANGED trail, trail \in leaves, NEW v \in range[trail],
         \A t \in leaves : value'[t] = IF t = trail THEN v ELSE value[t]
  PROVE  Tree!Next
<1>1. value' = [value EXCEPT ![trail] = v]
  <2>1. value \in [leaves -> {value[t] : t \in leaves}] BY DEF value
  <2>2. value' \in [leaves -> {value'[t] : t \in leaves}] BY DEF value
  <2> QED BY <2>1, <2>2
<1>2. trail \in Tree!Leaves BY LeafValues
<1>3. Tree!Adjust BY <1>1, <1>2 DEF Tree!Adjust
<1> QED BY <1>3 DEF Tree!Next

LEMMA TrailTuple ==
  ASSUME IndexInv
  PROVE  /\ level = 2 => trail = <<low[0], low[1], low[2]>>
         /\ level = 3 => trail = <<low[0], low[1], low[2], low[3]>>
BY DEF trail, IndexInv, IndexType, Levels

LEMMA PresetInTree ==
  ASSUME IndexInv, PresetsInv, NEW c, NEW b, level = 3, low[1] = 1, AdjustPreset(c, b)
  PROVE  [Tree!Next]_(Tree!vars)
<1>1. UNCHANGED trail BY DEF AdjustPreset, indexVars, trail
<1>2. CASE presets' = presets
  <2>1. UNCHANGED value BY <1>2, SameValues DEF AdjustPreset, settingVars
  <2> QED BY <1>1, <2>1 DEF Tree!vars
<1>3. CASE presets' # presets
  <2> DEFINE a == high[2]
             i == low[3]
  <2>1. a \in Axes /\ i \in Dists BY <1>3 DEF AdjustPreset
  <2>2. PICK v : /\ presets' = [presets EXCEPT ![a][i] = v]
                 /\ v = Raised(a, i) \/ v = Lowered(a, i)
    BY <1>3 DEF AdjustPreset
  <2>3. trail = <<2, 1, a, i>>
    BY TrailTuple DEF IndexInv, PathConsistent, NamesInRange, Levels
  <2>4. v \in range[trail]
    <3>1. v \in Nat /\ Default[a][i] <= v /\ v <= Top[a][i]
      BY <2>1, <2>2, AdjustKeepsRange
    <3>2. v \in Default[a][i]..Top[a][i] BY <2>1, <3>1, PresetFacts
    <3> QED BY <2>1, <2>3, <3>2, LeafValues
  <2>5. ASSUME NEW t \in leaves
        PROVE  value'[t] = IF t = trail THEN v ELSE value[t]
    <3>1. CASE t = <<2, 0, 0>>
      <4>1. t # trail BY <2>3, <3>1
      <4> QED BY <3>1, <4>1, LeafValues DEF AdjustPreset, value, leaves
    <3>2. ASSUME NEW a1 \in Axes, NEW i1 \in Dists, t = <<2, 1, a1, i1>>
          PROVE  value'[t] = IF t = trail THEN v ELSE value[t]
      <4>1. t = trail <=> a1 = a /\ i1 = i BY <2>3, <3>2
      <4>2. presets'[a1][i1] = IF a1 = a /\ i1 = i THEN v ELSE presets[a1][i1]
        BY <2>1, <2>2 DEF PresetsInv, Preset
      <4>3. value'[t] = presets'[a1][i1] BY <3>2 DEF value, leaves
      <4>4. value[t] = presets[a1][i1] BY <3>2, LeafValues
      <4> QED BY <4>1, <4>2, <4>3, <4>4
    <3>3. ASSUME NEW s \in 0..(MPG_SPINDLE_SETTINGS - 1), t = <<2, 2, s, 0>>
          PROVE  value'[t] = IF t = trail THEN v ELSE value[t]
      <4>1. t # trail BY <2>3, <3>3
      <4>2. value'[t] = value[t] BY <3>3 DEF AdjustPreset, value, leaves
      <4> QED BY <4>1, <4>2
    <3> QED BY <3>1, <3>2, <3>3 DEF leaves
  <2>6. trail \in leaves BY <2>1, <2>3, LeafValues
  <2> HIDE DEF a, i
  <2> QED BY <1>1, <2>4, <2>5, <2>6, AdjustsInTree
<1> QED BY <1>2, <1>3

LEMMA SpindleInTree ==
  ASSUME IndexInv, SlidersInv, NEW c, NEW b, level = 3, low[1] = 2, AdjustSpindle(c, b)
  PROVE  [Tree!Next]_(Tree!vars)
<1>1. UNCHANGED trail BY DEF AdjustSpindle, indexVars, trail
<1>2. CASE UNCHANGED spindle_speed
  <2>1. UNCHANGED value BY <1>2, SameValues DEF AdjustSpindle, settingVars
  <2> QED BY <1>1, <2>1 DEF Tree!vars
<1>3. CASE ~UNCHANGED spindle_speed
  <2>1. trail = <<2, 2, 0, 0>>
    BY <1>3, TrailTuple
    DEF AdjustSpindle, IndexInv, PathConsistent, NamesInRange, CursorInRange, Levels
  <2>2. 0 \in 0..(MPG_SPINDLE_SETTINGS - 1) BY Sizes
  <2>3. spindle_speed' \in SPINDLE_SPEED_MIN..SPINDLE_SPEED_MAX
    BY SpindleInv DEF SlidersInv
  <2>4. spindle_speed' \in range[trail] /\ trail \in leaves
    BY <2>1, <2>2, <2>3, LeafValues
  <2>5. ASSUME NEW t \in leaves
        PROVE  value'[t] = IF t = trail THEN spindle_speed' ELSE value[t]
    <3>1. CASE t = <<2, 0, 0>> \/ \E a \in Axes, i \in Dists : t = <<2, 1, a, i>>
      <4>1. t # trail BY <2>1, <3>1
      <4>2. value'[t] = value[t] BY <3>1 DEF AdjustSpindle, value, leaves
      <4> QED BY <4>1, <4>2
    <3>2. ASSUME NEW s \in 0..(MPG_SPINDLE_SETTINGS - 1), t = <<2, 2, s, 0>>
          PROVE  value'[t] = IF t = trail THEN spindle_speed' ELSE value[t]
      <4>1. t = trail <=> s = 0 BY <2>1, <3>2
      <4>2. value'[t] = IF s = 0 THEN spindle_speed' ELSE SPINDLE_SPEED_DEFAULT
        BY <3>2 DEF value, leaves
      <4>3. value[t] = IF s = 0 THEN spindle_speed ELSE SPINDLE_SPEED_DEFAULT
        BY <3>2, LeafValues
      <4> QED BY <4>1, <4>2, <4>3
    <3> QED BY <3>1, <3>2 DEF leaves
  <2> QED BY <1>1, <2>4, <2>5, AdjustsInTree
<1> QED BY <1>2, <1>3

LEMMA BrightnessInTree ==
  ASSUME IndexInv, SlidersInv, NEW c, NEW b, level = 2, high[1] = 0,
         AdjustBrightness(c, b)
  PROVE  [Tree!Next]_(Tree!vars)
<1>1. UNCHANGED trail BY DEF AdjustBrightness, indexVars, trail
<1>2. trail = <<2, 0, 0>>
  BY TrailTuple DEF IndexInv, PathConsistent, NamesInRange, CursorInRange, Levels
<1>3. brightness_value' \in MINIMUM_BRIGHTNESS..MAXIMUM_BRIGHTNESS
  BY BrightnessInv DEF SlidersInv
<1>4. brightness_value' \in range[trail] /\ trail \in leaves
  BY <1>2, <1>3, LeafValues
<1>5. ASSUME NEW t \in leaves
      PROVE  value'[t] = IF t = trail THEN brightness_value' ELSE value[t]
  <2>1. CASE t = trail
    BY <1>2, <2>1 DEF value, leaves
  <2>2. CASE t # trail
    <3>1. \/ \E a \in Axes, i \in Dists : t = <<2, 1, a, i>>
          \/ \E s \in 0..(MPG_SPINDLE_SETTINGS - 1) : t = <<2, 2, s, 0>>
      BY <1>2, <2>2 DEF leaves
    <3>2. value'[t] = value[t] BY <3>1 DEF AdjustBrightness, value, leaves
    <3> QED BY <2>2, <3>2
  <2> QED BY <2>1, <2>2
<1> QED BY <1>1, <1>4, <1>5, AdjustsInTree

-----------------------------------------------------------------------------
(* Every poll is a step of the tree.                                        *)

LEMMA IdleInTree ==
  ASSUME UNCHANGED <<indexVars, settingVars>>
  PROVE  [Tree!Next]_(Tree!vars)
BY SameValues DEF indexVars, trail, Tree!vars

LEMMA TouchInTree ==
  ASSUME IndexInv, NEW c, NEW p, TouchSelect(c, p)
  PROVE  [Tree!Next]_(Tree!vars)
<1>1. PICK i \in Touched(p) : low' = [low EXCEPT ![level] = i]
  BY DEF TouchSelect
<1>2. i \in Nat /\ IsEntry(i) /\ level < 3 /\ (level = 0 \/ level = 1 \/ level = 2)
  BY Sizes DEF Touched, MainBlocks, SettingBlocks, AxesBlocks, SpindleBlocks, IsEntry
<1>3. /\ Tree!Opens(Tree!Path) /\ Tree!Entries(Tree!Path) \in Nat
      /\ i < Tree!Entries(Tree!Path)
  BY <1>2, EntriesShape, Sizes DEF IsEntry
<1> QED BY <1>1, <1>2, <1>3, OpenInTree DEF TouchSelect

LEMMA EnterInTree ==
  ASSUME IndexInv, NEW c, NEW b, level < 3, Tree!Opens(Tree!Path),
         low[level] < Tree!Entries(Tree!Path), Tree!Entries(Tree!Path) \in Nat,
         Enter(c, b)
  PROVE  [Tree!Next]_(Tree!vars)
<1>1. low[level] \in Nat /\ low' = [low EXCEPT ![level] = low[level]]
  BY DEF Enter, IndexInv, IndexType
<1> QED BY <1>1, OpenInTree DEF Enter

LEMMA Level0InTree ==
  ASSUME IndexInv, NEW held, NEW c, MainMenu(held, c)
  PROVE  [Tree!Next]_(Tree!vars)
<1> DEFINE b == Handled(held, <<"RIGHT", "LEFT", "ENTER">>)
<1>1. level = 0 /\ low[level] < SUBMENUS BY DEF MainMenu, IndexInv, CursorInRange
<1>2. /\ Tree!Opens(Tree!Path) /\ Tree!Entries(Tree!Path) = SUBMENUS
      /\ SUBMENUS \in Nat \ {0}
  BY <1>1, EntriesShape, Sizes
<1>3. CASE Scroll(c, b, "RIGHT", "LEFT", SUBMENUS)
  BY <1>1, <1>2, <1>3, ScrollInTree
<1>4. CASE Enter(c, b) BY <1>1, <1>2, <1>4, EnterInTree
<1>5. CASE Idle(c) BY <1>5, IdleInTree DEF Idle
<1> QED BY <1>3, <1>4, <1>5 DEF MainMenu

LEMMA Level1InTree ==
  ASSUME IndexInv, NEW held, NEW c, NEW p, Level1(held, c, p)
  PROVE  [Tree!Next]_(Tree!vars)
<1> DEFINE b == Handled(held, <<"DOWN", "UP", "ENTER">>)
<1>1. level = 1 /\ low[level] < SETTINGS_SUBMENUS
  BY DEF Level1, IndexInv, CursorInRange
<1>2. high[0] = 2 => /\ Tree!Opens(Tree!Path)
                     /\ Tree!Entries(Tree!Path) = SETTINGS_SUBMENUS
                     /\ SETTINGS_SUBMENUS \in Nat \ {0}
  BY <1>1, EntriesShape, Sizes
<1>3. CASE Leave(c) BY <1>1, <1>3, LeaveInTree
<1>4. CASE Manual(held, c) BY <1>4, IdleInTree DEF Manual
<1>5. CASE high[0] = 2 /\ Scroll(c, b, "DOWN", "UP", SETTINGS_SUBMENUS)
  BY <1>1, <1>2, <1>5, ScrollInTree
<1>6. CASE high[0] = 2 /\ Enter(c, b) BY <1>1, <1>2, <1>6, EnterInTree
<1>7. CASE Idle(c) BY <1>7, IdleInTree DEF Idle
<1> QED BY <1>3, <1>4, <1>5, <1>6, <1>7 DEF Level1

LEMMA Level2InTree ==
  ASSUME IndexInv, SlidersInv, NEW held, NEW c, NEW p, Level2(held, c, p)
  PROVE  [Tree!Next]_(Tree!vars)
<1> DEFINE slider == Handled(held, <<"RIGHT", "LEFT">>)
           b == Handled(held, <<"DOWN", "UP", "ENTER">>)
           n == IF high[1] = 1 THEN MPG_AXES_SETTINGS ELSE MPG_SPINDLE_SETTINGS
           selector == high[0] = 2 /\ high[1] \in {1, 2}
<1>1. level = 2 BY DEF Level2
<1>2. selector => /\ low[level] < n /\ n \in Nat \ {0}
                  /\ Tree!Opens(Tree!Path) /\ Tree!Entries(Tree!Path) = n
  BY <1>1, EntriesShape, Sizes DEF IndexInv, CursorInRange
<1>3. CASE Leave(c) BY <1>1, <1>3, LeaveInTree
<1>4. CASE high[1] = 0 /\ AdjustBrightness(c, slider)
  BY <1>1, <1>4, BrightnessInTree
<1>5. CASE selector /\ Scroll(c, b, "DOWN", "UP", n)
  <2> HIDE DEF n
  <2> QED BY <1>1, <1>2, <1>5, ScrollInTree
<1>6. CASE selector /\ Enter(c, b)
  <2>1. low[level] < Tree!Entries(Tree!Path) /\ Tree!Entries(Tree!Path) \in Nat
    BY <1>2, <1>6
  <2> QED BY <1>1, <1>2, <1>6, <2>1, EnterInTree
<1>7. CASE Idle(c) BY <1>7, IdleInTree DEF Idle
<1> QED BY <1>3, <1>4, <1>5, <1>6, <1>7 DEF Level2

LEMMA Level3InTree ==
  ASSUME IndexInv, PresetsInv, SlidersInv, NEW held, NEW c, NEW p, Level3(held, c, p)
  PROVE  [Tree!Next]_(Tree!vars)
<1> DEFINE slider == Handled(held, <<"RIGHT", "LEFT">>)
           b == Handled(held, <<"DOWN", "UP", "RIGHT", "LEFT">>)
<1>1. level = 3 BY DEF Level3
<1>2. low[1] = 1 => /\ low[level] < DIST_SETTINGS /\ DIST_SETTINGS \in Nat \ {0}
                    /\ Tree!Entries(Tree!Path) = DIST_SETTINGS
  BY <1>1, EntriesShape, Sizes DEF IndexInv, CursorInRange
<1>3. CASE Leave(c) BY <1>1, <1>3, LeaveInTree
<1>4. CASE low[1] = 1 /\ Scroll(c, b, "DOWN", "UP", DIST_SETTINGS)
  BY <1>1, <1>2, <1>4, ScrollInTree
<1>5. CASE low[1] = 1 /\ AdjustPreset(c, b) BY <1>1, <1>5, PresetInTree
<1>6. CASE low[1] = 2 /\ AdjustSpindle(c, slider) BY <1>1, <1>6, SpindleInTree
<1>7. CASE Idle(c) BY <1>7, IdleInTree DEF Idle
<1> QED BY <1>3, <1>4, <1>5, <1>6, <1>7 DEF Level3

LEMMA PollInTree ==
  ASSUME IndexInv, PresetsInv, SlidersInv, [Next]_vars
  PROVE  [Tree!Next]_(Tree!vars)
<1>1. CASE UNCHANGED vars BY <1>1, IdleInTree DEF vars
<1>2. ASSUME NEW held \in Held, NEW p \in Points \cup {NoTouch}, Poll(held, p)
      PROVE  [Tree!Next]_(Tree!vars)
  BY <1>2, TouchInTree, Level0InTree, Level1InTree, Level2InTree, Level3InTree DEF Poll
<1> QED BY <1>1, <1>2 DEF Next

LEMMA InitInTree ==
  ASSUME Init
  PROVE  Tree!Init
<1>1. trail = <<0>> BY DEF Init, trail, Levels
<1>2. presets \in Preset /\ presets = Default /\ spindle_speed = SPINDLE_SPEED_DEFAULT
      /\ brightness_value = MAXIMUM_BRIGHTNESS
  BY PresetAssumption DEF PresetAssumption, Init
<1>3. /\ SPINDLE_SPEED_DEFAULT \in SPINDLE_SPEED_MIN..SPINDLE_SPEED_MAX
      /\ SPINDLE_SPEED_DEFAULT \in Nat
      /\ MAXIMUM_BRIGHTNESS \in MINIMUM_BRIGHTNESS..MAXIMUM_BRIGHTNESS
      /\ MAXIMUM_BRIGHTNESS \in Nat
  BY SpindleAssumption, BrightnessAssumption
  DEF SpindleAssumption, BrightnessAssumption
<1>4. ASSUME NEW t \in leaves
      PROVE  value[t] \in Nat /\ value[t] \in range[t]
  <2>1. CASE t = <<2, 0, 0>> BY <1>2, <1>3, <2>1, LeafValues
  <2>2. ASSUME NEW a \in Axes, NEW i \in Dists, t = <<2, 1, a, i>>
        PROVE  value[t] \in Nat /\ value[t] \in range[t]
    <3>1. Default[a][i] \in Nat /\ Default[a][i] \in Default[a][i]..Top[a][i]
      BY PresetFacts
    <3> QED BY <1>2, <2>2, <3>1, LeafValues
  <2>3. ASSUME NEW s \in 0..(MPG_SPINDLE_SETTINGS - 1), t = <<2, 2, s, 0>>
        PROVE  value[t] \in Nat /\ value[t] \in range[t]
    BY <1>2, <1>3, <2>3, LeafValues
  <2> QED BY <2>1, <2>2, <2>3 DEF leaves
<1>5. value \in [leaves -> Nat]
  <2>1. value \in [leaves -> {value[t] : t \in leaves}] BY DEF value
  <2> QED BY <1>4, <2>1
<1> QED BY <1>1, <1>4, <1>5, LeafValues DEF Tree!Init

\* Whatever is pressed and touched, the menu is a tree in which one cursor
\* moves, and only the setting under the cursor changes, in its range.
THEOREM MenuIsTree == Spec => TreeSpec
<1> DEFINE Inv == IndexInv /\ PresetsInv /\ SlidersInv
<1>1. Init => Inv
  <2>1. Init => PresetsInv
    BY PresetFacts, PresetAssumption DEF Init, PresetsInv, PresetAssumption
  <2>2. Init => SlidersInv BY SlidersInit
  <2> QED BY <2>1, <2>2, IndexInit
<1>2. Inv /\ [Next]_vars => Inv' BY IndexNext, PresetsNext, SlidersNext
<1>3. Inv /\ [Next]_vars => [Tree!Next]_(Tree!vars) BY PollInTree
<1>4. Init => Tree!Init BY InitInTree
<1> HIDE DEF Inv
<1> QED BY <1>1, <1>2, <1>3, <1>4, PTL DEF Spec, TreeSpec, Tree!Spec
=============================================================================
