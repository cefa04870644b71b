------------------------------ MODULE MenuTree ------------------------------
(***************************************************************************)
(* What the control panel's menu promises: it is a tree in which one cursor *)
(* moves.  trail is the sequence of entries chosen from the main menu down, *)
(* its last element the cursor; value holds the settings, one for each leaf *)
(* of the tree.  Menu.tla shows that level and level_indexes implement it.  *)
(***************************************************************************)
EXTENDS Naturals, Sequences

CONSTANTS
  SUBMENUS, SETTINGS_SUBMENUS, MPG_AXES_SETTINGS, MPG_SPINDLE_SETTINGS,
  DIST_SETTINGS,     \* entries of each axes setting (X_AXIS_DIST_SETTINGS, ...)
  Range              \* Range[leaf]: the values the setting may have

VARIABLES trail, value

vars == <<trail, value>>

\* The menus that open others, with the number of their entries; every other
\* menu has one place for the cursor and nothing below it.
Entries(path) ==
  CASE path = <<>>     -> SUBMENUS
    [] path = <<2>>    -> SETTINGS_SUBMENUS
    [] path = <<2, 1>> -> MPG_AXES_SETTINGS
    [] path = <<2, 2>> -> MPG_SPINDLE_SETTINGS
    [] Len(path) = 3 /\ path[2] = 1 -> DIST_SETTINGS
    [] OTHER -> 1
Opens(path) == path \in {<<>>, <<2>>, <<2, 1>>, <<2, 2>>}

Leaves ==
  {<<2, 0, 0>>}
    \cup {<<2, 1, a, i>> : a \in 0..(MPG_AXES_SETTINGS - 1), i \in 0..(DIST_SETTINGS - 1)}
    \cup {<<2, 2, s, 0>> : s \in 0..(MPG_SPINDLE_SETTINGS - 1)}

Path   == SubSeq(trail, 1, Len(trail) - 1)
Cursor == trail[Len(trail)]
Point(i) == [trail EXCEPT ![Len(trail)] = i]

Init == trail = <<0>> /\ value \in [Leaves -> Nat]
          /\ \A leaf \in Leaves : value[leaf] \in Range[leaf]

\* The cursor goes round the entries of the menu.
Move ==
  /\ trail' \in {Point((Cursor + 1) % Entries(Path)),
                 Point((Cursor + Entries(Path) - 1) % Entries(Path))}
  /\ UNCHANGED value

\* A menu opens with its first entry selected, from the cursor or from the
\* touch screen.
Open ==
  /\ Opens(Path)
  /\ \E i \in 0..(Entries(Path) - 1) : trail' = Append(Point(i), 0)
  /\ UNCHANGED value

\* The menu above is shown again with the cursor where it was left.
Back == Len(trail) > 1 /\ trail' = Path /\ UNCHANGED value

\* Only the setting at the cursor changes, and it stays in its range.
Adjust ==
  /\ trail \in Leaves
  /\ \E v \in Range[trail] : value' = [value EXCEPT ![trail] = v]
  /\ UNCHANGED trail

Next == Move \/ Open \/ Back \/ Adjust

Spec == Init /\ [][Next]_vars
=============================================================================
