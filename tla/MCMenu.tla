------------------------------- MODULE MCMenu -------------------------------
(***************************************************************************)
(* Values for the menu: two entries in each axes setting, a finer and a     *)
(* coarser one, with few steps each; the slow jog speed keeps its jump.     *)
(***************************************************************************)
EXTENDS Menu

MCDefault == [a \in Axes |-> [i \in Dists |-> IF i = 0 THEN 2 ELSE 6]]
MCDiff    == [a \in Axes |-> [i \in Dists |-> 1]]
MCBound   == [a \in Axes |-> [i \in Dists |-> IF i = 0 THEN 3 ELSE 6]]
MCTop     == [a \in Axes |-> [i \in Dists |-> IF i = 1 THEN 6 ELSE IF a = 2 THEN 6 ELSE 3]]

\* No button, each alone, and pairs that compete in a chain of else-ifs.
MCHeld ==
  {{}} \cup {{b} : b \in {"UP", "DOWN", "LEFT", "RIGHT", "ENTER", "BACK"}}
    \cup {{"RIGHT", "LEFT"}, {"DOWN", "RIGHT"}, {"ENTER", "DOWN"}, {"ENTER", "BACK"}}

\* The second block of the main menu; a point of the third that is also in
\* the corner for leaving; points in the blocks of the settings, in those of
\* the axes settings, in both, and in the block of the spindle.
MCPoints == {<<200, 50>>, <<430, 35>>, <<100, 65>>, <<100, 135>>, <<100, 105>>}
=============================================================================
