------------------------------ MODULE Commands ------------------------------
(***************************************************************************)
(* What the panel relies on when it switches the machine's MPG mode, as if  *)
(* it sent commands with a direction: one at a time, each obeyed or, when   *)
(* it was to enter, denied, and each answered with the mode the machine is  *)
(* in then.  The real command is a toggle that has no direction, and what   *)
(* keeps track of it are two flags, a queue and a pending report.           *)
(***************************************************************************)

VARIABLES
  mode,      \* the machine is in MPG mode
  known,     \* the panel takes it to be
  command,   \* the command underway: "enter", "leave" or "none"
  stage      \* how far it has come

vars == <<mode, known, command, stage>>

Init ==
  /\ mode = FALSE /\ known = FALSE
  /\ command = "none" /\ stage = "idle"

\* The panel commands what it does not have.
Command ==
  /\ stage = "idle" /\ stage' = "sent"
  /\ command' = IF known THEN "leave" ELSE "enter"
  /\ UNCHANGED <<mode, known>>

Receive ==
  /\ stage = "sent" /\ stage' = "received"
  /\ UNCHANGED <<mode, known, command>>

\* Leaving is always possible, entering may be denied.
Execute ==
  /\ stage = "received" /\ stage' = "executed"
  /\ \/ mode' = (command = "enter")
     \/ command = "enter" /\ UNCHANGED mode
  /\ UNCHANGED <<known, command>>

Answer ==
  /\ stage = "executed" /\ stage' = "answered"
  /\ UNCHANGED <<mode, known, command>>

Learn ==
  /\ stage = "answered" /\ stage' = "idle"
  /\ known' = mode /\ command' = "none"
  /\ UNCHANGED mode

Next == Command \/ Receive \/ Execute \/ Answer \/ Learn

Spec == Init /\ [][Next]_vars
=============================================================================
