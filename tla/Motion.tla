------------------------------- MODULE Motion -------------------------------
(***************************************************************************)
(* The MPG chain of MpgSystem.tla with the movement it is there for: the    *)
(* panel keeps the encoder value of the last answer and commands the        *)
(* difference to the next one.  The two encoders are treated alike and one  *)
(* of them is modelled.                                                     *)
(*                                                                          *)
(* The panel, the pendant and the machine step as they do in MpgSystem; an  *)
(* answer that the panel processes also moves the variables of this module. *)
(***************************************************************************)
EXTENDS MpgSystem, Integers

CONSTANT Near   \* 300: differences below it are taken as they are

ASSUME NearAssumption == Near \in Nat /\ 0 < Near /\ 2 * Near <= Modulus

VARIABLES
  data,   \* the encoder value kept by process_pendant_data_to_action
  seen,   \* the position the panel processed last under the pendant's present
          \* grant, zero when there is none
  jog     \* an answer just processed: the distance commanded, the distance
          \* turned, whether the packet was refused, whether the position jumped

motionVars == <<vars, data, seen, jog>>

NoJog == [moved |-> 0, turned |-> 0, refused |-> FALSE, jumped |-> FALSE]

MotionInit == Init /\ data = 0 /\ seen = 0 /\ jog = NoJog

\* A value of the width of the counter, read as signed (int16_t).
Signed(n) == LET m == n % Modulus IN IF 2 * m < Modulus THEN m ELSE m - Modulus

Apart(a, b) == IF a > b THEN a - b ELSE b - a

\* Seeded bug: a difference below Near is taken from the wrong end.
EncoderDiff_Bug(current, previous) ==
  IF Apart(current, previous) < Near THEN Apart(current, previous)
  ELSE Signed(-((Modulus - 1 - current) + previous))

\* encoder1_val_diff, an int16_t; Modulus - 1 is the code's 0xFFFF.
EncoderDiff(current, previous) ==
  IF Apart(current, previous) < Near THEN current - previous
  ELSE IF current > previous
       THEN Signed(-((Modulus - 1 - current) + previous))
       ELSE Signed(-((Modulus - 1 - previous) + current))

\* The panel disregards the position of a pendant that has no grant or asks
\* for one.
Disregarded == ~uart4_rx.mpg \/ (~mpgMode /\ ~mpg_enable_ongoing)

\* Seeded bug: the position of a disregarded answer is kept.
Kept_Bug == uart4_rx.encoder

Kept == IF Disregarded THEN 0 ELSE uart4_rx.encoder

\* The packet of an answer processed under the grant: none for a difference
\* of zero, and lost when the main loop holds the UART.
Command(diff) ==
  /\ mpg_status' = "ENABLED" /\ status
  /\ diff # 0 => Pn!Uart2Busy \/ uart2_tx' # uart2_tx
  /\ jog' = [moved   |-> IF Pn!Uart2Busy THEN 0 ELSE diff,
             turned  |-> Signed(uart4_rx.encoder - seen),
             refused |-> Pn!Uart2Busy,
             jumped  |-> Apart(uart4_rx.encoder, seen) >= Near]

Follow ==
  /\ \/ Command(IF Disregarded THEN 0 ELSE EncoderDiff(uart4_rx.encoder, data))
     \/ ~(mpg_status' = "ENABLED" /\ status) /\ jog' = NoJog
  /\ data' = Kept
  /\ seen' = Kept

\* An answer that is not processed, during a turn-off or out of manual mode.
Pass == jog' = NoJog /\ UNCHANGED <<data, seen>>

TakeAnswer ==
  /\ Pn!PendantAnswer
  /\ IF Pn!Expected /\ ~turn_off_mpg THEN Follow ELSE Pass
  /\ PaceAfterAnswer
  /\ UNCHANGED <<pendantOnly, machineOnly, panel_ticks, pendant_ticks,
                 budgetVars>>

\* A pendant that loses its grant starts the next one from zero.
Rest ==
  /\ \/ PanelTick \/ (PanelCallback /\ Pn!MachineReport) \/ PanelMain
     \/ PanelEnter \/ PendantInterrupt \/ PendantMain \/ MachineStep
     \/ LoseFrame \/ MachinePowerCycle
  /\ seen' = IF mpg' THEN seen ELSE 0
  /\ jog' = NoJog /\ UNCHANGED data

MotionNext == TakeAnswer \/ Rest

MotionSpec == MotionInit /\ [][MotionNext]_motionVars

-----------------------------------------------------------------------------
(* Properties.                                                              *)

\* Whatever was granted, withdrawn, asked for again or refused before, an
\* answer moves the axis exactly as far and in the direction the handwheel
\* was turned since the answer before it, or not at all when the packet is
\* refused: the position kept in data is never one of an earlier grant.  Only
\* a counter that crosses zero, or is Near or more away, is beyond it.
MovesLikeWheel ==
  ~jog.jumped => jog.moved = (IF jog.refused THEN 0 ELSE jog.turned)

\* The axis never moves against the handwheel ("Call function that translates
\* the received pendant data into the according actions", mpg_movement.c).
RightWay == jog.moved * jog.turned >= 0

\* The axis does not move while the handwheel rests.
RestsWithWheel == jog.turned = 0 => jog.moved = 0
=============================================================================
