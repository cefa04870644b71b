----------------------------- MODULE MpgSystem -----------------------------
(***************************************************************************)
(* The MPG chain: pendant <-UART4- control panel -USART2-> machine.  Each   *)
(* component keeps its own actions and state; the arbitrary neighbours of   *)
(* the single modules are replaced by each other, and faults are actions    *)
(* with a budget.                                                           *)
(***************************************************************************)
EXTENDS Naturals, Sequences, FiniteSets

CONSTANTS
  DATA_REQUEST_CNT, CHECK_DATA_RECEIVED_CNT, REQUEST_TIMEOUT_CNT, MENU_TICKS,
  MaxFrames, None,
  button_delay_action_cnt, Modulus, MaxMoves, LockPositions,
  MaxTasks,
  Buttons,         \* the buttons the operator uses
  MaxTicks,        \* bound: TIM1 ticks during one pass of a main loop
  MaxEnters,       \* bound: presses of ENTER that act
  MaxLosses,       \* bound: frames lost on the pendant's cable
  MaxPowerCycles   \* bound: power cycles of the machine

AllButtons == {"auto", "back", "jog", "mpg"}

ASSUME ButtonsAssumption == Buttons \subseteq AllButtons
ASSUME TasksAssumption == MaxTasks \in Nat \ {0}
ASSUME FaultAssumption == {MaxTicks, MaxEnters, MaxLosses, MaxPowerCycles} \subseteq Nat

VARIABLES
  \* the control panel
  menu, menu_cnt, enter_menu, pc, entered_manual_mode,
  status, mpg_status, turn_off_mpg, request_answered, counter, comm_cnt,
  mpgMode, mpg_enable_ongoing, mpg_disable_ongoing,
  \* the wires
  uart4_tx, uart4_rx, uart2_tx, uart2_rx,
  \* the pendant
  pendant_status, pendant_mpg_status, mpg, encoder_val, CNT, locked,
  mpg_button, button_cnt, process_inputs_flag, pendant_pc, MPG_ON_LED, moves,
  \* the machine
  mpg_mode, tasks, report_due,
  \* ticks since the panel's and the pendant's main loop began this pass
  panel_ticks, pendant_ticks,
  polled,   \* a pass of process_inputs since it last received a request: none,
            \* "begun" or "done"; "repeat" when the next one does not wait for it
  \* presses of ENTER and faults so far
  enters, losses, powerCycles

panelOnly   == <<menu, menu_cnt, enter_menu, pc, entered_manual_mode, status,
                 mpg_status, turn_off_mpg, request_answered, counter, comm_cnt,
                 mpgMode, mpg_enable_ongoing, mpg_disable_ongoing>>
wireVars    == <<uart4_tx, uart4_rx, uart2_tx, uart2_rx>>
pendantOnly == <<pendant_status, pendant_mpg_status, mpg, encoder_val, CNT,
                 locked, mpg_button, button_cnt, process_inputs_flag,
                 pendant_pc, MPG_ON_LED, moves>>
machineOnly == <<mpg_mode, tasks, report_due>>
timeVars    == <<panel_ticks, pendant_ticks, polled>>
budgetVars  == <<enters, losses, powerCycles>>

Pn == INSTANCE Panel WITH Counts <- 0..(Modulus - 1)
Pd == INSTANCE Pendant WITH pc <- pendant_pc,
                            requests <- uart4_tx, answers <- uart4_rx
Mc == INSTANCE Machine WITH packets <- uart2_tx, reports <- uart2_rx

\* What the single modules assume of these constants, and TLC checks there.
ASSUME FrameAssumption ==
  /\ DATA_REQUEST_CNT \in Nat
  /\ Modulus \in Nat \ {0}
  /\ None \notin Pn!Request \cup Pn!Answer

vars == <<panelOnly, wireVars, pendantOnly, machineOnly, timeVars, budgetVars>>

TypeOK ==
  /\ Pn!TypeOK /\ Pd!TypeOK /\ Mc!TypeOK
  /\ panel_ticks \in 0..MaxTicks
  /\ pendant_ticks \in 0..MaxTicks
  /\ polled \in {"none", "begun", "done", "repeat"}
  /\ enters \in 0..MaxEnters
  /\ losses \in 0..MaxLosses
  /\ powerCycles \in 0..MaxPowerCycles

Init ==
  /\ Pn!Init /\ Pd!Init /\ Mc!Init
  /\ panel_ticks = 0 /\ pendant_ticks = 0 /\ polled = "done"
  /\ enters = 0 /\ losses = 0 /\ powerCycles = 0

\* A round trip on the pendant's cable takes less than three milliseconds of
\* the ten between two ticks, and the callback runs before the next of them.
RoundTripDone == uart4_tx = None /\ uart4_rx = None

\* One pass of a main loop, transmissions included, takes a few milliseconds.
TickDuring(busy, ticks) ==
  IF busy THEN ticks < MaxTicks /\ ticks' = ticks + 1 ELSE UNCHANGED ticks

\* A request cycle takes 100 ms and the pendant polls its inputs every 50, but
\* an answer during the turn-off procedure, the one that ends it included,
\* has the request repeated at the next tick.
PacedRequest ==
  uart4_tx' # None /\ pendant_status => polled \in {"done", "repeat"}

PaceAfterAnswer ==
  polled' = IF turn_off_mpg /\ Pn!Expected THEN "repeat" ELSE polled

PanelTick ==
  /\ RoundTripDone
  /\ TickDuring(pc # "idle", panel_ticks)
  /\ TickDuring(pendant_pc # "loop", pendant_ticks)
  /\ Pn!TIM1_UP_IRQHandler
  /\ PacedRequest /\ UNCHANGED polled
  /\ UNCHANGED <<pendantOnly, machineOnly, budgetVars>>

PanelCallback ==
  /\ \/ Pn!PendantAnswer /\ PaceAfterAnswer
     \/ Pn!MachineReport /\ UNCHANGED polled
  /\ UNCHANGED <<pendantOnly, machineOnly, panel_ticks, pendant_ticks,
                 budgetVars>>

PanelMain ==
  /\ \/ Pn!PollMain /\ (menu' = "Auto" => "auto" \in Buttons)
     \/ Pn!PollAuto
     \/ "back"  \in Buttons /\ Pn!PollBack
     \/ Pn!PollManual(FALSE)
     \/ Pn!MainStep /\ (pc' = "jogBusy" => "jog" \in Buttons)
  /\ panel_ticks' = IF pc' = "idle" THEN 0 ELSE panel_ticks
  /\ UNCHANGED <<pendantOnly, machineOnly, pendant_ticks, polled,
                 budgetVars>>

PanelEnter ==
  /\ enters < MaxEnters /\ enters' = enters + 1
  /\ Pn!PollManual(TRUE)
  /\ UNCHANGED <<pendantOnly, machineOnly, timeVars, losses, powerCycles>>

PendantInterrupt ==
  /\ \/ /\ pendant_pc = "loop" /\ Pd!TIM4_IRQHandler
        /\ mpg_button' = "pressed" => "mpg" \in Buttons
     \/ Pd!Turn
     \/ Pd!ReceiveRequest
  /\ polled' = IF uart4_tx' # uart4_tx THEN "none" ELSE polled
  /\ UNCHANGED <<panelOnly, uart2_tx, uart2_rx, machineOnly, panel_ticks,
                 pendant_ticks, budgetVars>>

PendantMain ==
  /\ Pd!MainStep
  /\ pendant_ticks' = IF pendant_pc' = "loop" THEN 0 ELSE pendant_ticks
  /\ polled' = CASE pendant_pc = "loop" /\ polled = "none"   -> "begun"
                 [] pendant_pc' = "loop" /\ polled = "begun" -> "done"
                 [] OTHER -> polled
  /\ UNCHANGED <<panelOnly, uart2_tx, uart2_rx, machineOnly, panel_ticks,
                 budgetVars>>

\* HAL_UART_Transmit returns with the last bit of a packet, and the machine
\* acts on a packet that is complete.
MachineStep ==
  /\ \/ ~Pn!Uart2Busy /\ Mc!ReceivePacket
     \/ Mc!ExecuteTask
     \/ Mc!Report
  /\ UNCHANGED <<panelOnly, uart4_tx, uart4_rx, pendantOnly, timeVars,
                 budgetVars>>

-----------------------------------------------------------------------------
(* Faults.                                                                  *)

\* A frame of either direction does not arrive.
LoseFrame ==
  /\ losses < MaxLosses /\ losses' = losses + 1
  /\ \/ uart4_tx # None /\ uart4_tx' = None /\ UNCHANGED uart4_rx
     \/ uart4_rx # None /\ uart4_rx' = None /\ UNCHANGED uart4_tx
  /\ UNCHANGED <<panelOnly, uart2_tx, uart2_rx, pendantOnly,
                 machineOnly, timeVars, enters, powerCycles>>

MachinePowerCycle ==
  /\ powerCycles < MaxPowerCycles /\ powerCycles' = powerCycles + 1
  /\ Mc!PowerCycle
  /\ UNCHANGED <<panelOnly, uart4_tx, uart4_rx, pendantOnly, timeVars,
                 enters, losses>>

Next ==
  \/ PanelTick \/ PanelCallback \/ PanelMain \/ PanelEnter
  \/ PendantInterrupt \/ PendantMain \/ MachineStep
  \/ LoseFrame \/ MachinePowerCycle

Spec == Init /\ [][Next]_vars

\* Every actor gets its turn: the timers tick, interrupts are served and both
\* main loops run.
Fairness ==
  /\ WF_vars(PendantMain)
  /\ WF_vars(PanelTick)
  /\ WF_vars(PendantInterrupt /\ Pd!TIM4_IRQHandler)
  /\ WF_vars(PanelMain)
  /\ WF_vars(PendantInterrupt /\ Pd!ReceiveRequest)
  /\ WF_vars(PanelCallback /\ Pn!PendantAnswer)
  /\ WF_vars(PanelCallback /\ Pn!MachineReport)
  /\ WF_vars(MachineStep /\ Mc!ReceivePacket)
  /\ WF_vars(MachineStep /\ Mc!ExecuteTask)
  /\ WF_vars(MachineStep /\ Mc!Report)

FairSpec == Spec /\ Fairness

-----------------------------------------------------------------------------
(* Properties.                                                              *)

\* The places of the toggles among the packets on the wire; the toggles sent
\* and not yet executed; the machine has nothing left to tell.
Toggles(packets) == {i \in DOMAIN packets : packets[i] = "toggle"}
TogglesUnderway == Cardinality(Toggles(uart2_tx)) + Len(tasks)
MachineQuiet == TogglesUnderway = 0 /\ ~report_due /\ uart2_rx = <<>>

\* A machine that loses its power forgets its mode and the toggles it was to
\* answer, and tells the panel nothing.
PowerKept == powerCycles = 0

\* The panel's mpgMode, which it learns from reports only, is the machine's
\* mode whenever no toggle and no report is on its way: no interleaving of
\* toggles, denials and reports leaves it wrong for good.
ModesAgree == PowerKept /\ MachineQuiet => mpgMode = mpg_mode

\* Unless another report is due, the last report on its way tells the mode the
\* machine is in, denied toggles and toggles sent in a row included.
LastReportCurrent == PowerKept => Mc!LastReportCurrent

\* The toggle command has no direction, so a second one underway undoes the
\* first.  enable_mpg and disable_mpg are called from the main loop and from
\* the callback, and guard against it by a flag ("Check if MPG is already
\* enabled", sender.c).
OneToggle == TogglesUnderway <= 1

\* Where the toggle underway is, and which way it is meant to switch.  Commands
\* names what these two stand for.
stage ==
  IF Toggles(uart2_tx) # {} THEN "sent"
  ELSE IF tasks # <<>>      THEN "received"
  ELSE IF report_due        THEN "executed"
  ELSE IF uart2_rx # <<>>   THEN "answered"
                            ELSE "idle"

command ==
  IF stage = "idle" THEN "none"
  ELSE IF mpg_disable_ongoing THEN "leave" ELSE "enter"

Cm == INSTANCE Commands WITH mode <- mpg_mode, known <- mpgMode

\* Toggles without direction, that the machine may read late or deny, and that
\* the main loop and the callback send guarded by flags only, do what commands
\* with a direction would do, one at a time: a leave leaves, an enter enters
\* or is denied, each is answered once, and then the panel knows the mode.
CommandSpec == Cm!Spec

\* Each board in the system is the board of its own module: what the others and
\* the cables do to it is among what its module lets an arbitrary neighbour do.
\* For the panel that is answers with a request, after it or never, and a
\* machine that loses the packets with its power;
PanelConforms == Pn!Spec

\* for the pendant, requests that are rewritten by the panel's main loop while
\* they are being sent, or lost, and answers lost;
PendantConforms == Pd!Spec

\* for a machine that keeps its power, packets and reports taken, of two
\* contexts of the panel.
MachineConforms == Mc!Spec

\* mpg_enable_ongoing and mpg_disable_ongoing each promise that an answer of
\* the machine is still to come and will clear them; set without one they
\* bar every later attempt.  ("Call a function that sends a message via UART
\* for entering GRBL into MPG mode", mpg_movement.c, and the like.)
EnableMeansUnderway  == PowerKept /\ mpg_enable_ongoing  => ~MachineQuiet
DisableMeansUnderway == PowerKept /\ mpg_disable_ongoing => ~MachineQuiet

\* The panel never tries to enter and to leave MPG mode at the same time.
OneDirection == ~(mpg_enable_ongoing /\ mpg_disable_ongoing)

\* The panel does not lose sight of a machine that obeys it: a machine in MPG
\* mode is known to be, as soon as it has nothing left to tell, power cycles
\* or not.
MpgModeSeen == MachineQuiet /\ mpg_mode => mpgMode

\* While the panel is disabling MPG mode the machine does not enter it ("Send
\* command to disable MPG mode", sender.c).
DisableNeverEnables ==
  [][mpg_disable_ongoing /\ ~mpg_mode => ~mpg_mode']_vars

\* A jog, spindle or coolant packet reaches a machine that takes it for that;
\* out of MPG mode its bytes are keycodes ("When GRBL MPG mode is on run the
\* following code", r61529_screen_menu.c).
ActionsHeard == uart2_tx # <<>> /\ Head(uart2_tx) = "action" => mpg_mode

\* A pendant that shows its MPG as enabled holds it, and the machine is in
\* MPG mode: the grant has gone all the way through panel and machine.
EnabledMeansGranted ==
  pendant_mpg_status = "ENABLED" => mpg /\ mpg_mode

\* A pendant starts every grant from position zero, so that turns of the
\* handwheel made before it do not move an axis.
FreshGrant == [][~mpg /\ mpg' => encoder_val = 0]_vars

\* Out of manual mode, with nothing on the wire, the pendant is asleep ("Put
\* MPG pendant in sleep mode", r61529_screen_menu.c).
PendantAsleep == menu = "Main" /\ pc = "idle" /\ RoundTripDone => ~pendant_status

\* A pendant that is switched off has its MPG functionality off ("Turn off
\* system MPG functionality", stm32f1xx_it.c).
OffDisables ==
  ~pendant_status /\ pendant_pc = "loop" => pendant_mpg_status = "DISABLED"

\* An attempt to enter MPG mode comes to an end, granted or denied.
EnableAnswered == mpg_enable_ongoing ~> ~mpg_enable_ongoing

\* A press of the MPG button is taken up by the panel or taken back, in spite
\* of lost frames.
AskTaken ==
  pendant_mpg_status = "ENABLE_ONGOING" ~>
    mpg \/ pendant_mpg_status = "DISABLED"

\* The procedure for turning off the pendant's MPG comes to an end
\* ("Initiate procedure for turning off pendant MPG functionality",
\* r61529_screen_menu.c).
TurnOffEnds == turn_off_mpg ~> ~turn_off_mpg
=============================================================================
