------------------------------- MODULE Panel -------------------------------
(***************************************************************************)
(* The control panel (STM32H750) as far as it owns the MPG pendant: the    *)
(* TIM1 request cycle, the UART4 and USART2 reception callbacks, and the    *)
(* main loop of the manual-mode menu with its calls to enable_mpg and       *)
(* disable_mpg.                                                             *)
(*                                                                          *)
(* Interrupt handlers run to completion with respect to the main loop, so   *)
(* each is one action; the main loop is split, by pc, wherever an           *)
(* interrupt can fall between two of its accesses to shared data.  The      *)
(* environment (pendant and machine) is arbitrary here: Env sends every     *)
(* answer and every report at any time.  MpgSystem replaces it.             *)
(***************************************************************************)
EXTENDS Naturals, Sequences

CONSTANTS
  DATA_REQUEST_CNT,         \* tick of the cycle at which data is requested
  CHECK_DATA_RECEIVED_CNT,  \* tick from which the answer is checked
  REQUEST_TIMEOUT_CNT,      \* checks without an answer before a new cycle
  MENU_TICKS,               \* ENTER_MENU_DELAY_TIME / TIM1_DELAY
  MaxFrames,                \* bound: packets or reports on the machine's UART
  Counts,                   \* values of the encoder field of an answer
  None                      \* no frame on the pendant's UART

ASSUME CycleAssumption ==
  /\ DATA_REQUEST_CNT \in Nat \ {0}
  /\ CHECK_DATA_RECEIVED_CNT \in Nat
  /\ CHECK_DATA_RECEIVED_CNT > DATA_REQUEST_CNT
  /\ REQUEST_TIMEOUT_CNT \in Nat \ {0}
  /\ MENU_TICKS \in Nat
  /\ MaxFrames \in Nat \ {0}

VARIABLES
  menu,                 \* the sub-menu shown, "Main" at level 0
  menu_cnt, enter_menu, \* pacing of the menu by TIM1
  pc,                   \* where the main loop is inside r61529_screen_menu
  entered_manual_mode,
  status, mpg_status, turn_off_mpg, request_answered,
  counter, comm_cnt,    \* the rest of pendant_control
  mpgMode, mpg_enable_ongoing, mpg_disable_ongoing, \* of grbl_data
  uart4_tx,             \* the request the UART4 DMA is sending, or None
  uart4_rx,             \* the pendant's answer, or None
  uart2_tx,             \* packets on their way to the machine
  uart2_rx              \* MPG fields of the reports on their way back

mainVars    == <<menu, pc>>
tickVars    == <<menu_cnt, enter_menu>>
controlVars == <<entered_manual_mode, status, turn_off_mpg>>
cycleVars   == <<request_answered, counter, comm_cnt>>
modeVars    == <<mpgMode, mpg_enable_ongoing, mpg_disable_ongoing>>
vars == <<mainVars, tickVars, controlVars, mpg_status, cycleVars, modeVars,
          uart4_tx, uart4_rx, uart2_tx, uart2_rx>>

MpgStatus == {"DISABLED", "ENABLED", "ENABLE_ONGOING"}
Submenus  == {"Auto", "Manual"}          \* "Settings" behaves as "Auto" here
Request   == [status : BOOLEAN, mpg : MpgStatus]
Answer    == [mpg : BOOLEAN, encoder : Counts]
Packets   == {"toggle", "action"}  \* CMD_MPG_MODE_TOGGLE; jog, spindle, ...

\* The main loop is inside HAL_UART_Transmit on huart2.
Transmitting == {"enBusy", "disBusy", "exitBusy", "reportBusy", "jogBusy"}
Uart2Busy == pc \in Transmitting

ASSUME NoneAssumption == None \notin Request \cup Answer

TypeOK ==
  /\ menu \in Submenus \cup {"Main"}
  /\ menu_cnt \in 0..MENU_TICKS
  /\ enter_menu \in BOOLEAN
  /\ pc \in {"idle", "enCheck", "enSet", "disCheck", "disSet", "turnOff",
             "exitCheck", "exitSet", "exit", "actions", "buttons"}
              \cup Transmitting
  /\ entered_manual_mode \in BOOLEAN
  /\ status \in BOOLEAN
  /\ mpg_status \in MpgStatus
  /\ turn_off_mpg \in BOOLEAN
  /\ request_answered \in BOOLEAN
  /\ counter \in Nat
  /\ comm_cnt \in Nat
  /\ mpgMode \in BOOLEAN
  /\ mpg_enable_ongoing \in BOOLEAN
  /\ mpg_disable_ongoing \in BOOLEAN
  /\ uart4_tx \in Request \cup {None}
  /\ uart4_rx \in Answer \cup {None}
  /\ uart2_tx \in Seq(Packets)
  /\ uart2_rx \in Seq(BOOLEAN)

Init ==
  /\ menu = "Main" /\ menu_cnt = 0 /\ enter_menu = FALSE /\ pc = "idle"
  /\ entered_manual_mode = FALSE
  /\ status = FALSE /\ mpg_status = "DISABLED" /\ turn_off_mpg = FALSE
  /\ request_answered = FALSE /\ counter = 0 /\ comm_cnt = 0
  /\ mpgMode = FALSE
  /\ mpg_enable_ongoing = FALSE /\ mpg_disable_ongoing = FALSE
  /\ uart4_tx = None /\ uart4_rx = None
  /\ uart2_tx = <<>> /\ uart2_rx = <<>>

-----------------------------------------------------------------------------
(* UART4: a request to the pendant.                                         *)

\* What the wire carries when request_body is rewritten by new while the DMA
\* still reads old from it: the status digit precedes the mpg_status digit.
Overwritten(old, new) ==
  {old, new, [status |-> old.status, mpg |-> new.mpg]}

\* request_pendant_data: HAL_UART_Transmit_DMA refuses while a transfer is
\* under way, but the buffer has been rewritten by then.
request_pendant_data(new) ==
  IF uart4_tx = None THEN uart4_tx' = new
                     ELSE uart4_tx' \in Overwritten(uart4_tx, new)

(* USART2: a packet to the machine, refused with HAL_BUSY inside the main   *)
(* loop's own transmission.                                                 *)
Room == Len(uart2_tx) < MaxFrames
MainTransmit(packet) == Room /\ uart2_tx' = Append(uart2_tx, packet)
HandlerTransmit(packet) ==
  IF Uart2Busy THEN UNCHANGED uart2_tx ELSE MainTransmit(packet)

-----------------------------------------------------------------------------
(* TIM1_UP_IRQHandler, every 10 ms.  A request frame is on the wire for     *)
(* less than a millisecond, so it has left before the next tick.            *)

\* Seeded bug: the counter is compared before it is incremented.
MenuTick_Bug ==
  IF menu_cnt > MENU_TICKS
  THEN menu_cnt' = 0 /\ enter_menu' = TRUE
  ELSE menu_cnt' = menu_cnt + 1 /\ UNCHANGED enter_menu

MenuTick ==
  IF menu_cnt + 1 > MENU_TICKS
  THEN menu_cnt' = 0 /\ enter_menu' = TRUE
  ELSE menu_cnt' = menu_cnt + 1 /\ UNCHANGED enter_menu

StatusAtTick == IF turn_off_mpg THEN "DISABLED" ELSE mpg_status

\* Seeded bug: outside manual mode only the timeout counter is reset.
TickReset_Bug ==
  /\ ~entered_manual_mode
  /\ comm_cnt' = 0
  /\ UNCHANGED <<counter, mpg_status, request_answered, uart4_tx>>

\* Outside manual mode the cycle is held at its start.
TickReset ==
  /\ ~entered_manual_mode
  /\ counter' = 0 /\ comm_cnt' = 0
  /\ UNCHANGED <<mpg_status, request_answered, uart4_tx>>

TickRequest ==
  /\ entered_manual_mode
  /\ counter + 1 = DATA_REQUEST_CNT
  /\ counter' = counter + 1
  /\ mpg_status' = StatusAtTick
  /\ request_pendant_data([status |-> status, mpg |-> StatusAtTick])
  /\ UNCHANGED <<comm_cnt, request_answered>>

TickCount ==
  /\ entered_manual_mode
  /\ counter + 1 # DATA_REQUEST_CNT
  /\ counter + 1 < CHECK_DATA_RECEIVED_CNT
  /\ counter' = counter + 1
  /\ mpg_status' = StatusAtTick
  /\ UNCHANGED <<comm_cnt, request_answered, uart4_tx>>

\* Seeded bug: the cycle waits for an answer that never comes.
RestartDue_Bug == request_answered

RestartDue == request_answered \/ comm_cnt + 1 = REQUEST_TIMEOUT_CNT

TickCheck ==
  /\ entered_manual_mode
  /\ counter + 1 # DATA_REQUEST_CNT
  /\ counter + 1 >= CHECK_DATA_RECEIVED_CNT
  /\ mpg_status' = StatusAtTick
  /\ IF RestartDue
     THEN counter' = 0 /\ comm_cnt' = 0
     ELSE counter' = counter + 1 /\ comm_cnt' = comm_cnt + 1
  /\ request_answered' = FALSE
  /\ UNCHANGED uart4_tx

TIM1_UP_IRQHandler ==
  /\ uart4_tx = None
  /\ MenuTick
  /\ TickReset \/ TickRequest \/ TickCount \/ TickCheck
  /\ UNCHANGED <<mainVars, controlVars, modeVars, uart4_rx, uart2_tx, uart2_rx>>

-----------------------------------------------------------------------------
(* HAL_UARTEx_RxEventCallback on UART4: an answer of the pendant.           *)

\* Seeded bug: an answer is taken after manual mode has been left.
Expected_Bug == counter >= DATA_REQUEST_CNT

Expected == entered_manual_mode /\ counter >= DATA_REQUEST_CNT

AnswerDropped ==
  /\ ~Expected
  /\ UNCHANGED <<mpg_status, turn_off_mpg, cycleVars, modeVars, uart2_tx>>

AnswerDuringTurnOff ==
  /\ Expected /\ turn_off_mpg
  /\ request_answered' = TRUE
  /\ turn_off_mpg' = uart4_rx.mpg
  /\ mpg_status' = "DISABLED"
  /\ counter' = DATA_REQUEST_CNT - 1
  /\ UNCHANGED <<comm_cnt, modeVars, uart2_tx>>

\* pendant_data_to_action, when process_pendant_data_to_action calls it with
\* the mpg_status it has just decided: it may have nothing to send.
pendant_data_to_action_Bug(decided) ==   \* seeded bug: the grant is not awaited
  \/ status /\ HandlerTransmit("action")
  \/ UNCHANGED uart2_tx

pendant_data_to_action(decided) ==
  \/ status /\ decided = "ENABLED" /\ HandlerTransmit("action")
  \/ UNCHANGED uart2_tx

\* The pendant asks for the MPG and the machine is not in MPG mode: the panel
\* calls enable_mpg, whose checks have just been made.
AskStatus_Bug == "ENABLED"   \* seeded bug: granted before the machine agrees
AskStatus     == "ENABLE_ONGOING"

AskMachine ==
  /\ ~mpgMode /\ ~mpg_enable_ongoing
  /\ mpg_status' = AskStatus
  /\ mpg_enable_ongoing' = TRUE
  /\ HandlerTransmit("toggle")
  /\ UNCHANGED <<mpgMode, mpg_disable_ongoing>>

process_pendant_data_to_action ==
  \/ /\ uart4_rx.mpg
     /\ AskMachine
  \/ /\ uart4_rx.mpg /\ mpgMode
     /\ mpg_status' = "ENABLED"
     /\ pendant_data_to_action("ENABLED")
     /\ UNCHANGED modeVars
  \/ /\ uart4_rx.mpg /\ ~mpgMode /\ mpg_enable_ongoing
     /\ pendant_data_to_action(mpg_status)
     /\ UNCHANGED <<mpg_status, modeVars>>
  \/ /\ ~uart4_rx.mpg
     /\ mpg_status' = "DISABLED"
     /\ UNCHANGED <<modeVars, uart2_tx>>

\* Seeded bug: the turn-off procedure does not keep answers from processing.
AnswerProcessed_Bug ==
  /\ Expected
  /\ request_answered' = TRUE
  /\ process_pendant_data_to_action
  /\ UNCHANGED <<turn_off_mpg, counter, comm_cnt>>

AnswerProcessed ==
  /\ Expected /\ ~turn_off_mpg
  /\ request_answered' = TRUE
  /\ process_pendant_data_to_action
  /\ UNCHANGED <<turn_off_mpg, counter, comm_cnt>>

PendantAnswer ==
  /\ uart4_rx # None
  /\ uart4_rx' = None
  /\ AnswerDropped \/ AnswerDuringTurnOff \/ AnswerProcessed
  /\ UNCHANGED <<mainVars, tickVars, entered_manual_mode, status,
                 uart4_tx, uart2_rx>>

(* HAL_UARTEx_RxEventCallback on USART2: the "MPG:" field of a report.  The *)
(* message goes through parseData three times, so MPG:0 clears both flags.  *)

\* The flags after a report of mode mpg; seeded bugs: the enable flag survives
\* the grant, the disable flag survives the leave.
EnableFlagAfter_Bug(mpg) == mpg_enable_ongoing /\ (mpgMode \/ mpg)
EnableFlagAfter(mpg)  == mpg_enable_ongoing /\ mpgMode /\ mpg
DisableFlagAfter_Bug(mpg) == mpg_disable_ongoing /\ (mpgMode \/ mpg)
DisableFlagAfter(mpg) == mpg_disable_ongoing /\ mpg

MachineReport ==
  /\ uart2_rx # <<>>
  /\ uart2_rx' = Tail(uart2_rx)
  /\ mpgMode' = Head(uart2_rx)
  /\ mpg_enable_ongoing' = EnableFlagAfter(Head(uart2_rx))
  /\ mpg_disable_ongoing' = DisableFlagAfter(Head(uart2_rx))
  /\ UNCHANGED <<mainVars, tickVars, controlVars, mpg_status, cycleVars,
                 uart4_tx, uart4_rx, uart2_tx>>

-----------------------------------------------------------------------------
(* The main loop: r61529_screen_menu.                                       *)

mainOnly == <<menu_cnt, mpg_status, cycleVars, uart4_rx, uart2_rx>>

MenuDue == pc = "idle" /\ enter_menu

\* Level 0: stay, or enter a sub-menu by ENTER or touch.
PollMain ==
  /\ MenuDue /\ menu = "Main"
  /\ enter_menu' = FALSE
  /\ menu' \in Submenus \cup {"Main"}
  /\ UNCHANGED <<mainOnly, pc, controlVars, modeVars, uart4_tx, uart2_tx>>

\* Level 1, "Auto mode": only the screen is updated.
PollAuto ==
  /\ MenuDue /\ menu = "Auto"
  /\ enter_menu' = FALSE
  /\ UNCHANGED <<mainOnly, menu, pc, controlVars, modeVars, uart4_tx, uart2_tx>>

\* Level 1, BACK or touch: leave the sub-menu, first calling disable_mpg.
PollBack ==
  /\ MenuDue /\ menu \in Submenus
  /\ enter_menu' = FALSE
  /\ pc' = "exitCheck"
  /\ UNCHANGED <<mainOnly, menu, controlVars, modeVars, uart4_tx, uart2_tx>>

\* Level 1, "Manual mode"; pressed is an ENTER press that acts at this poll.
PollManual(pressed) ==
  /\ MenuDue /\ menu = "Manual"
  /\ enter_menu' = FALSE
  /\ entered_manual_mode' = TRUE
  /\ status' = TRUE
  /\ pc' = IF pressed /\ ~mpgMode /\ ~mpg_enable_ongoing THEN "enCheck"
           ELSE IF pressed /\ mpgMode /\ ~mpg_disable_ongoing THEN "disCheck"
           ELSE "actions"
  /\ UNCHANGED <<mainOnly, menu, turn_off_mpg, modeVars, uart4_tx, uart2_tx>>

mainStep == <<mainOnly, enter_menu, menu>>

\* enable_mpg called by the main loop: check, then set, then transmit.
EnableCheck ==
  /\ pc = "enCheck"
  /\ pc' = IF mpgMode \/ mpg_enable_ongoing THEN "actions" ELSE "enSet"
  /\ UNCHANGED <<mainStep, controlVars, modeVars, uart4_tx, uart2_tx>>

\* Seeded bug: the panel does not note that it has asked.
EnableSend_Bug ==
  /\ pc = "enSet"
  /\ MainTransmit("toggle")
  /\ pc' = "enBusy"
  /\ UNCHANGED <<mainStep, controlVars, modeVars, uart4_tx>>

EnableSend ==
  /\ pc = "enSet"
  /\ mpg_enable_ongoing' = TRUE
  /\ MainTransmit("toggle")
  /\ pc' = "enBusy"
  /\ UNCHANGED <<mainStep, controlVars, mpgMode, mpg_disable_ongoing, uart4_tx>>

\* disable_mpg refuses when it has nothing to do; seeded bug: it forgets that
\* a toggle is under way.
MayDisable_Bug == mpgMode
MayDisable == mpgMode /\ ~mpg_disable_ongoing

\* disable_mpg, called on ENTER ("dis...") and on BACK ("exit...").
DisableCheck ==
  /\ pc \in {"disCheck", "exitCheck"}
  /\ pc' = IF MayDisable
           THEN IF pc = "disCheck" THEN "disSet" ELSE "exitSet"
           ELSE IF pc = "disCheck" THEN "turnOff" ELSE "exit"
  /\ UNCHANGED <<mainStep, controlVars, modeVars, uart4_tx, uart2_tx>>

DisableSend ==
  /\ pc \in {"disSet", "exitSet"}
  /\ mpg_disable_ongoing' = TRUE
  /\ MainTransmit("toggle")
  /\ pc' = IF pc = "disSet" THEN "disBusy" ELSE "exitBusy"
  /\ UNCHANGED <<mainStep, controlVars, mpgMode, mpg_enable_ongoing, uart4_tx>>

\* HAL_UART_Transmit returns to the main loop.
AfterTransmit == [enBusy |-> "actions", disBusy |-> "turnOff",
                  exitBusy |-> "exit", reportBusy |-> "buttons",
                  jogBusy |-> "idle"]

TransmitDone ==
  /\ pc \in Transmitting
  /\ pc' = AfterTransmit[pc]
  /\ UNCHANGED <<mainStep, controlVars, modeVars, uart4_tx, uart2_tx>>

\* After disable_mpg on ENTER: start the pendant's turn-off procedure.
StartTurnOff ==
  /\ pc = "turnOff"
  /\ turn_off_mpg' = (turn_off_mpg \/ mpg_status = "ENABLED")
  /\ pc' = "actions"
  /\ UNCHANGED <<mainStep, entered_manual_mode, status, modeVars,
                 uart4_tx, uart2_tx>>

\* In MPG mode: request_report ("?", which carries no state here) when its
\* 100 ms have passed, then the jog buttons.
ManualActions ==
  /\ pc = "actions"
  /\ \/ ~mpgMode /\ pc' = "idle"
     \/ mpgMode /\ pc' \in {"reportBusy", "buttons"}
  /\ UNCHANGED <<mainStep, controlVars, modeVars, uart4_tx, uart2_tx>>

JogButtons ==
  /\ pc = "buttons"
  /\ \/ pc' = "jogBusy" /\ MainTransmit("action")
     \/ pc' = "idle" /\ UNCHANGED uart2_tx
  /\ UNCHANGED <<mainStep, controlVars, modeVars, uart4_tx>>

\* Level 1 left: manual mode is ended and the pendant told so, once.
ExitSubmenu ==
  /\ pc = "exit"
  /\ IF menu = "Manual" /\ status
     THEN /\ entered_manual_mode' = FALSE
          /\ mpg_status' = "DISABLED"
          /\ status' = FALSE
          /\ request_pendant_data([status |-> FALSE, mpg |-> "DISABLED"])
     ELSE UNCHANGED <<entered_manual_mode, mpg_status, status, uart4_tx>>
  /\ menu' = "Main"
  /\ pc' = "idle"
  /\ UNCHANGED <<tickVars, turn_off_mpg, cycleVars, modeVars,
                 uart4_rx, uart2_tx, uart2_rx>>

r61529_screen_menu ==
  \/ PollMain \/ PollAuto \/ PollBack
  \/ \E pressed \in BOOLEAN : PollManual(pressed)

MainStep ==
  \/ EnableCheck \/ EnableSend \/ DisableCheck \/ DisableSend
  \/ TransmitDone \/ StartTurnOff \/ ManualActions \/ JogButtons
  \/ ExitSubmenu

-----------------------------------------------------------------------------
(* An arbitrary pendant and machine, on a cable that may lose frames.       *)

internalVars == <<mainVars, tickVars, controlVars, mpg_status, cycleVars,
                  modeVars>>

\* The request arrives or is lost; the pendant may answer it at once.
EnvTakeRequest ==
  /\ uart4_tx # None /\ uart4_tx' = None
  /\ \/ UNCHANGED uart4_rx
     \/ uart4_rx = None /\ uart4_rx' \in Answer
  /\ UNCHANGED <<internalVars, uart2_tx, uart2_rx>>

EnvAnswer ==
  /\ uart4_rx = None /\ uart4_rx' \in Answer
  /\ UNCHANGED <<internalVars, uart4_tx, uart2_tx, uart2_rx>>

EnvLoseAnswer ==
  /\ uart4_rx # None /\ uart4_rx' = None
  /\ UNCHANGED <<internalVars, uart4_tx, uart2_tx, uart2_rx>>

\* The machine takes a packet, or loses all of them with its power.
EnvTakePacket ==
  /\ uart2_tx # <<>> /\ uart2_tx' \in {Tail(uart2_tx), <<>>}
  /\ UNCHANGED <<internalVars, uart4_tx, uart4_rx, uart2_rx>>

EnvReport ==
  /\ Len(uart2_rx) < MaxFrames
  /\ \E mpg \in BOOLEAN : uart2_rx' = Append(uart2_rx, mpg)
  /\ UNCHANGED <<internalVars, uart4_tx, uart4_rx, uart2_tx>>

Env == EnvTakeRequest \/ EnvAnswer \/ EnvLoseAnswer \/ EnvTakePacket \/ EnvReport

PanelStep ==
  \/ TIM1_UP_IRQHandler \/ PendantAnswer \/ MachineReport
  \/ r61529_screen_menu \/ MainStep

Next == PanelStep \/ Env

Spec == Init /\ [][Next]_vars

\* The timer ticks and frames leave the UART.
FairSpec == Spec /\ WF_vars(TIM1_UP_IRQHandler) /\ WF_vars(EnvTakeRequest)

-----------------------------------------------------------------------------
(* Properties.                                                              *)

\* The cycle is bounded although it is tested with ==: every check beyond
\* CHECK_DATA_RECEIVED_CNT is paid for in comm_cnt, also when the turn-off
\* procedure throws counter back, so that neither uint8_t wraps and the
\* tests cannot be stepped over.
CycleBounded ==
  /\ comm_cnt < REQUEST_TIMEOUT_CNT
  /\ counter <= CHECK_DATA_RECEIVED_CNT - 1 + comm_cnt

\* Manual mode, entered and left by the main loop while ticks and answers
\* keep arriving, is the only owner of the pendant: the pendant is kept on
\* exactly in it, and a late answer cannot bring a grant back after it.
ManualOwnership ==
  /\ entered_manual_mode => menu = "Manual"
  /\ status = entered_manual_mode
  /\ ~entered_manual_mode => mpg_status = "DISABLED"

\* While the pendant's MPG is being turned off, none of its answers makes the
\* panel ask the machine for MPG mode again.
NoAskWhileTurningOff == turn_off_mpg => mpg_status # "ENABLE_ONGOING"

\* Whatever answers come, late ones during a turn-off included, the cycle
\* always comes back to the point from which it requests data.
PollingGoesOn == []<>(counter < DATA_REQUEST_CNT)
=============================================================================
