---------------------------- MODULE PanelProofs ----------------------------
(***************************************************************************)
(* Proofs about the control panel for every cycle length, timeout, menu     *)
(* delay and frame bound, against an arbitrary pendant and machine.         *)
(*                                                                          *)
(* Type correctness is inductive, and each safety property is inductive     *)
(* relative to it: none of them needs to be strengthened further.           *)
(***************************************************************************)
EXTENDS Panel, TLAPS

-----------------------------------------------------------------------------
(* What the helpers return.                                                 *)

\* A request to the UART leaves a request on the wire: the new one, the old
\* one or a mixture, but never none.
LEMMA RequestLeaves ==
  ASSUME uart4_tx \in Request \cup {None},
         NEW new \in Request,
         request_pendant_data(new)
  PROVE  uart4_tx' \in Request \cup {None}
  BY DEF request_pendant_data, Overwritten, Request

\* A packet sent by either side of the panel keeps the wire a sequence of
\* packets.
LEMMA PacketsOnly ==
  ASSUME uart2_tx \in Seq(Packets),
         NEW packet \in Packets,
         HandlerTransmit(packet) \/ MainTransmit(packet)
  PROVE  uart2_tx' \in Seq(Packets)
  BY DEF HandlerTransmit, MainTransmit

-----------------------------------------------------------------------------
(* Type correctness, one lemma per process.                                 *)

LEMMA TickType ==
  ASSUME TypeOK, TIM1_UP_IRQHandler
  PROVE  TypeOK'
<1> USE CycleAssumption DEF CycleAssumption, TypeOK
<1>1. menu_cnt' \in 0..MENU_TICKS
  BY DEF TIM1_UP_IRQHandler, MenuTick
<1>2. enter_menu' \in BOOLEAN
  BY DEF TIM1_UP_IRQHandler, MenuTick
<1>3. StatusAtTick \in MpgStatus
  BY DEF StatusAtTick, MpgStatus
<1>4. counter' \in Nat /\ comm_cnt' \in Nat
  BY DEF TIM1_UP_IRQHandler, TickReset, TickRequest, TickCount, TickCheck
<1>5. request_answered' \in BOOLEAN /\ mpg_status' \in MpgStatus
  BY <1>3 DEF TIM1_UP_IRQHandler, TickReset, TickRequest, TickCount, TickCheck
<1>6. uart4_tx' \in Request \cup {None}
  <2>1. CASE TickRequest
    BY <1>3, <2>1, RequestLeaves DEF TickRequest, Request
  <2>2. CASE TickReset \/ TickCount \/ TickCheck
    BY <2>2 DEF TickReset, TickCount, TickCheck
  <2> QED BY <2>1, <2>2 DEF TIM1_UP_IRQHandler
<1> QED
  BY <1>1, <1>2, <1>4, <1>5, <1>6
  DEF TIM1_UP_IRQHandler, mainVars, controlVars, modeVars

LEMMA AnswerType ==
  ASSUME TypeOK, PendantAnswer
  PROVE  TypeOK'
<1> USE CycleAssumption DEF CycleAssumption, TypeOK
<1>1. uart4_rx \in Answer
  BY DEF PendantAnswer
<1>2. CASE AnswerDropped
  BY <1>2 DEF PendantAnswer, AnswerDropped, mainVars, tickVars, cycleVars,
              modeVars
<1>3. CASE AnswerDuringTurnOff
  BY <1>1, <1>3 DEF PendantAnswer, AnswerDuringTurnOff, Answer, MpgStatus,
                    mainVars, tickVars, cycleVars, modeVars
<1>4. CASE AnswerProcessed
  <2>1. uart2_tx' \in Seq(Packets)
    BY <1>4, PacketsOnly
    DEF AnswerProcessed, process_pendant_data_to_action, AskMachine,
        pendant_data_to_action, Packets
  <2>2. mpg_status' \in MpgStatus
    BY <1>4 DEF AnswerProcessed, process_pendant_data_to_action, AskMachine,
                AskStatus, MpgStatus
  <2>3. /\ mpgMode' \in BOOLEAN /\ mpg_enable_ongoing' \in BOOLEAN
        /\ mpg_disable_ongoing' \in BOOLEAN
    BY <1>4 DEF AnswerProcessed, process_pendant_data_to_action, AskMachine,
                modeVars
  <2> QED
    BY <1>4, <2>1, <2>2, <2>3 DEF PendantAnswer, AnswerProcessed, mainVars,
                                  tickVars
<1> QED BY <1>2, <1>3, <1>4 DEF PendantAnswer

LEMMA ReportType ==
  ASSUME TypeOK, MachineReport
  PROVE  TypeOK'
<1>1. Head(uart2_rx) \in BOOLEAN /\ Tail(uart2_rx) \in Seq(BOOLEAN)
  BY DEF TypeOK, MachineReport
<1>2. /\ mpgMode' \in BOOLEAN /\ mpg_enable_ongoing' \in BOOLEAN
      /\ mpg_disable_ongoing' \in BOOLEAN
  BY <1>1 DEF MachineReport, EnableFlagAfter, DisableFlagAfter
<1> QED
  BY <1>1, <1>2 DEF TypeOK, MachineReport, mainVars, tickVars, controlVars,
                    cycleVars

LEMMA PollType ==
  ASSUME TypeOK, r61529_screen_menu
  PROVE  TypeOK'
<1> USE DEF TypeOK, mainOnly, controlVars, modeVars, cycleVars, Transmitting
<1>1. CASE PollMain
  <2>1. menu' \in Submenus \cup {"Main"} /\ enter_menu' \in BOOLEAN
    BY <1>1 DEF PollMain
  <2> QED BY <1>1, <2>1 DEF PollMain
<1>2. CASE PollAuto
  <2>1. enter_menu' \in BOOLEAN
    BY <1>2 DEF PollAuto
  <2> QED BY <1>2, <2>1 DEF PollAuto
<1>3. CASE PollBack
  BY <1>3 DEF PollBack
<1>4. ASSUME NEW pressed \in BOOLEAN, PollManual(pressed)
      PROVE  TypeOK'
  BY <1>4 DEF PollManual
<1> QED BY <1>1, <1>2, <1>3, <1>4 DEF r61529_screen_menu

LEMMA MainType ==
  ASSUME TypeOK, MainStep
  PROVE  TypeOK'
<1> USE DEF TypeOK, mainStep, mainOnly, tickVars, controlVars, modeVars,
            cycleVars, Transmitting
<1>1. CASE EnableCheck
  BY <1>1 DEF EnableCheck
<1>2. CASE EnableSend
  BY <1>2, PacketsOnly DEF EnableSend, Packets
<1>3. CASE DisableCheck
  BY <1>3 DEF DisableCheck
<1>4. CASE DisableSend
  BY <1>4, PacketsOnly DEF DisableSend, Packets
<1>5. CASE TransmitDone
  BY <1>5 DEF TransmitDone, AfterTransmit
<1>6. CASE StartTurnOff
  BY <1>6 DEF StartTurnOff
<1>7. CASE ManualActions
  BY <1>7 DEF ManualActions
<1>8. CASE JogButtons
  BY <1>8, PacketsOnly DEF JogButtons, Packets
<1>9. CASE ExitSubmenu
  <2>1. uart4_tx' \in Request \cup {None}
    BY <1>9, RequestLeaves DEF ExitSubmenu, Request, MpgStatus
  <2> QED BY <1>9, <2>1 DEF ExitSubmenu, MpgStatus
<1> QED
  BY <1>1, <1>2, <1>3, <1>4, <1>5, <1>6, <1>7, <1>8, <1>9 DEF MainStep

LEMMA EnvType ==
  ASSUME TypeOK, Env
  PROVE  TypeOK'
<1> USE DEF TypeOK, internalVars, mainVars, tickVars, controlVars, modeVars,
            cycleVars
<1>1. CASE EnvTakeRequest
  BY <1>1 DEF EnvTakeRequest
<1>2. CASE EnvAnswer
  BY <1>2 DEF EnvAnswer
<1>3. CASE EnvLoseAnswer
  BY <1>3 DEF EnvLoseAnswer
<1>4. CASE EnvTakePacket
  <2>1. Tail(uart2_tx) \in Seq(Packets) /\ <<>> \in Seq(Packets)
    BY <1>4 DEF EnvTakePacket
  <2>2. uart2_tx' \in Seq(Packets) BY <1>4, <2>1 DEF EnvTakePacket
  <2> QED BY <1>4, <2>2 DEF EnvTakePacket
<1>5. CASE EnvReport
  BY <1>5 DEF EnvReport
<1> QED BY <1>1, <1>2, <1>3, <1>4, <1>5 DEF Env

\* The panel's state keeps its types, whatever frames arrive.
THEOREM TypeCorrect == Spec => []TypeOK
<1>1. Init => TypeOK
  <2>1. ASSUME Init
        PROVE  /\ menu_cnt \in 0..MENU_TICKS /\ counter \in Nat
               /\ comm_cnt \in Nat
               /\ uart2_tx \in Seq(Packets) /\ uart2_rx \in Seq(BOOLEAN)
    BY <2>1, CycleAssumption DEF CycleAssumption, Init
  <2> QED BY <2>1 DEF Init, TypeOK, MpgStatus
<1>2. TypeOK /\ [Next]_vars => TypeOK'
  <2>1. ASSUME TypeOK, UNCHANGED vars
        PROVE  TypeOK'
    BY <2>1 DEF TypeOK, vars, mainVars, tickVars, controlVars, cycleVars,
                modeVars
  <2> QED
    BY <2>1, TickType, AnswerType, ReportType, PollType, MainType, EnvType
    DEF Next, PanelStep
<1> QED BY <1>1, <1>2, PTL DEF Spec

-----------------------------------------------------------------------------
(* The request cycle.                                                       *)

LEMMA CycleStep ==
  ASSUME TypeOK, CycleBounded, [Next]_vars
  PROVE  CycleBounded'
<1> USE CycleAssumption DEF CycleAssumption, TypeOK, CycleBounded
<1>1. CASE TIM1_UP_IRQHandler
  <2>1. CASE TickReset
    BY <2>1 DEF TickReset
  <2>2. CASE TickRequest
    BY <2>2 DEF TickRequest
  <2>3. CASE TickCount
    BY <2>3 DEF TickCount
  <2>4. CASE TickCheck
    \* a check either restarts the cycle or is paid for in comm_cnt
    BY <2>4 DEF TickCheck, RestartDue
  <2> QED BY <1>1, <2>1, <2>2, <2>3, <2>4 DEF TIM1_UP_IRQHandler
<1>2. CASE PendantAnswer
  <2>1. CASE AnswerDropped \/ AnswerProcessed
    BY <2>1 DEF AnswerDropped, AnswerProcessed, cycleVars
  <2>2. CASE AnswerDuringTurnOff
    BY <2>2 DEF AnswerDuringTurnOff
  <2> QED BY <1>2, <2>1, <2>2 DEF PendantAnswer
<1>3. CASE MachineReport \/ r61529_screen_menu \/ MainStep \/ Env
            \/ UNCHANGED vars
  <2>1. UNCHANGED <<counter, comm_cnt>>
    BY <1>3
    DEF MachineReport, r61529_screen_menu, PollMain, PollAuto, PollBack,
        PollManual, MainStep, EnableCheck, EnableSend, DisableCheck,
        DisableSend, TransmitDone, StartTurnOff, ManualActions, JogButtons,
        ExitSubmenu, Env, EnvTakeRequest, EnvAnswer, EnvLoseAnswer,
        EnvTakePacket, EnvReport, vars, mainStep, mainOnly, internalVars, cycleVars
  <2> QED BY <2>1
<1> QED BY <1>1, <1>2, <1>3 DEF Next, PanelStep

\* The request cycle is bounded, so that its uint8_t counters do not wrap and
\* its equality tests are not stepped over.
THEOREM CycleIsBounded == Spec => []CycleBounded
<1>1. Init => CycleBounded
  BY CycleAssumption DEF CycleAssumption, Init, CycleBounded
<1> QED BY <1>1, CycleStep, TypeCorrect, PTL DEF Spec

-----------------------------------------------------------------------------
(* Who owns the pendant.                                                    *)

LEMMA OwnershipStep ==
  ASSUME TypeOK, ManualOwnership, [Next]_vars
  PROVE  ManualOwnership'
<1> USE DEF ManualOwnership
<1>1. CASE TIM1_UP_IRQHandler
  <2>1. UNCHANGED <<menu, status, entered_manual_mode>>
    BY <1>1 DEF TIM1_UP_IRQHandler, mainVars, controlVars
  <2>2. entered_manual_mode \/ UNCHANGED mpg_status
    BY <1>1 DEF TIM1_UP_IRQHandler, TickReset, TickRequest, TickCount,
                TickCheck
  <2> QED BY <2>1, <2>2
<1>2. CASE PendantAnswer
  <2>1. UNCHANGED <<menu, status, entered_manual_mode>>
    BY <1>2 DEF PendantAnswer, mainVars
  <2>2. entered_manual_mode \/ UNCHANGED mpg_status
    BY <1>2 DEF PendantAnswer, AnswerDropped, AnswerDuringTurnOff,
                AnswerProcessed, Expected
  <2> QED BY <2>1, <2>2
<1>3. CASE r61529_screen_menu
  <2>1. CASE PollMain
    \* level 0 is never left while manual mode is entered
    BY <2>1 DEF PollMain, MenuDue, mainOnly, controlVars
  <2>2. CASE PollAuto \/ PollBack
    BY <2>2 DEF PollAuto, PollBack, mainOnly, controlVars
  <2>3. CASE \E pressed \in BOOLEAN : PollManual(pressed)
    BY <2>3 DEF PollManual, MenuDue, mainOnly
  <2> QED BY <1>3, <2>1, <2>2, <2>3 DEF r61529_screen_menu
<1>4. CASE MainStep
  <2>1. CASE ExitSubmenu
    BY <2>1 DEF ExitSubmenu, TypeOK
  <2>2. CASE ~ExitSubmenu
    BY <1>4, <2>2
    DEF MainStep, EnableCheck, EnableSend, DisableCheck, DisableSend,
        TransmitDone, StartTurnOff, ManualActions, JogButtons, mainStep,
        mainOnly, controlVars
  <2> QED BY <2>1, <2>2
<1>5. CASE MachineReport \/ Env \/ UNCHANGED vars
  BY <1>5 DEF MachineReport, Env, EnvTakeRequest, EnvAnswer, EnvLoseAnswer,
              EnvTakePacket, EnvReport, vars, internalVars, mainVars, controlVars
<1> QED BY <1>1, <1>2, <1>3, <1>4, <1>5 DEF Next, PanelStep

\* Manual mode alone owns the pendant: no answer, however late, brings a
\* grant back after it has been left.
THEOREM ManualModeOwns == Spec => []ManualOwnership
<1>1. Init => ManualOwnership
  BY DEF Init, ManualOwnership
<1> QED BY <1>1, OwnershipStep, TypeCorrect, PTL DEF Spec

-----------------------------------------------------------------------------
(* The turn-off procedure.                                                  *)

LEMMA TurnOffStep ==
  ASSUME NoAskWhileTurningOff, [Next]_vars
  PROVE  NoAskWhileTurningOff'
<1> USE DEF NoAskWhileTurningOff
<1>1. CASE TIM1_UP_IRQHandler
  BY <1>1 DEF TIM1_UP_IRQHandler, TickReset, TickRequest, TickCount,
              TickCheck, StatusAtTick, controlVars
<1>2. CASE PendantAnswer
  BY <1>2 DEF PendantAnswer, AnswerDropped, AnswerDuringTurnOff,
              AnswerProcessed
<1>3. CASE MainStep
  <2>1. CASE StartTurnOff
    BY <2>1 DEF StartTurnOff, mainStep, mainOnly
  <2>2. CASE ExitSubmenu
    BY <2>2 DEF ExitSubmenu
  <2>3. CASE ~StartTurnOff /\ ~ExitSubmenu
    BY <1>3, <2>3
    DEF MainStep, EnableCheck, EnableSend, DisableCheck, DisableSend,
        TransmitDone, ManualActions, JogButtons, mainStep, mainOnly,
        controlVars
  <2> QED BY <2>1, <2>2, <2>3
<1>4. CASE MachineReport \/ r61529_screen_menu \/ Env \/ UNCHANGED vars
  BY <1>4
  DEF MachineReport, r61529_screen_menu, PollMain, PollAuto, PollBack,
      PollManual, Env, EnvTakeRequest, EnvAnswer, EnvLoseAnswer,
      EnvTakePacket, EnvReport,
      vars, mainOnly, internalVars, controlVars
<1> QED BY <1>1, <1>2, <1>3, <1>4 DEF Next, PanelStep

\* While the pendant's MPG is being turned off, no answer of the pendant makes
\* the panel ask the machine for MPG mode.
THEOREM NoAskDuringTurnOff == Spec => []NoAskWhileTurningOff
<1>1. Init => NoAskWhileTurningOff
  BY DEF Init, NoAskWhileTurningOff
<1> QED BY <1>1, TurnOffStep, PTL DEF Spec
=============================================================================
