-------------------------- MODULE MpgSystemProofs --------------------------
(***************************************************************************)
(* Proofs about pendant, panel and machine together, for every value of the *)
(* constants, in this order:                                                *)
(*                                                                          *)
(*   - the panel's view of the machine's mode is right once the machine has *)
(*     nothing left to tell (ModeInv, of every operator);                   *)
(*   - a toggle and the report that answers it make a round, and one round  *)
(*     is over before the next begins (AskInv, of an operator who has the   *)
(*     panel ask in one way only, AsksOneWay), so that toggles do what      *)
(*     commands with a direction would do (Commands);                       *)
(*   - a grant, once given, agrees with what the panel and the machine      *)
(*     think, and starts from zero (StaysInv, CableInv, FreshInv, of an     *)
(*     operator who leaves MPG mode by the pendant only, NeverLeaves);      *)
(*   - what the panel's encoder difference is, and that the axis moves as   *)
(*     the handwheel is turned (FollowInv);                                 *)
(*   - each board in the system is the board of its own module, of which    *)
(*     more is proved there (FrameTypes).                                   *)
(***************************************************************************)
EXTENDS Motion, SequenceTheorems, FiniteSetTheorems, TLAPS

(* The mode.  ModesAgree speaks of quiet states only, so the invariant says  *)
(* what holds on the way there: unless a report is due, the last word on its *)
(* way to the panel, or the panel's own mpgMode when there is none, tells    *)
(* the machine's mode.                                                       *)

LastWord == IF uart2_rx = <<>> THEN mpgMode ELSE uart2_rx[Len(uart2_rx)]

ModeTypes ==
  /\ mpgMode \in BOOLEAN
  /\ mpg_mode \in BOOLEAN
  /\ uart2_rx \in Seq(BOOLEAN)
  /\ powerCycles \in Nat

WordCurrent ==
  ~report_due => /\ mpg_mode = TRUE => LastWord = TRUE
                 /\ powerCycles = 0 => LastWord = mpg_mode

ModeInv == ModeTypes /\ WordCurrent

-----------------------------------------------------------------------------
(* Who touches what: only a report changes what the panel knows, and only   *)
(* the machine changes its mode and sends reports.                          *)

modeWires == <<mpgMode, uart2_rx, mpg_mode, report_due, powerCycles>>

LEMMA TickKeepsMode ==
  ASSUME PanelTick
  PROVE  UNCHANGED modeWires
  BY DEF PanelTick, Pn!TIM1_UP_IRQHandler, Pn!modeVars, machineOnly,
         budgetVars, modeWires

LEMMA AnswerKeepsMode ==
  ASSUME PanelCallback, Pn!PendantAnswer
  PROVE  UNCHANGED modeWires
<1>1. UNCHANGED <<uart2_rx, mpg_mode, report_due, powerCycles>>
  BY DEF PanelCallback, Pn!PendantAnswer, machineOnly, budgetVars
<1>2. UNCHANGED mpgMode
  BY DEF Pn!PendantAnswer, Pn!AnswerDropped, Pn!AnswerDuringTurnOff,
         Pn!AnswerProcessed, Pn!process_pendant_data_to_action,
         Pn!AskMachine, Pn!modeVars
<1> QED BY <1>1, <1>2 DEF modeWires

LEMMA MainKeepsMode ==
  ASSUME PanelMain \/ PanelEnter
  PROVE  UNCHANGED modeWires
<1>1. UNCHANGED <<mpg_mode, report_due, powerCycles>>
  BY DEF PanelMain, PanelEnter, machineOnly, budgetVars
<1>2. CASE Pn!PollMain \/ Pn!PollAuto \/ Pn!PollBack
             \/ \E pressed \in BOOLEAN : Pn!PollManual(pressed)
  BY <1>1, <1>2
  DEF Pn!PollMain, Pn!PollAuto, Pn!PollBack, Pn!PollManual, Pn!mainOnly,
      Pn!modeVars, modeWires
<1>3. CASE Pn!MainStep
  BY <1>1, <1>3
  DEF Pn!MainStep, Pn!EnableCheck, Pn!EnableSend, Pn!DisableCheck,
      Pn!DisableSend, Pn!TransmitDone, Pn!StartTurnOff, Pn!ManualActions,
      Pn!JogButtons, Pn!ExitSubmenu, Pn!mainStep, Pn!mainOnly, Pn!modeVars,
      modeWires
<1> QED BY <1>2, <1>3 DEF PanelMain, PanelEnter

LEMMA PendantKeepsMode ==
  ASSUME PendantInterrupt \/ PendantMain \/ LoseFrame
  PROVE  UNCHANGED modeWires
  BY DEF PendantInterrupt, PendantMain, LoseFrame, panelOnly, machineOnly,
         budgetVars, modeWires

-----------------------------------------------------------------------------
(* The last word stays current.                                             *)

\* Taking the head of a queue leaves its last element the last, or was it.
LEMMA LastOfTail ==
  ASSUME NEW S, NEW s \in Seq(S), s # <<>>
  PROVE  IF Tail(s) = <<>> THEN Head(s) = s[Len(s)]
                           ELSE Tail(s)[Len(Tail(s))] = s[Len(s)]
<1>1. Len(s) \in Nat /\ Len(s) # 0
  OBVIOUS
<1>2. Len(Tail(s)) = Len(s) - 1 /\ Tail(s) \in Seq(S)
  OBVIOUS
<1>3. CASE Tail(s) = <<>>
  <2>1. Len(<<>>) = 0
    OBVIOUS
  <2>2. Len(Tail(s)) = 0
    BY <1>3, <2>1, Zenon
  <2>3. \A n \in Nat : n - 1 = 0 => n = 1
    OBVIOUS
  <2>4. Len(s) = 1
    BY <1>1, <1>2, <2>2, <2>3, Zenon
  <2> QED BY <1>3, <2>4
<1>4. CASE Tail(s) # <<>>
  <2>1. Len(Tail(s)) # 0
    BY <1>2, <1>4
  <2> QED BY <1>1, <1>2, <1>4, <2>1
<1> QED BY <1>3, <1>4

LEMMA ReportTaken ==
  ASSUME ModeInv, PanelCallback, Pn!MachineReport
  PROVE  ModeInv'
<1>1. /\ uart2_rx \in Seq(BOOLEAN) /\ uart2_rx # <<>>
      /\ uart2_rx' = Tail(uart2_rx) /\ mpgMode' = Head(uart2_rx)
  BY DEF ModeInv, ModeTypes, Pn!MachineReport
<1>2. UNCHANGED <<mpg_mode, report_due, powerCycles>>
  BY DEF PanelCallback, machineOnly, budgetVars
<1>3. uart2_rx' \in Seq(BOOLEAN) /\ mpgMode' \in BOOLEAN
  BY <1>1
<1>4. LastWord' = LastWord
  <2>1. CASE Tail(uart2_rx) = <<>>
    \* the head is the last word, and becomes what the panel knows
    <3>1. uart2_rx' = <<>> /\ Head(uart2_rx) = uart2_rx[Len(uart2_rx)]
      BY <1>1, <2>1, LastOfTail
    <3> QED BY <1>1, <3>1 DEF LastWord
  <2>2. CASE Tail(uart2_rx) # <<>>
    <3>1. /\ uart2_rx' # <<>>
          /\ uart2_rx'[Len(uart2_rx')] = uart2_rx[Len(uart2_rx)]
      BY <1>1, <2>2, LastOfTail
    <3> QED BY <1>1, <3>1 DEF LastWord
  <2> QED BY <2>1, <2>2
<1> QED BY <1>2, <1>3, <1>4 DEF ModeInv, ModeTypes, WordCurrent

LEMMA ReportSent ==
  ASSUME ModeInv, MachineStep, Mc!Report
  PROVE  ModeInv'
<1>1. /\ uart2_rx \in Seq(BOOLEAN) /\ mpg_mode \in BOOLEAN
      /\ uart2_rx' = Append(uart2_rx, mpg_mode)
  BY DEF ModeInv, ModeTypes, Mc!Report
<1>2. UNCHANGED <<mpgMode, mpg_mode, powerCycles>>
  BY DEF MachineStep, Mc!Report, panelOnly, budgetVars
<1>3. uart2_rx' \in Seq(BOOLEAN)
  BY <1>1
<1>4. LastWord' = mpg_mode
  BY <1>1 DEF LastWord
<1> QED BY <1>2, <1>3, <1>4 DEF ModeInv, ModeTypes, WordCurrent

LEMMA MachineKeepsWord ==
  ASSUME ModeInv, MachineStep, Mc!ReceivePacket \/ Mc!ExecuteTask
  PROVE  ModeInv'
<1>1. UNCHANGED <<mpgMode, uart2_rx, powerCycles>>
  BY DEF MachineStep, Mc!ReceivePacket, Mc!ExecuteTask, panelOnly, budgetVars
<1>2. CASE Mc!ReceivePacket
  BY <1>1, <1>2
  DEF Mc!ReceivePacket, ModeInv, ModeTypes, WordCurrent, LastWord
<1>3. CASE Mc!ExecuteTask
  <2>1. report_due' = TRUE
    BY <1>3 DEF Mc!ExecuteTask, Mc!stream_mpg_enable, Mc!ReportAfter
  <2>2. mpg_mode' \in BOOLEAN
    BY <1>3 DEF Mc!ExecuteTask, Mc!stream_mpg_enable, ModeInv, ModeTypes
  <2> QED BY <1>1, <2>1, <2>2 DEF ModeInv, ModeTypes, WordCurrent
<1> QED BY <1>2, <1>3

LEMMA PowerLost ==
  ASSUME ModeInv, MachinePowerCycle
  PROVE  ModeInv'
<1>1. UNCHANGED <<mpgMode, uart2_rx>>
  BY DEF MachinePowerCycle, Mc!PowerCycle, panelOnly
<1>2. mpg_mode' = FALSE /\ powerCycles' = powerCycles + 1
  BY DEF MachinePowerCycle, Mc!PowerCycle
<1>3. powerCycles' \in Nat /\ powerCycles' # 0
  BY <1>2 DEF ModeInv, ModeTypes
<1> QED BY <1>1, <1>2, <1>3 DEF ModeInv, ModeTypes, WordCurrent

LEMMA ModeStep ==
  ASSUME ModeInv, [Next]_vars
  PROVE  ModeInv'
<1>1. ASSUME UNCHANGED modeWires
      PROVE  ModeInv'
  BY <1>1 DEF modeWires, ModeInv, ModeTypes, WordCurrent, LastWord
<1>2. CASE UNCHANGED vars
  BY <1>1, <1>2 DEF vars, panelOnly, wireVars, machineOnly, budgetVars,
                    modeWires
<1>3. CASE PanelTick \/ PanelMain \/ PanelEnter \/ PendantInterrupt
             \/ PendantMain \/ LoseFrame
  BY <1>1, <1>3, TickKeepsMode, MainKeepsMode, PendantKeepsMode
<1>4. CASE PanelCallback
  BY <1>1, <1>4, AnswerKeepsMode, ReportTaken DEF PanelCallback
<1>5. CASE MachineStep
  BY <1>5, ReportSent, MachineKeepsWord DEF MachineStep
<1> QED
  BY <1>2, <1>3, <1>4, <1>5, PowerLost DEF Next

LEMMA ModeInvariant == Spec => []ModeInv
<1>1. Init => ModeInv
  <2>1. <<>> \in Seq(BOOLEAN)
    OBVIOUS
  <2>2. ASSUME Init
        PROVE  /\ mpgMode = FALSE /\ mpg_mode = FALSE /\ uart2_rx = <<>>
               /\ powerCycles \in Nat
    BY <2>2 DEF Init, Pn!Init, Mc!Init
  <2> QED BY <2>1, <2>2 DEF ModeInv, ModeTypes, WordCurrent, LastWord
<1> QED BY <1>1, ModeStep, PTL DEF Spec

-----------------------------------------------------------------------------
\* As long as the machine keeps its power, no interleaving of toggles,
\* denials and reports leaves the panel's mpgMode wrong for good.
THEOREM ModesAlwaysAgree == Spec => []ModesAgree
<1>1. ModeInv => ModesAgree
  BY DEF ModeInv, ModeTypes, WordCurrent, LastWord, ModesAgree, PowerKept,
         MachineQuiet
<1> QED BY <1>1, ModeInvariant, PTL

\* Power cycles or not, the panel never overlooks a machine in MPG mode.
THEOREM MpgModeAlwaysSeen == Spec => []MpgModeSeen
<1>1. ModeInv => MpgModeSeen
  BY DEF ModeInv, ModeTypes, WordCurrent, LastWord, MpgModeSeen, MachineQuiet
<1> QED BY <1>1, ModeInvariant, PTL

\* With the machine under power the last report on its way tells its mode,
\* unless another is due.
THEOREM LastReportAlwaysCurrent == Spec => []LastReportCurrent
<1>1. ModeInv => LastReportCurrent
  BY DEF ModeInv, ModeTypes, WordCurrent, LastWord, LastReportCurrent,
         Mc!LastReportCurrent, PowerKept
<1> QED BY <1>1, ModeInvariant, PTL

-----------------------------------------------------------------------------
(* Asking and telling.  The toggle has no direction, so what matters is that *)
(* one round, a toggle and the report that answers it, is over before the    *)
(* next begins.  It is, as long as the panel asks in one way only: on ENTER  *)
(* or on the pendant's behalf.  With both, the callback falls between the    *)
(* main loop's check and its sending.                                        *)

AsksOneWay == "mpg" \notin Buttons \/ MaxEnters = 0

WireTypes ==
  /\ uart2_tx \in Seq(Pn!Packets)
  /\ tasks \in Seq(Mc!Tasks)
  /\ mpg_enable_ongoing \in BOOLEAN
  /\ mpg_disable_ongoing \in BOOLEAN

\* Where the round is: nothing underway; the toggle on the wire; the toggle
\* enqueued; its report due; its report on the wire.
NoneSent == Toggles(uart2_tx) = {}
OneSent  == \E i : Toggles(uart2_tx) = {i}

Quiet  == NoneSent /\ Len(tasks) = 0 /\ ~report_due /\ Len(uart2_rx) = 0
Sent   == OneSent  /\ Len(tasks) = 0 /\ ~report_due /\ Len(uart2_rx) = 0
Queued == NoneSent /\ Len(tasks) = 1 /\ ~report_due /\ Len(uart2_rx) = 0
Due    == NoneSent /\ Len(tasks) = 0 /\ report_due  /\ Len(uart2_rx) = 0
Told   == NoneSent /\ Len(tasks) = 0 /\ ~report_due /\ Len(uart2_rx) = 1

\* Only a flag that is set accounts for a round, enabling starts from a panel
\* that is not in MPG mode and disabling from one that is, and so does the
\* main loop between its check and its sending.  With the machine under power
\* a disabling round has the machine in MPG mode until it executes the toggle,
\* and out of it from then on.
RoundInv ==
  /\ Quiet \/ Sent \/ Queued \/ Due \/ Told
  /\ ~Quiet => mpg_enable_ongoing \/ mpg_disable_ongoing
  /\ mpg_enable_ongoing => ~mpgMode
  /\ mpg_disable_ongoing => mpgMode
  /\ pc = "enSet" => ~mpgMode /\ ~mpg_enable_ongoing
  /\ pc \in {"disSet", "exitSet"} => mpgMode /\ ~mpg_disable_ongoing
  /\ powerCycles = 0 /\ mpg_disable_ongoing =>
       \/ (Sent \/ Queued) /\ mpg_mode
       \/ (Due \/ Told) /\ ~mpg_mode

\* What a step does to the round: nothing, or the UART refuses the panel its
\* toggle; or the round begins, goes on or ends.
Advance ==
  \/ /\ (Quiet => Quiet') /\ (Sent => Sent') /\ (Queued => Queued')
     /\ (Due => Due') /\ (Told => Told')
     /\ UNCHANGED <<mpgMode, mpg_mode, mpg_disable_ongoing>>
  \/ Quiet /\ Quiet' /\ UNCHANGED <<mpgMode, mpg_mode>>
  \/ /\ Quiet /\ Sent' /\ (mpg_disable_ongoing' <=> mpgMode)
     /\ UNCHANGED <<mpgMode, mpg_mode>>
  \/ /\ Sent /\ Queued'
     /\ UNCHANGED <<mpgMode, mpg_mode, mpg_disable_ongoing>>
  \/ /\ Queued /\ Due' /\ (mpg_mode => ~mpg_mode')
     /\ UNCHANGED <<mpgMode, mpg_disable_ongoing>>
  \/ /\ Due /\ Told'
     /\ UNCHANGED <<mpgMode, mpg_mode, mpg_disable_ongoing>>
  \/ Told /\ Quiet' /\ UNCHANGED mpg_mode
  \/ powerCycles' # 0

\* Without the MPG button the pendant never asks.
PendantSilent ==
  /\ process_inputs_flag \/ pendant_pc # "loop" => mpg_button = "released"
  /\ pendant_pc \notin {"ask", "disable"}
  /\ pendant_mpg_status = "DISABLED" /\ ~mpg
  /\ uart4_rx # None => ~uart4_rx.mpg

\* Without ENTER the main loop neither asks nor starts a turn-off procedure.
MainSilent ==
  /\ pc \notin {"enCheck", "enSet", "enBusy", "disCheck", "disSet", "disBusy", "turnOff"}
  /\ ~turn_off_mpg

OneAsker ==
  /\ "mpg" \notin Buttons => PendantSilent
  /\ MaxEnters = 0 => MainSilent

LEMMA Lengths ==
  ASSUME NEW S, NEW s \in Seq(S), NEW x \in S
  PROVE  /\ Len(s) \in Nat
         /\ Append(s, x) \in Seq(S) /\ Len(Append(s, x)) = Len(s) + 1
         /\ s # <<>> => /\ Tail(s) \in Seq(S) /\ Len(Tail(s)) = Len(s) - 1
                        /\ Len(s) # 0
OBVIOUS

\* A packet that is sent comes last.
LEMMA TogglesAppend ==
  ASSUME NEW s \in Seq(Pn!Packets), NEW packet \in Pn!Packets
  PROVE  Toggles(Append(s, packet)) =
           Toggles(s) \cup (IF packet = "toggle" THEN {Len(s) + 1} ELSE {})
<1>1. Len(s) \in Nat /\ DOMAIN s = 1..Len(s) /\ DOMAIN Append(s, packet) = 1..(Len(s) + 1)
  OBVIOUS
<1>2. /\ \A i \in 1..Len(s) : Append(s, packet)[i] = s[i]
      /\ Append(s, packet)[Len(s) + 1] = packet
  OBVIOUS
<1> QED BY <1>1, <1>2 DEF Toggles

\* The packets behind the one that is taken move up.
LEMMA TogglesTail ==
  ASSUME NEW s \in Seq(Pn!Packets), s # <<>>
  PROVE  Toggles(Tail(s)) = {i \in 1..(Len(s) - 1) : i + 1 \in Toggles(s)}
<1>1. Len(s) \in Nat /\ DOMAIN s = 1..Len(s) /\ Len(s) # 0
      /\ Tail(s) \in Seq(Pn!Packets) /\ Len(Tail(s)) = Len(s) - 1
  OBVIOUS
<1>2. DOMAIN Tail(s) = 1..(Len(s) - 1) BY <1>1
<1>3. \A i \in 1..(Len(s) - 1) : Tail(s)[i] = s[i + 1] BY <1>1, HeadTailProperties
<1> QED BY <1>1, <1>2, <1>3 DEF Toggles

LEMMA HeadToggle ==
  ASSUME NEW s \in Seq(Pn!Packets), s # <<>>
  PROVE  /\ 1 \in Toggles(s) <=> Head(s) = "toggle"
         /\ Toggles(s) \subseteq 1..Len(s) /\ Len(s) \in Nat
BY DEF Toggles

\* At most one toggle: an action leaves their number, a toggle that is taken
\* was the only one.
LEMMA OneToggleTail ==
  ASSUME NEW s \in Seq(Pn!Packets), s # <<>>
  PROVE  /\ Toggles(s) = {} => Head(s) # "toggle" /\ Toggles(Tail(s)) = {}
         /\ (\E i : Toggles(s) = {i}) /\ Head(s) = "toggle" => Toggles(Tail(s)) = {}
         /\ (\E i : Toggles(s) = {i}) /\ Head(s) # "toggle" => \E i : Toggles(Tail(s)) = {i}
<1>1. CASE Toggles(s) = {} BY <1>1, HeadToggle, TogglesTail
<1>2. ASSUME NEW i, Toggles(s) = {i}, Head(s) = "toggle" PROVE Toggles(Tail(s)) = {}
  BY <1>2, HeadToggle, TogglesTail
<1>3. ASSUME NEW i, Toggles(s) = {i}, Head(s) # "toggle" PROVE Toggles(Tail(s)) = {i - 1}
  <2>1. i \in 1..Len(s) /\ i # 1 /\ Len(s) \in Nat BY <1>3, HeadToggle
  <2>2. Toggles(Tail(s)) = {j \in 1..(Len(s) - 1) : j + 1 = i} BY <1>3, TogglesTail
  <2> QED BY <2>1, <2>2
<1> QED BY <1>1, <1>2, <1>3

-----------------------------------------------------------------------------
(* The round, action by action.                                             *)

roundVars == <<mpgMode, mpg_enable_ongoing, mpg_disable_ongoing, uart2_tx,
               uart2_rx, tasks, report_due, mpg_mode, powerCycles>>

LEMMA RoundKept ==
  ASSUME WireTypes, RoundInv, UNCHANGED roundVars,
         pc' = "enSet" => ~mpgMode /\ ~mpg_enable_ongoing,
         pc' \in {"disSet", "exitSet"} => mpgMode /\ ~mpg_disable_ongoing
  PROVE  WireTypes' /\ RoundInv' /\ Advance
<1>1. WireTypes' BY DEF roundVars, WireTypes
<1>2. /\ NoneSent' = NoneSent /\ OneSent' = OneSent /\ Quiet' = Quiet
      /\ Sent' = Sent /\ Queued' = Queued /\ Due' = Due /\ Told' = Told
  BY DEF roundVars, Quiet, Sent, Queued, Due, Told, NoneSent, OneSent
<1>3. RoundInv' BY <1>2 DEF roundVars, RoundInv
<1>4. Advance BY <1>2 DEF roundVars, Advance
<1> QED BY <1>1, <1>3, <1>4

\* A jog, spindle or coolant packet is none of the toggles.
LEMMA ActionSent ==
  ASSUME WireTypes, RoundInv, uart2_tx' = Append(uart2_tx, "action"),
         UNCHANGED <<mpgMode, mpg_enable_ongoing, mpg_disable_ongoing, uart2_rx,
                     tasks, report_due, mpg_mode, powerCycles>>,
         pc' \in {"enSet", "disSet", "exitSet"} => UNCHANGED pc
  PROVE  WireTypes' /\ RoundInv' /\ Advance
<1>1. "action" \in Pn!Packets /\ uart2_tx \in Seq(Pn!Packets)
  BY DEF WireTypes, Pn!Packets
<1>2. uart2_tx' \in Seq(Pn!Packets) /\ Toggles(uart2_tx') = Toggles(uart2_tx)
  BY <1>1, Lengths, TogglesAppend
<1>3. WireTypes' BY <1>2 DEF WireTypes
<1>4. NoneSent' = NoneSent /\ OneSent' = OneSent
  BY <1>2 DEF NoneSent, OneSent
<1>5. /\ Quiet' = Quiet /\ Sent' = Sent /\ Queued' = Queued /\ Due' = Due
      /\ Told' = Told
  BY <1>4 DEF Quiet, Sent, Queued, Due, Told
<1>6. RoundInv' BY <1>5 DEF RoundInv
<1>7. Advance BY <1>5 DEF Advance
<1> QED BY <1>3, <1>6, <1>7

\* A panel that is ready to ask, or to leave, finds nothing underway.
LEMMA ReadyIsQuiet ==
  ASSUME RoundInv,
         \/ ~mpgMode /\ ~mpg_enable_ongoing
         \/ mpgMode /\ ~mpg_disable_ongoing
  PROVE  Quiet /\ ~mpg_enable_ongoing /\ ~mpg_disable_ongoing
BY DEF RoundInv

\* A toggle starts a round.
LEMMA ToggleSent ==
  ASSUME WireTypes, RoundInv, Quiet, uart2_tx' = Append(uart2_tx, "toggle"),
         UNCHANGED <<uart2_rx, tasks, report_due>>
  PROVE  uart2_tx' \in Seq(Pn!Packets) /\ Sent'
<1>1. "toggle" \in Pn!Packets /\ uart2_tx \in Seq(Pn!Packets)
  BY DEF WireTypes, Pn!Packets
<1>2. uart2_tx' \in Seq(Pn!Packets) /\ Toggles(uart2_tx') = {Len(uart2_tx) + 1}
  BY <1>1, Lengths, TogglesAppend DEF Quiet, NoneSent
<1> QED BY <1>2 DEF Quiet, Sent, OneSent

LEMMA EnableStarts ==
  ASSUME WireTypes, RoundInv, ~mpgMode, ~mpg_enable_ongoing,
         mpg_enable_ongoing' = TRUE,
         \/ uart2_tx' = Append(uart2_tx, "toggle") \/ UNCHANGED uart2_tx,
         UNCHANGED <<mpgMode, mpg_disable_ongoing, uart2_rx, tasks, report_due,
                     mpg_mode, powerCycles>>,
         pc' # "enSet", pc' \notin {"disSet", "exitSet"}
  PROVE  WireTypes' /\ RoundInv' /\ Advance
<1>1. Quiet /\ ~mpg_disable_ongoing BY ReadyIsQuiet
<1>2. CASE uart2_tx' = Append(uart2_tx, "toggle")
  <2>1. uart2_tx' \in Seq(Pn!Packets) /\ Sent' BY <1>1, <1>2, ToggleSent
  <2>2. Advance BY <1>1, <2>1 DEF Advance
  <2> QED BY <1>1, <2>1, <2>2 DEF WireTypes, RoundInv
<1>3. CASE UNCHANGED uart2_tx
  <2>1. NoneSent' = NoneSent BY <1>3 DEF NoneSent
  <2>2. Quiet' BY <1>1, <2>1 DEF Quiet
  <2>3. Advance BY <1>1, <2>2 DEF Advance
  <2> QED BY <1>1, <1>3, <2>2, <2>3 DEF WireTypes, RoundInv
<1> QED BY <1>2, <1>3

\* The panel knows the mode when nothing is underway.
LEMMA QuietMode ==
  ASSUME ModeInv, Quiet
  PROVE  /\ uart2_rx = <<>>
         /\ powerCycles = 0 => mpgMode = mpg_mode
<1>1. uart2_rx = <<>> BY EmptySeq DEF ModeInv, ModeTypes, Quiet
<1> QED BY <1>1 DEF Quiet, ModeInv, ModeTypes, WordCurrent, LastWord

LEMMA DisableStarts ==
  ASSUME ModeInv, WireTypes, RoundInv, mpgMode, ~mpg_disable_ongoing,
         mpg_disable_ongoing' = TRUE, uart2_tx' = Append(uart2_tx, "toggle"),
         UNCHANGED <<mpgMode, mpg_enable_ongoing, uart2_rx, tasks, report_due,
                     mpg_mode, powerCycles>>,
         pc' # "enSet", pc' \notin {"disSet", "exitSet"}
  PROVE  WireTypes' /\ RoundInv' /\ Advance
<1>1. Quiet /\ ~mpg_enable_ongoing BY ReadyIsQuiet
<1>2. powerCycles = 0 => mpg_mode BY <1>1, QuietMode
<1>3. uart2_tx' \in Seq(Pn!Packets) /\ Sent' BY <1>1, ToggleSent
<1>4. Advance BY <1>1, <1>3 DEF Advance, ModeInv, ModeTypes
<1> QED BY <1>1, <1>2, <1>3, <1>4 DEF WireTypes, RoundInv

\* The machine takes a packet from the wire.
LEMMA PacketTaken ==
  ASSUME ModeInv, WireTypes, RoundInv, Mc!ReceivePacket,
         UNCHANGED <<mpgMode, mpg_enable_ongoing, mpg_disable_ongoing, pc, powerCycles>>
  PROVE  WireTypes' /\ RoundInv' /\ Advance /\ (Quiet' => Quiet)
<1>1. /\ uart2_tx \in Seq(Pn!Packets) /\ uart2_tx # <<>>
      /\ uart2_tx' = Tail(uart2_tx) /\ tasks \in Seq(Mc!Tasks)
      /\ UNCHANGED <<mpg_mode, report_due, uart2_rx>>
  BY DEF WireTypes, Mc!ReceivePacket
<1>2. uart2_tx' \in Seq(Pn!Packets) BY <1>1
<1>3. CASE Head(uart2_tx) # "toggle"
  <2>1. UNCHANGED tasks BY <1>3 DEF Mc!ReceivePacket
  <2>2. (NoneSent => NoneSent') /\ (OneSent => OneSent')
    BY <1>1, <1>3, OneToggleTail DEF NoneSent, OneSent
  <2>3. /\ (Quiet => Quiet') /\ (Sent => Sent') /\ (Queued => Queued')
        /\ (Due => Due') /\ (Told => Told')
    BY <1>1, <2>1, <2>2 DEF Quiet, Sent, Queued, Due, Told
  <2>4. Sent' => ~Quiet' BY DEF Sent, Quiet, NoneSent, OneSent
  <2>5. Quiet' => ~Queued' /\ ~Due' /\ ~Told' BY DEF Quiet, Queued, Due, Told
  <2>6. Quiet' => Quiet BY <2>3, <2>4, <2>5 DEF RoundInv
  <2>7. Advance BY <1>1, <2>3 DEF Advance
  <2> QED BY <1>1, <1>2, <2>1, <2>3, <2>6, <2>7 DEF WireTypes, RoundInv
<1>4. CASE Head(uart2_tx) = "toggle"
  <2>1. Sent
    BY <1>1, <1>4, OneToggleTail DEF NoneSent, RoundInv, Quiet, Queued, Due, Told
  <2>2. \E task \in Mc!Tasks : tasks' = Append(tasks, task)
    BY <1>4, <2>1, TasksAssumption DEF Mc!ReceivePacket, Mc!Tasks, Sent
  <2>3. tasks' \in Seq(Mc!Tasks) /\ Len(tasks') = 1
    BY <1>1, <2>1, <2>2, Lengths DEF Sent
  <2>4. NoneSent' BY <1>1, <1>4, <2>1, OneToggleTail DEF NoneSent, OneSent, Sent
  <2>5. Queued' /\ ~Quiet BY <1>1, <2>1, <2>3, <2>4 DEF Queued, Sent, Quiet, NoneSent, OneSent
  <2>6. ~Due /\ ~Told BY <2>1 DEF Sent, Due, Told
  <2>7. ~Quiet' BY <2>5 DEF Queued, Quiet
  <2>8. Advance BY <1>1, <2>1, <2>5 DEF Advance
  <2> QED BY <1>1, <1>2, <2>1, <2>3, <2>5, <2>6, <2>7, <2>8 DEF WireTypes, RoundInv
<1> QED BY <1>3, <1>4

\* The machine executes the toggle; a disabling one takes it out of MPG mode.
LEMMA TaskDone ==
  ASSUME ModeInv, WireTypes, RoundInv, Mc!ExecuteTask,
         UNCHANGED <<mpgMode, mpg_enable_ongoing, mpg_disable_ongoing, pc, powerCycles>>
  PROVE  WireTypes' /\ RoundInv' /\ Advance /\ (Quiet' => Quiet)
<1>1. /\ tasks \in Seq(Mc!Tasks) /\ tasks # <<>> /\ tasks' = Tail(tasks)
      /\ report_due' /\ UNCHANGED <<uart2_tx, uart2_rx>>
  BY DEF WireTypes, Mc!ExecuteTask, Mc!stream_mpg_enable, Mc!ReportAfter
<1>2. tasks' \in Seq(Mc!Tasks) /\ Len(tasks) # 0 /\ Len(tasks') = Len(tasks) - 1
  BY <1>1
<1>3. Queued BY <1>2 DEF RoundInv, Quiet, Sent, Due, Told
<1>4. NoneSent' BY <1>1, <1>3 DEF Queued, NoneSent
<1>5. Due' BY <1>1, <1>2, <1>3, <1>4 DEF Queued, Due
<1>6. ~Due /\ ~Told /\ ~Quiet BY <1>3 DEF Queued, Due, Told, Quiet
<1>7. mpg_mode => ~mpg_mode'
  BY DEF Mc!ExecuteTask, Mc!stream_mpg_enable
<1>8. ~Quiet' BY <1>5 DEF Due, Quiet
<1>9. Advance BY <1>3, <1>5, <1>7 DEF Advance
<1> QED BY <1>1, <1>2, <1>5, <1>6, <1>7, <1>8, <1>9 DEF WireTypes, RoundInv

LEMMA ReportWritten ==
  ASSUME ModeInv, WireTypes, RoundInv, Mc!Report,
         UNCHANGED <<mpgMode, mpg_enable_ongoing, mpg_disable_ongoing, pc, powerCycles>>
  PROVE  WireTypes' /\ RoundInv' /\ Advance /\ (Quiet' => Quiet)
<1>1. /\ report_due /\ ~report_due' /\ mpg_mode \in BOOLEAN
      /\ uart2_rx \in Seq(BOOLEAN) /\ uart2_rx' = Append(uart2_rx, mpg_mode)
      /\ UNCHANGED <<uart2_tx, tasks, mpg_mode>>
  BY DEF Mc!Report, ModeInv, ModeTypes
<1>2. Due BY <1>1 DEF RoundInv, Quiet, Sent, Queued, Told
<1>3. Len(uart2_rx') = 1 BY <1>1, <1>2, Lengths DEF Due
<1>4. NoneSent' BY <1>1, <1>2 DEF Due, NoneSent
<1>5. Told' BY <1>1, <1>2, <1>3, <1>4 DEF Due, Told
<1>6. ~Sent /\ ~Queued /\ ~Quiet BY <1>2 DEF Due, Sent, Queued, Quiet
<1>7. ~Quiet' BY <1>5 DEF Told, Quiet
<1>8. Advance BY <1>1, <1>2, <1>5 DEF Advance
<1> QED BY <1>1, <1>5, <1>6, <1>7, <1>8 DEF WireTypes, RoundInv

\* The report ends the round, and clears what it was about.
LEMMA ReportEnds ==
  ASSUME ModeInv, WireTypes, RoundInv, Pn!MachineReport,
         UNCHANGED <<tasks, report_due, mpg_mode, powerCycles>>
  PROVE  WireTypes' /\ RoundInv' /\ Advance /\ Quiet' /\ ~mpg_enable_ongoing'
<1>0. uart2_rx \in Seq(BOOLEAN) /\ uart2_rx # <<>> /\ uart2_rx' = Tail(uart2_rx)
  BY DEF Pn!MachineReport, ModeInv, ModeTypes
<1>1. /\ mpgMode' = Head(uart2_rx)
      /\ mpg_enable_ongoing' = (mpg_enable_ongoing /\ mpgMode /\ Head(uart2_rx))
      /\ mpg_disable_ongoing' = (mpg_disable_ongoing /\ Head(uart2_rx))
      /\ UNCHANGED <<pc, uart2_tx>>
  BY DEF Pn!MachineReport, Pn!EnableFlagAfter, Pn!DisableFlagAfter, Pn!mainVars
<1>2. Len(uart2_rx) # 0 /\ Len(uart2_rx') = Len(uart2_rx) - 1 BY <1>0
<1>3. Told BY <1>2 DEF RoundInv, Quiet, Sent, Queued, Due
<1>4. NoneSent' BY <1>1, <1>3 DEF Told, NoneSent
<1>5. Quiet' BY <1>2, <1>3, <1>4 DEF Told, Quiet
<1>6. mpg_enable_ongoing \/ mpg_disable_ongoing
  BY <1>2 DEF RoundInv, Quiet
<1>7. mpg_enable_ongoing' = FALSE BY <1>1 DEF RoundInv
<1>8. Head(uart2_rx) \in BOOLEAN BY <1>0
<1>9. powerCycles = 0 => Head(uart2_rx) = mpg_mode
  <2>1. Head(uart2_rx) = uart2_rx[Len(uart2_rx)] BY <1>0, <1>3 DEF Told
  <2> QED BY <1>0, <1>3, <2>1 DEF Told, ModeInv, ModeTypes, WordCurrent, LastWord
<1>10. ~Sent /\ ~Queued BY <1>2 DEF Sent, Queued
<1>11. powerCycles' = 0 => ~mpg_disable_ongoing'
  BY <1>1, <1>8, <1>9, <1>10 DEF RoundInv
<1>12. pc' # "enSet" /\ pc' \notin {"disSet", "exitSet"}
  BY <1>1, <1>6 DEF RoundInv
<1>13. WireTypes' BY <1>1, <1>7, <1>8 DEF WireTypes
<1>14. mpg_disable_ongoing' => mpgMode' BY <1>1, <1>8
<1>15. Advance BY <1>3, <1>5 DEF Advance
<1> QED BY <1>5, <1>7, <1>11, <1>12, <1>13, <1>14, <1>15 DEF RoundInv

\* A machine that loses its power takes the round with it, except for a
\* report on the wire.
LEMMA PowerEnds ==
  ASSUME ModeInv, WireTypes, RoundInv, MachinePowerCycle
  PROVE  WireTypes' /\ RoundInv' /\ Advance
<1>1. /\ uart2_tx' = <<>> /\ tasks' = <<>> /\ ~report_due'
      /\ powerCycles' # 0
      /\ UNCHANGED <<uart2_rx, mpgMode, mpg_enable_ongoing, mpg_disable_ongoing, pc>>
  BY DEF MachinePowerCycle, Mc!PowerCycle, panelOnly, ModeInv, ModeTypes
<1>0. Advance BY <1>1 DEF Advance
<1>2. /\ uart2_tx' \in Seq(Pn!Packets) /\ tasks' \in Seq(Mc!Tasks) /\ Len(tasks') = 0
      /\ Toggles(uart2_tx') = {}
  <2>1. DOMAIN <<>> = {} /\ <<>> \in Seq(Pn!Packets) /\ <<>> \in Seq(Mc!Tasks)
        /\ Len(<<>>) = 0
    OBVIOUS
  <2> QED BY <1>1, <2>1 DEF Toggles
<1>3. NoneSent' BY <1>2 DEF NoneSent
<1>4. Len(uart2_rx') = 0 \/ Len(uart2_rx') = 1
  BY <1>1 DEF RoundInv, Quiet, Sent, Queued, Due, Told
<1>5. CASE Len(uart2_rx') = 0
  <2>1. Quiet' BY <1>1, <1>2, <1>3, <1>5 DEF Quiet
  <2> QED BY <1>0, <1>1, <1>2, <2>1 DEF WireTypes, RoundInv
<1>6. CASE Len(uart2_rx') = 1
  <2>1. Told' BY <1>1, <1>2, <1>3, <1>6 DEF Told
  <2>2. ~Quiet BY <1>1, <1>6 DEF Quiet
  <2> QED BY <1>0, <1>1, <1>2, <2>1, <2>2 DEF WireTypes, RoundInv
<1> QED BY <1>4, <1>5, <1>6

-----------------------------------------------------------------------------
(* The one that does not ask.                                               *)

pendantStatus == <<pendant_status, pendant_mpg_status, mpg>>

LEMMA PendantStaysSilent ==
  ASSUME "mpg" \notin Buttons, PendantSilent, [Next]_vars
  PROVE  PendantSilent'
<1>1. CASE PanelTick \/ PanelCallback \/ PanelMain \/ PanelEnter \/ MachineStep
             \/ LoseFrame \/ MachinePowerCycle \/ UNCHANGED vars
  <2>1. UNCHANGED pendantOnly
    BY <1>1 DEF PanelTick, PanelCallback, PanelMain, PanelEnter, MachineStep,
                LoseFrame, MachinePowerCycle, vars
  <2>2. UNCHANGED uart4_rx \/ uart4_rx' = None
    BY <1>1
    DEF PanelTick, PanelCallback, PanelMain, PanelEnter, MachineStep, LoseFrame,
        MachinePowerCycle, vars, wireVars, Pn!TIM1_UP_IRQHandler, Pn!PendantAnswer,
        Pn!MachineReport, Pn!PollMain, Pn!PollAuto, Pn!PollBack, Pn!PollManual,
        Pn!MainStep, Pn!EnableCheck, Pn!EnableSend, Pn!DisableCheck, Pn!DisableSend,
        Pn!TransmitDone, Pn!StartTurnOff, Pn!ManualActions, Pn!JogButtons,
        Pn!ExitSubmenu, Pn!mainOnly, Pn!mainStep
  <2> QED BY <2>1, <2>2 DEF pendantOnly, PendantSilent
<1>2. CASE PendantInterrupt
  <2>1. CASE Pd!TIM4_IRQHandler
    BY <1>2, <2>1
    DEF PendantInterrupt, Pd!TIM4_IRQHandler, Pd!statusVars, Pd!wireVars, Pd!Turn,
        Pd!ReceiveRequest, Pd!pollVars, Pd!inputVars, PendantSilent
  <2>2. CASE Pd!Turn
    BY <2>2 DEF Pd!Turn, Pd!statusVars, Pd!wireVars, Pd!pollVars, Pd!inputVars,
                PendantSilent
  <2>3. CASE Pd!ReceiveRequest
    <3>1. ~mpg' /\ pendant_mpg_status' = "DISABLED"
      BY <2>3 DEF Pd!ReceiveRequest, Pd!RequestOn, Pd!RequestOff, Pd!GrantAfter,
                  Pd!Claims, Pd!Confirms, PendantSilent
    <3>2. uart4_rx'.mpg = mpg' BY <2>3 DEF Pd!ReceiveRequest
    <3> QED BY <2>3, <3>1, <3>2
      DEF Pd!ReceiveRequest, Pd!pollVars, Pd!inputVars, PendantSilent
  <2> QED BY <1>2, <2>1, <2>2, <2>3 DEF PendantInterrupt
<1>3. CASE PendantMain
  <2> USE DEF PendantSilent, Pd!statusVars, Pd!wireVars, Pd!inputVars
  <2>1. CASE Pd!MainLoop BY <2>1 DEF Pd!MainLoop
  <2>2. CASE Pd!PollButton BY <2>2 DEF Pd!PollButton
  <2>3. CASE Pd!ToggleStatus BY <2>3 DEF Pd!ToggleStatus
  <2>4. CASE Pd!TestGrant BY <2>4 DEF Pd!TestGrant
  <2>5. CASE Pd!MoveEncoder BY <2>5 DEF Pd!MoveEncoder
  <2>6. CASE Pd!ShowLeds BY <2>6 DEF Pd!ShowLeds
  <2> QED BY <1>3, <2>1, <2>2, <2>3, <2>4, <2>5, <2>6 DEF PendantMain, Pd!MainStep
<1> QED BY <1>1, <1>2, <1>3 DEF Next

\* Presses and faults are counted up to their bounds.
BudgetsKept ==
  enters \in 0..MaxEnters /\ losses \in 0..MaxLosses /\ powerCycles \in 0..MaxPowerCycles

LEMMA BudgetsStep ==
  ASSUME BudgetsKept, [Next]_vars
  PROVE  BudgetsKept'
<1>1. {MaxEnters, MaxLosses, MaxPowerCycles} \subseteq Nat
  BY FaultAssumption DEF FaultAssumption
<1>2. \/ UNCHANGED enters \/ (enters < MaxEnters /\ enters' = enters + 1)
  BY DEF Next, vars, PanelTick, PanelCallback, PanelMain, PanelEnter,
         PendantInterrupt, PendantMain, MachineStep, LoseFrame, MachinePowerCycle,
         budgetVars
<1>3. \/ UNCHANGED losses \/ (losses < MaxLosses /\ losses' = losses + 1)
  BY DEF Next, vars, PanelTick, PanelCallback, PanelMain, PanelEnter,
         PendantInterrupt, PendantMain, MachineStep, LoseFrame, MachinePowerCycle,
         budgetVars
<1>4. \/ UNCHANGED powerCycles
      \/ (powerCycles < MaxPowerCycles /\ powerCycles' = powerCycles + 1)
  BY DEF Next, vars, PanelTick, PanelCallback, PanelMain, PanelEnter,
         PendantInterrupt, PendantMain, MachineStep, LoseFrame, MachinePowerCycle,
         budgetVars
<1> QED BY <1>1, <1>2, <1>3, <1>4 DEF BudgetsKept

\* Without a press of ENTER the menu only polls and goes on to its actions.
LEMMA MainStaysSilent ==
  ASSUME MaxEnters = 0, BudgetsKept, MainSilent, [Next]_vars
  PROVE  MainSilent'
<1> USE DEF MainSilent
<1>1. ~PanelEnter
  <2>1. PanelEnter => enters < MaxEnters BY DEF PanelEnter
  <2> QED BY <2>1 DEF BudgetsKept
<1>2. CASE PanelTick \/ PendantInterrupt \/ PendantMain \/ MachineStep \/ LoseFrame
             \/ MachinePowerCycle \/ UNCHANGED vars
  BY <1>2
  DEF PanelTick, Pn!TIM1_UP_IRQHandler, Pn!mainVars, Pn!controlVars,
      PendantInterrupt, PendantMain, MachineStep, LoseFrame, MachinePowerCycle,
      vars, panelOnly
<1>3. CASE PanelCallback
  BY <1>3
  DEF PanelCallback, Pn!PendantAnswer, Pn!AnswerDropped, Pn!AnswerDuringTurnOff,
      Pn!AnswerProcessed, Pn!MachineReport, Pn!mainVars, Pn!controlVars
<1>4. CASE PanelMain
  <2> USE DEF Pn!mainOnly, Pn!mainStep, Pn!controlVars
  <2>1. CASE Pn!PollMain BY <2>1 DEF Pn!PollMain
  <2>2. CASE Pn!PollAuto BY <2>2 DEF Pn!PollAuto
  <2>3. CASE Pn!PollBack BY <2>3 DEF Pn!PollBack
  <2>4. CASE Pn!PollManual(FALSE) BY <2>4 DEF Pn!PollManual
  <2>5. CASE Pn!EnableCheck \/ Pn!EnableSend \/ Pn!StartTurnOff
    BY <2>5 DEF Pn!EnableCheck, Pn!EnableSend, Pn!StartTurnOff
  <2>6. CASE Pn!DisableCheck BY <2>6 DEF Pn!DisableCheck
  <2>7. CASE Pn!DisableSend BY <2>7 DEF Pn!DisableSend
  <2>8. CASE Pn!TransmitDone
    BY <2>8 DEF Pn!TransmitDone, Pn!AfterTransmit, Pn!Transmitting
  <2>9. CASE Pn!ManualActions BY <2>9 DEF Pn!ManualActions
  <2>10. CASE Pn!JogButtons BY <2>10 DEF Pn!JogButtons
  <2>11. CASE Pn!ExitSubmenu BY <2>11 DEF Pn!ExitSubmenu
  <2> QED
    BY <1>4, <2>1, <2>2, <2>3, <2>4, <2>5, <2>6, <2>7, <2>8, <2>9, <2>10, <2>11
    DEF PanelMain, Pn!MainStep
<1> QED BY <1>1, <1>2, <1>3, <1>4 DEF Next

LEMMA OneAskerStep ==
  ASSUME OneAsker, BudgetsKept, [Next]_vars
  PROVE  OneAsker'
BY PendantStaysSilent, MainStaysSilent DEF OneAsker, BudgetsKept

LEMMA OneAskerInit == Init => OneAsker /\ BudgetsKept
BY FaultAssumption DEF FaultAssumption, Init, Pn!Init, Pd!Init, OneAsker, PendantSilent, MainSilent, BudgetsKept

-----------------------------------------------------------------------------
(* The round is kept by every step.                                         *)

LEMMA AnswerRound ==
  ASSUME AsksOneWay, OneAsker, WireTypes, RoundInv, PanelCallback, Pn!PendantAnswer
  PROVE  WireTypes' /\ RoundInv' /\ Advance
<1>1. UNCHANGED <<pc, uart2_rx, tasks, report_due, mpg_mode, powerCycles>>
  BY DEF PanelCallback, Pn!PendantAnswer, Pn!mainVars, machineOnly, budgetVars
<1>2. CASE Pn!AskMachine /\ uart4_rx.mpg
  <2>1. MaxEnters = 0
    BY <1>2 DEF AsksOneWay, OneAsker, PendantSilent, Pn!PendantAnswer
  <2>2. ~mpgMode /\ ~mpg_enable_ongoing /\ mpg_enable_ongoing' = TRUE
        /\ UNCHANGED <<mpgMode, mpg_disable_ongoing>>
        /\ (uart2_tx' = Append(uart2_tx, "toggle") \/ UNCHANGED uart2_tx)
    BY <1>2 DEF Pn!AskMachine, Pn!HandlerTransmit, Pn!MainTransmit
  <2>3. pc' # "enSet" BY <1>1, <2>1 DEF OneAsker, MainSilent
  <2>4. pc' \notin {"disSet", "exitSet"} BY <1>1, <2>2 DEF RoundInv
  <2> QED BY <1>1, <2>2, <2>3, <2>4, EnableStarts
<1>3. CASE UNCHANGED Pn!modeVars /\ UNCHANGED uart2_tx
  <2>1. UNCHANGED roundVars BY <1>1, <1>3 DEF Pn!modeVars, roundVars
  <2> QED BY <1>1, <2>1, RoundKept DEF RoundInv
<1>4. CASE UNCHANGED Pn!modeVars /\ uart2_tx' = Append(uart2_tx, "action")
  BY <1>1, <1>4, ActionSent DEF Pn!modeVars
<1>5. ASSUME Pn!process_pendant_data_to_action
      PROVE  \/ Pn!AskMachine /\ uart4_rx.mpg
             \/ UNCHANGED Pn!modeVars /\ UNCHANGED uart2_tx
             \/ UNCHANGED Pn!modeVars /\ uart2_tx' = Append(uart2_tx, "action")
  BY <1>5 DEF Pn!process_pendant_data_to_action, Pn!pendant_data_to_action,
              Pn!HandlerTransmit, Pn!MainTransmit
<1> QED
  BY <1>2, <1>3, <1>4, <1>5
  DEF Pn!PendantAnswer, Pn!AnswerDropped, Pn!AnswerDuringTurnOff, Pn!AnswerProcessed

LEMMA MainRound ==
  ASSUME ModeInv, WireTypes, RoundInv, PanelMain \/ PanelEnter
  PROVE  WireTypes' /\ RoundInv' /\ Advance
<1>1. UNCHANGED <<tasks, report_due, mpg_mode, powerCycles>>
  BY DEF PanelMain, PanelEnter, machineOnly, budgetVars
<1>2. ASSUME UNCHANGED Pn!modeVars, UNCHANGED <<uart2_tx, uart2_rx>>,
             pc' = "enSet" => ~mpgMode /\ ~mpg_enable_ongoing,
             pc' \in {"disSet", "exitSet"} => mpgMode /\ ~mpg_disable_ongoing
      PROVE  WireTypes' /\ RoundInv' /\ Advance
  <2>1. UNCHANGED roundVars BY <1>1, <1>2 DEF Pn!modeVars, roundVars
  <2> QED BY <1>2, <2>1, RoundKept
<1>3. CASE Pn!PollMain \/ Pn!PollAuto \/ Pn!PollBack
             \/ \E pressed \in BOOLEAN : Pn!PollManual(pressed)
  <2>1. UNCHANGED Pn!modeVars /\ UNCHANGED <<uart2_tx, uart2_rx>>
    BY <1>3 DEF Pn!PollMain, Pn!PollAuto, Pn!PollBack, Pn!PollManual, Pn!mainOnly
  <2>2. pc' # "enSet" /\ pc' \notin {"disSet", "exitSet"}
    BY <1>3 DEF Pn!PollMain, Pn!PollAuto, Pn!PollBack, Pn!PollManual, Pn!MenuDue
  <2> QED BY <1>2, <2>1, <2>2
<1>4. CASE Pn!EnableCheck
  BY <1>2, <1>4 DEF Pn!EnableCheck, Pn!mainStep, Pn!mainOnly
<1>5. CASE Pn!DisableCheck
  BY <1>2, <1>5 DEF Pn!DisableCheck, Pn!MayDisable, Pn!mainStep, Pn!mainOnly
<1>6. CASE Pn!TransmitDone
  <2>1. pc' # "enSet" /\ pc' \notin {"disSet", "exitSet"}
    BY <1>6 DEF Pn!TransmitDone, Pn!AfterTransmit, Pn!Transmitting
  <2> QED BY <1>2, <1>6, <2>1 DEF Pn!TransmitDone, Pn!mainStep, Pn!mainOnly
<1>7. CASE Pn!StartTurnOff
  BY <1>2, <1>7 DEF Pn!StartTurnOff, Pn!mainStep, Pn!mainOnly
<1>8. CASE Pn!ManualActions
  BY <1>2, <1>8 DEF Pn!ManualActions, Pn!mainStep, Pn!mainOnly
<1>9. CASE Pn!ExitSubmenu
  BY <1>2, <1>9 DEF Pn!ExitSubmenu
<1>10. CASE Pn!JogButtons
  <2>1. CASE UNCHANGED uart2_tx
    BY <1>2, <1>10, <2>1 DEF Pn!JogButtons, Pn!mainStep, Pn!mainOnly
  <2>2. CASE uart2_tx' = Append(uart2_tx, "action")
    BY <1>1, <1>10, <2>2, ActionSent
    DEF Pn!JogButtons, Pn!mainStep, Pn!mainOnly, Pn!modeVars
  <2> QED BY <1>10, <2>1, <2>2 DEF Pn!JogButtons, Pn!MainTransmit
<1>11. CASE Pn!EnableSend
  <2>1. ~mpgMode /\ ~mpg_enable_ongoing BY <1>11 DEF Pn!EnableSend, RoundInv
  <2> QED BY <1>1, <1>11, <2>1, EnableStarts
    DEF Pn!EnableSend, Pn!MainTransmit, Pn!mainStep, Pn!mainOnly
<1>12. CASE Pn!DisableSend
  <2>1. mpgMode /\ ~mpg_disable_ongoing BY <1>12 DEF Pn!DisableSend, RoundInv
  <2>2. pc' \in {"disBusy", "exitBusy"} BY <1>12 DEF Pn!DisableSend
  <2> QED BY <1>1, <1>12, <2>1, <2>2, DisableStarts
    DEF Pn!DisableSend, Pn!MainTransmit, Pn!mainStep, Pn!mainOnly
<1> QED
  BY <1>3, <1>4, <1>5, <1>6, <1>7, <1>8, <1>9, <1>10, <1>11, <1>12
  DEF PanelMain, PanelEnter, Pn!MainStep

LEMMA RoundStep ==
  ASSUME AsksOneWay, OneAsker, ModeInv, WireTypes, RoundInv, [Next]_vars
  PROVE  WireTypes' /\ RoundInv' /\ Advance
<1>1. CASE PanelTick \/ PendantInterrupt \/ PendantMain \/ LoseFrame \/ UNCHANGED vars
  <2>1. UNCHANGED <<pc, roundVars>>
    BY <1>1
    DEF PanelTick, Pn!TIM1_UP_IRQHandler, Pn!mainVars, Pn!modeVars, PendantInterrupt,
        PendantMain, LoseFrame, vars, panelOnly, wireVars, machineOnly, budgetVars,
        roundVars
  <2> QED BY <2>1, RoundKept DEF RoundInv
<1>2. CASE PanelCallback
  <2>1. UNCHANGED <<tasks, report_due, mpg_mode, powerCycles>>
    BY <1>2 DEF PanelCallback, machineOnly, budgetVars
  <2> QED BY <1>2, <2>1, AnswerRound, ReportEnds DEF PanelCallback
<1>3. CASE PanelMain \/ PanelEnter BY <1>3, MainRound
<1>4. CASE MachineStep
  <2>1. UNCHANGED <<mpgMode, mpg_enable_ongoing, mpg_disable_ongoing, pc, powerCycles>>
    BY <1>4 DEF MachineStep, panelOnly, budgetVars
  <2> QED BY <1>4, <2>1, PacketTaken, TaskDone, ReportWritten DEF MachineStep
<1>5. CASE MachinePowerCycle BY <1>5, PowerEnds
<1> QED BY <1>1, <1>2, <1>3, <1>4, <1>5 DEF Next

LEMMA RoundInit == Init => WireTypes /\ RoundInv
<1>1. DOMAIN <<>> = {} /\ <<>> \in Seq(Pn!Packets) /\ <<>> \in Seq(Mc!Tasks)
      /\ Len(<<>>) = 0
  OBVIOUS
<1>2. SUFFICES ASSUME Init PROVE WireTypes /\ RoundInv OBVIOUS
<1>3. Quiet BY <1>1, <1>2 DEF Init, Pn!Init, Mc!Init, Quiet, NoneSent, Toggles
<1> QED BY <1>1, <1>2, <1>3 DEF Init, Pn!Init, Mc!Init, WireTypes, RoundInv

AskInv == OneAsker /\ BudgetsKept /\ WireTypes /\ RoundInv

LEMMA AskInvariant ==
  ASSUME AsksOneWay
  PROVE  Spec => [](ModeInv /\ AskInv)
<1>1. Init => AskInv BY OneAskerInit, RoundInit DEF AskInv
<1>2. ModeInv /\ AskInv /\ [Next]_vars => AskInv'
  BY OneAskerStep, BudgetsStep, RoundStep DEF AskInv
<1> QED BY <1>1, <1>2, ModeInvariant, PTL DEF Spec

-----------------------------------------------------------------------------
\* Places and numbers of toggles.
LEMMA TogglesCounted ==
  ASSUME WireTypes
  PROVE  /\ Quiet \/ Due \/ Told => TogglesUnderway = 0
         /\ Sent \/ Queued => TogglesUnderway = 1
         /\ RoundInv /\ ModeInv /\ MachineQuiet => Quiet
<1>1. /\ NoneSent => Cardinality(Toggles(uart2_tx)) = 0
      /\ OneSent => Cardinality(Toggles(uart2_tx)) = 1
  BY FS_EmptySet, FS_Singleton DEF NoneSent, OneSent
<1>2. Len(tasks) \in Nat BY DEF WireTypes
<1>3. Quiet \/ Due \/ Told => TogglesUnderway = 0
  BY <1>1, <1>2 DEF TogglesUnderway, Quiet, Due, Told
<1>4. Sent \/ Queued => TogglesUnderway = 1
  <2>1. Sent => Cardinality(Toggles(uart2_tx)) = 1 /\ Len(tasks) = 0
    BY <1>1 DEF Sent
  <2>2. Queued => Cardinality(Toggles(uart2_tx)) = 0 /\ Len(tasks) = 1
    BY <1>1 DEF Queued
  <2>3. CASE Sent BY <2>1, <2>3 DEF TogglesUnderway
  <2>4. CASE Queued BY <2>2, <2>4 DEF TogglesUnderway
  <2> QED BY <2>3, <2>4
<1>5. ASSUME RoundInv, ModeInv, MachineQuiet PROVE Quiet
  <2>1. Len(uart2_rx) = 0 BY <1>5, EmptySeq DEF MachineQuiet, ModeInv, ModeTypes
  <2>2. ~Sent /\ ~Queued BY <1>4, <1>5 DEF MachineQuiet
  <2> QED BY <1>5, <2>1, <2>2 DEF RoundInv, Due, Told, MachineQuiet
<1> QED BY <1>3, <1>4, <1>5

\* One toggle at a time: a panel that asks in one way only never has a second
\* underway, which would undo the first.
THEOREM OneToggleAtATime ==
  ASSUME AsksOneWay
  PROVE  Spec => []OneToggle
<1>1. AskInv => OneToggle BY TogglesCounted DEF AskInv, RoundInv, OneToggle
<1> QED BY <1>1, AskInvariant, PTL

\* It never tries to enter and to leave MPG mode at the same time.
THEOREM OneDirectionAtATime ==
  ASSUME AsksOneWay
  PROVE  Spec => []OneDirection
<1>1. AskInv => OneDirection BY DEF AskInv, RoundInv, OneDirection
<1> QED BY <1>1, AskInvariant, PTL

LEMMA StagesExclude == Quiet => ~Sent /\ ~Queued /\ ~Due /\ ~Told
<1>1. NoneSent => ~OneSent
  <2>1. SUFFICES ASSUME NoneSent, NEW i, Toggles(uart2_tx) = {i} PROVE FALSE
    BY DEF OneSent
  <2> QED BY <2>1, i \in {i} DEF NoneSent
<1> HIDE DEF NoneSent, OneSent
<1> QED BY <1>1 DEF Quiet, Sent, Queued, Due, Told

\* With the machine under power an attempt to leave that is noted has an
\* answer coming.
THEOREM DisableIsUnderway ==
  ASSUME AsksOneWay
  PROVE  Spec => []DisableMeansUnderway
<1>1. ModeInv /\ AskInv => DisableMeansUnderway
  <2>1. SUFFICES ASSUME ModeInv, AskInv, PowerKept, mpg_disable_ongoing
                 PROVE  ~MachineQuiet
    BY DEF DisableMeansUnderway
  <2>2. ~Quiet
    BY <2>1, StagesExclude DEF AskInv, RoundInv, PowerKept
  <2> QED BY <2>1, <2>2, TogglesCounted DEF AskInv
<1> QED BY <1>1, AskInvariant, PTL

\* While the panel is disabling MPG mode, a machine that keeps its power does
\* not enter it.
THEOREM DisablingNeverEnables ==
  ASSUME AsksOneWay, MaxPowerCycles = 0
  PROVE  Spec => DisableNeverEnables
<1>1. ModeInv /\ AskInv /\ [Next]_vars
        => [mpg_disable_ongoing /\ ~mpg_mode => ~mpg_mode']_vars
  <2>1. SUFFICES ASSUME ModeInv, AskInv, [Next]_vars, mpg_disable_ongoing, ~mpg_mode,
                        mpg_mode'
                 PROVE  FALSE
    OBVIOUS
  <2>2. Mc!ExecuteTask
    BY <2>1, ModeStep, TickKeepsMode, AnswerKeepsMode, MainKeepsMode, PendantKeepsMode
    DEF Next, modeWires, PanelCallback, MachineStep, MachinePowerCycle,
        Mc!ReceivePacket, Mc!Report, Mc!PowerCycle, machineOnly, vars
  <2>3. Len(tasks) # 0
    BY <2>1, <2>2 DEF Mc!ExecuteTask, AskInv, WireTypes
  <2>4. powerCycles = 0 BY <2>1 DEF AskInv, BudgetsKept
  <2>5. mpg_mode BY <2>1, <2>3, <2>4 DEF AskInv, RoundInv, Due, Told
  <2> QED BY <2>1, <2>5
<1> QED BY <1>1, AskInvariant, PTL DEF Spec, DisableNeverEnables

-----------------------------------------------------------------------------
(* The toggles implement commands.  Each place of the round is a stage of    *)
(* the one command underway, and each advance a step of it.                  *)

StageFits ==
  /\ Quiet  => stage = "idle"
  /\ Sent   => stage = "sent"
  /\ Queued => stage = "received"
  /\ Due    => stage = "executed"
  /\ Told   => stage = "answered"

LEMMA StageIs == ModeInv /\ WireTypes => StageFits
<1> SUFFICES ASSUME ModeInv, WireTypes PROVE StageFits OBVIOUS
<1>1. /\ Len(tasks) = 0 <=> tasks = <<>>
      /\ Len(uart2_rx) = 0 <=> uart2_rx = <<>>
  BY EmptySeq DEF ModeInv, ModeTypes, WireTypes
<1>2. OneSent => Toggles(uart2_tx) # {}
  <2>1. SUFFICES ASSUME NEW i, Toggles(uart2_tx) = {i}
                 PROVE  Toggles(uart2_tx) # {}
    BY DEF OneSent
  <2> QED BY <2>1, i \in {i}
<1> QED
  BY <1>1, <1>2 DEF StageFits, stage, Quiet, Sent, Queued, Due, Told, NoneSent

\* The flag tells which way the round goes, and until the machine executes the
\* toggle the panel knows the mode it is in, as it does when the round is over.
ModeFits ==
  /\ ~Quiet => (mpg_disable_ongoing <=> mpgMode)
  /\ Quiet \/ Sent \/ Queued => mpgMode = mpg_mode

LEMMA ModeIs == ModeInv /\ WireTypes /\ RoundInv /\ powerCycles = 0 => ModeFits
<1> SUFFICES ASSUME ModeInv, WireTypes, RoundInv, powerCycles = 0 PROVE ModeFits
  OBVIOUS
<1>1. Len(uart2_rx) = 0 <=> uart2_rx = <<>>
  BY EmptySeq DEF ModeInv, ModeTypes
<1>2. ~Quiet => (mpg_disable_ongoing <=> mpgMode) BY DEF RoundInv
<1>3. Quiet \/ Sent \/ Queued => mpgMode = mpg_mode
  BY <1>1 DEF Quiet, Sent, Queued, ModeInv, ModeTypes, WordCurrent, LastWord
<1> QED BY <1>2, <1>3 DEF ModeFits

CommandInv == RoundInv /\ StageFits /\ ModeFits /\ mpg_mode \in BOOLEAN

LEMMA AdvanceIsCommand ==
  ASSUME CommandInv, CommandInv', powerCycles' = 0, Advance
  PROVE  [Cm!Next]_(Cm!vars)
<1> USE DEF CommandInv, StageFits, ModeFits, command
<1>1. CASE /\ (Quiet => Quiet') /\ (Sent => Sent') /\ (Queued => Queued')
           /\ (Due => Due') /\ (Told => Told')
           /\ UNCHANGED <<mpgMode, mpg_mode, mpg_disable_ongoing>>
  <2>1. UNCHANGED stage BY <1>1 DEF RoundInv
  <2> QED BY <1>1, <2>1 DEF Cm!vars
<1>2. CASE Quiet /\ Quiet' /\ UNCHANGED <<mpgMode, mpg_mode>>
  BY <1>2 DEF Cm!vars
<1>3. CASE /\ Quiet /\ Sent' /\ (mpg_disable_ongoing' <=> mpgMode)
           /\ UNCHANGED <<mpgMode, mpg_mode>>
  <2>1. Cm!Command BY <1>3 DEF Cm!Command
  <2> QED BY <2>1 DEF Cm!Next
<1>4. CASE /\ Sent /\ Queued'
           /\ UNCHANGED <<mpgMode, mpg_mode, mpg_disable_ongoing>>
  <2>1. Cm!Receive BY <1>4 DEF Cm!Receive
  <2> QED BY <2>1 DEF Cm!Next
<1>5. CASE /\ Queued /\ Due' /\ (mpg_mode => ~mpg_mode')
           /\ UNCHANGED <<mpgMode, mpg_disable_ongoing>>
  \* a leave finds the machine in MPG mode, an enter does not
  <2>1. ~Quiet BY <1>5, StagesExclude
  <2>2. mpg_disable_ongoing <=> mpg_mode BY <1>5, <2>1
  <2>3. Cm!Execute BY <1>5, <2>2 DEF Cm!Execute
  <2> QED BY <2>3 DEF Cm!Next
<1>6. CASE /\ Due /\ Told'
           /\ UNCHANGED <<mpgMode, mpg_mode, mpg_disable_ongoing>>
  <2>1. Cm!Answer BY <1>6 DEF Cm!Answer
  <2> QED BY <2>1 DEF Cm!Next
<1>7. CASE Told /\ Quiet' /\ UNCHANGED mpg_mode
  <2>1. Cm!Learn BY <1>7 DEF Cm!Learn
  <2> QED BY <2>1 DEF Cm!Next
<1> QED BY <1>1, <1>2, <1>3, <1>4, <1>5, <1>6, <1>7 DEF Advance

\* The toggles, the flags and the reports do what commands with a direction
\* would: of an operator who has the panel ask in one way only, with the machine
\* under power.
THEOREM TogglesAreCommands ==
  ASSUME AsksOneWay, MaxPowerCycles = 0
  PROVE  Spec => CommandSpec
<1> DEFINE Inv == CommandInv /\ powerCycles = 0
<1>1. ModeInv /\ AskInv => Inv
  <2>1. AskInv => powerCycles = 0 BY DEF AskInv, BudgetsKept
  <2> QED BY <2>1, StageIs, ModeIs DEF AskInv, CommandInv, ModeInv, ModeTypes
<1>2. Init => Cm!Init
  <2>1. SUFFICES ASSUME Init PROVE Cm!Init OBVIOUS
  <2>2. Toggles(uart2_tx) = {}
    BY <2>1 DEF Init, Pn!Init, Toggles
  <2> QED BY <2>1, <2>2 DEF Init, Pn!Init, Mc!Init, Cm!Init, stage, command
<1>3. ModeInv /\ AskInv /\ Inv /\ Inv' /\ [Next]_vars => [Cm!Next]_(Cm!vars)
  BY RoundStep, AdvanceIsCommand DEF AskInv
<1> QED
  BY <1>1, <1>2, <1>3, AskInvariant, PTL DEF Spec, CommandSpec, Cm!Spec

-----------------------------------------------------------------------------
(* MPG mode for good.  When neither ENTER nor BACK is used, MPG mode is      *)
(* never left: what has been granted once stays granted, and everything on   *)
(* the wires can be related to it.                                           *)

NeverLeaves == MaxEnters = 0 /\ "back" \notin Buttons

OnlyToggles == \A i \in DOMAIN uart2_tx : uart2_tx[i] = "toggle"

\* No disabling; and the packets on the wire, the main loop that is about to
\* send them, and a grant, all presuppose the panel's MPG mode.
StaysInv ==
  /\ ~mpg_disable_ongoing
  /\ pc \notin {"exitCheck", "exitSet", "exitBusy", "exit"}
  /\ pc \in {"reportBusy", "jogBusy", "buttons"} => mpgMode
  /\ mpg_status = "ENABLED" => mpgMode
  /\ OnlyToggles \/ mpgMode

LEMMA TailToggles ==
  ASSUME NEW s \in Seq(Pn!Packets), s # <<>>, \A i \in DOMAIN s : s[i] = "toggle"
  PROVE  \A i \in DOMAIN Tail(s) : Tail(s)[i] = "toggle"
<1>1. Len(s) \in Nat /\ DOMAIN s = 1..Len(s) /\ Len(s) # 0
      /\ Tail(s) \in Seq(Pn!Packets) /\ Len(Tail(s)) = Len(s) - 1
  OBVIOUS
<1>2. DOMAIN Tail(s) = 1..(Len(s) - 1) BY <1>1
<1>3. \A i \in 1..(Len(s) - 1) : Tail(s)[i] = s[i + 1] BY <1>1, HeadTailProperties
<1> QED BY <1>1, <1>2, <1>3

LEMMA AppendToggle ==
  ASSUME NEW s \in Seq(Pn!Packets), \A i \in DOMAIN s : s[i] = "toggle"
  PROVE  \A i \in DOMAIN Append(s, "toggle") : Append(s, "toggle")[i] = "toggle"
<1>1. Len(s) \in Nat /\ DOMAIN s = 1..Len(s) /\ DOMAIN Append(s, "toggle") = 1..(Len(s) + 1)
  OBVIOUS
<1>2. /\ \A i \in 1..Len(s) : Append(s, "toggle")[i] = s[i]
      /\ Append(s, "toggle")[Len(s) + 1] = "toggle"
  OBVIOUS
<1> QED BY <1>1, <1>2

\* In MPG mode nothing is underway, so that no report can end it.
LEMMA InModeIsQuiet ==
  ASSUME AskInv, StaysInv, mpgMode
  PROVE  Quiet /\ ~mpg_enable_ongoing
BY ReadyIsQuiet DEF AskInv, StaysInv

LEMMA ReportNotInMode ==
  ASSUME ModeInv, AskInv, StaysInv, Pn!MachineReport
  PROVE  ~mpgMode
<1>1. Len(uart2_rx) # 0 BY DEF Pn!MachineReport, ModeInv, ModeTypes
<1> QED BY <1>1, InModeIsQuiet DEF Quiet

LEMMA StaysInMode ==
  ASSUME NeverLeaves, ModeInv, AskInv, StaysInv, mpgMode, [Next]_vars
  PROVE  mpgMode'
<1>1. CASE Pn!MachineReport BY <1>1, ReportNotInMode
<1>2. CASE ~Pn!MachineReport
  <2>1. UNCHANGED mpgMode
    BY <1>2, TickKeepsMode, AnswerKeepsMode, MainKeepsMode, PendantKeepsMode
    DEF Next, vars, PanelCallback, MachineStep, MachinePowerCycle, panelOnly, modeWires
  <2> QED BY <2>1
<1> QED BY <1>1, <1>2

LEMMA AnswerStays ==
  ASSUME NeverLeaves, AskInv, StaysInv, Pn!PendantAnswer
  PROVE  StaysInv'
<1>1. UNCHANGED pc BY DEF Pn!PendantAnswer, Pn!mainVars
<1>2. uart2_tx \in Seq(Pn!Packets) BY DEF AskInv, WireTypes
<1>3. CASE Pn!AskMachine
  <2>1. /\ mpg_status' = "ENABLE_ONGOING" /\ UNCHANGED <<mpgMode, mpg_disable_ongoing>>
        /\ ~mpgMode
        /\ uart2_tx' = Append(uart2_tx, "toggle") \/ UNCHANGED uart2_tx
    BY <1>3 DEF Pn!AskMachine, Pn!AskStatus, Pn!HandlerTransmit, Pn!MainTransmit
  <2>2. OnlyToggles' BY <1>2, <2>1, AppendToggle DEF StaysInv, OnlyToggles
  <2> QED BY <1>1, <2>1, <2>2 DEF StaysInv
<1>4. CASE ~Pn!AskMachine
  <2>1. UNCHANGED Pn!modeVars
    BY <1>4 DEF Pn!PendantAnswer, Pn!AnswerDropped, Pn!AnswerDuringTurnOff,
                Pn!AnswerProcessed, Pn!process_pendant_data_to_action
  <2>2. mpg_status' = "ENABLED" => mpgMode
    BY <1>4 DEF Pn!PendantAnswer, Pn!AnswerDropped, Pn!AnswerDuringTurnOff,
                Pn!AnswerProcessed, Pn!process_pendant_data_to_action, StaysInv
  <2>3. UNCHANGED uart2_tx \/ mpgMode
    BY <1>4 DEF Pn!PendantAnswer, Pn!AnswerDropped, Pn!AnswerDuringTurnOff,
                Pn!AnswerProcessed, Pn!process_pendant_data_to_action,
                Pn!pendant_data_to_action, StaysInv
  <2> QED BY <1>1, <2>1, <2>2, <2>3 DEF StaysInv, OnlyToggles, Pn!modeVars
<1> QED BY <1>3, <1>4

LEMMA MainStays ==
  ASSUME NeverLeaves, AskInv, StaysInv, PanelMain
  PROVE  StaysInv'
<1>1. MainSilent BY DEF NeverLeaves, AskInv, OneAsker
<1> USE DEF MainSilent, StaysInv, OnlyToggles, Pn!mainOnly, Pn!mainStep, Pn!modeVars
<1>2. CASE Pn!PollMain BY <1>2 DEF Pn!PollMain
<1>3. CASE Pn!PollAuto BY <1>3 DEF Pn!PollAuto
<1>4. CASE Pn!PollManual(FALSE) BY <1>4 DEF Pn!PollManual
<1>5. CASE Pn!EnableCheck \/ Pn!EnableSend \/ Pn!StartTurnOff \/ Pn!DisableCheck
             \/ Pn!DisableSend \/ Pn!ExitSubmenu
  BY <1>1, <1>5 DEF Pn!EnableCheck, Pn!EnableSend, Pn!StartTurnOff, Pn!DisableCheck,
                    Pn!DisableSend, Pn!ExitSubmenu
<1>6. CASE Pn!TransmitDone
  BY <1>1, <1>6 DEF Pn!TransmitDone, Pn!AfterTransmit, Pn!Transmitting
<1>7. CASE Pn!ManualActions BY <1>1, <1>7 DEF Pn!ManualActions
<1>8. CASE Pn!JogButtons BY <1>1, <1>8 DEF Pn!JogButtons
<1> QED
  BY <1>2, <1>3, <1>4, <1>5, <1>6, <1>7, <1>8 DEF PanelMain, Pn!MainStep, NeverLeaves

LEMMA StaysStep ==
  ASSUME NeverLeaves, ModeInv, AskInv, StaysInv, [Next]_vars
  PROVE  StaysInv'
<1>1. CASE PanelTick
  <2>1. ~turn_off_mpg BY DEF NeverLeaves, AskInv, OneAsker, MainSilent
  <2>2. mpg_status' = mpg_status
    BY <1>1, <2>1
    DEF PanelTick, Pn!TIM1_UP_IRQHandler, Pn!TickReset, Pn!TickRequest, Pn!TickCount,
        Pn!TickCheck, Pn!StatusAtTick
  <2> QED BY <1>1, <2>2 DEF PanelTick, Pn!TIM1_UP_IRQHandler, Pn!mainVars, Pn!modeVars,
                            StaysInv, OnlyToggles
<1>2. CASE PanelCallback /\ Pn!PendantAnswer BY <1>2, AnswerStays
<1>3. CASE PanelCallback /\ Pn!MachineReport
  <2>1. ~mpgMode BY <1>3, ReportNotInMode
  <2> QED BY <1>3, <2>1 DEF Pn!MachineReport, Pn!DisableFlagAfter, Pn!mainVars,
                            StaysInv, OnlyToggles
<1>4. CASE PanelMain BY <1>4, MainStays
<1>5. ~PanelEnter
  <2>1. PanelEnter => enters < MaxEnters BY DEF PanelEnter
  <2> QED BY <2>1 DEF NeverLeaves, AskInv, BudgetsKept
<1>6. CASE PendantInterrupt \/ PendantMain \/ LoseFrame \/ UNCHANGED vars
  BY <1>6 DEF PendantInterrupt, PendantMain, LoseFrame, vars, panelOnly, wireVars,
              StaysInv, OnlyToggles
<1>7. CASE MachineStep
  <2>1. UNCHANGED panelOnly BY <1>7 DEF MachineStep
  <2>2. CASE UNCHANGED uart2_tx
    BY <2>1, <2>2 DEF panelOnly, StaysInv, OnlyToggles
  <2>3. CASE uart2_tx # <<>> /\ uart2_tx' = Tail(uart2_tx)
    BY <2>1, <2>3, TailToggles DEF panelOnly, StaysInv, OnlyToggles, AskInv, WireTypes
  <2> QED BY <1>7, <2>2, <2>3 DEF MachineStep, Mc!ReceivePacket, Mc!ExecuteTask, Mc!Report
<1>8. CASE MachinePowerCycle
  <2>1. DOMAIN <<>> = {} OBVIOUS
  <2> QED BY <1>8, <2>1 DEF MachinePowerCycle, Mc!PowerCycle, panelOnly, StaysInv, OnlyToggles
<1> QED BY <1>1, <1>2, <1>3, <1>4, <1>5, <1>6, <1>7, <1>8 DEF Next, PanelCallback

LEMMA StaysInit == Init => StaysInv
<1>1. DOMAIN <<>> = {} OBVIOUS
<1> QED BY <1>1 DEF Init, Pn!Init, Mc!Init, StaysInv, OnlyToggles

LEMMA StaysInvariant ==
  ASSUME NeverLeaves
  PROVE  Spec => [](ModeInv /\ AskInv /\ StaysInv)
<1>1. AsksOneWay BY DEF NeverLeaves, AsksOneWay
<1> QED BY <1>1, StaysInit, StaysStep, AskInvariant, PTL DEF Spec

\* Every action packet reaches a machine that is in MPG mode.
THEOREM ActionsAreHeard ==
  ASSUME NeverLeaves, MaxPowerCycles = 0
  PROVE  Spec => []ActionsHeard
<1>1. ModeInv /\ AskInv /\ StaysInv => ActionsHeard
  <2>1. SUFFICES ASSUME ModeInv, AskInv, StaysInv, uart2_tx # <<>>,
                        Head(uart2_tx) = "action"
                 PROVE  mpg_mode
    BY DEF ActionsHeard
  <2>2. 1 \in DOMAIN uart2_tx /\ uart2_tx[1] = "action"
    BY <2>1 DEF AskInv, WireTypes
  <2>3. mpgMode BY <2>1, <2>2 DEF StaysInv, OnlyToggles
  <2>4. powerCycles = 0 BY <2>1 DEF AskInv, BudgetsKept
  <2> QED BY <2>1, <2>3, <2>4, InModeIsQuiet, QuietMode
<1> QED BY <1>1, StaysInvariant, PTL

-----------------------------------------------------------------------------
(* An attempt to enter MPG mode has an answer coming, as long as the handler *)
(* cannot be refused the UART: when it never asks, or when the main loop     *)
(* transmits in MPG mode only.                                               *)

AskGoesOut == "mpg" \notin Buttons \/ NeverLeaves

EnableHeard == powerCycles = 0 /\ mpg_enable_ongoing => ~Quiet

StaysIfNeverLeaves == NeverLeaves => StaysInv

LEMMA QuietSame ==
  ASSUME UNCHANGED <<uart2_tx, uart2_rx, tasks, report_due>>
  PROVE  Quiet' = Quiet
BY DEF Quiet, NoneSent

LEMMA ActionQuiet ==
  ASSUME WireTypes, uart2_tx' = Append(uart2_tx, "action"),
         UNCHANGED <<uart2_rx, tasks, report_due>>
  PROVE  Quiet' = Quiet
<1>1. "action" \in Pn!Packets /\ uart2_tx \in Seq(Pn!Packets)
  BY DEF WireTypes, Pn!Packets
<1>2. Toggles(uart2_tx') = Toggles(uart2_tx)
  BY <1>1, TogglesAppend
<1> QED BY <1>2 DEF Quiet, NoneSent

LEMMA AnswerHeard ==
  ASSUME AskGoesOut, AskInv, StaysIfNeverLeaves, EnableHeard, PanelCallback,
         Pn!PendantAnswer
  PROVE  EnableHeard'
<1>1. UNCHANGED <<pc, uart2_rx, tasks, report_due, mpg_mode, powerCycles>>
  BY DEF PanelCallback, Pn!PendantAnswer, Pn!mainVars, machineOnly, budgetVars
<1>2. CASE Pn!AskMachine /\ uart4_rx.mpg
  <2>1. NeverLeaves
    BY <1>2 DEF AskGoesOut, AskInv, OneAsker, PendantSilent, Pn!PendantAnswer
  <2>2. ~mpgMode /\ ~mpg_enable_ongoing BY <1>2 DEF Pn!AskMachine
  <2>3. ~Pn!Uart2Busy
    BY <2>1, <2>2 DEF Pn!Uart2Busy, Pn!Transmitting, StaysIfNeverLeaves, StaysInv,
                      AskInv, OneAsker, MainSilent, NeverLeaves
  <2>4. uart2_tx' = Append(uart2_tx, "toggle")
    BY <1>2, <2>3 DEF Pn!AskMachine, Pn!HandlerTransmit, Pn!MainTransmit
  <2>5. Sent' BY <1>1, <2>2, <2>4, ReadyIsQuiet, ToggleSent DEF AskInv
  <2>6. ~Quiet' BY <2>5 DEF Sent, Quiet, OneSent, NoneSent
  <2> QED BY <2>6 DEF EnableHeard
<1>3. CASE UNCHANGED Pn!modeVars /\ UNCHANGED uart2_tx
  BY <1>1, <1>3, QuietSame DEF EnableHeard, Pn!modeVars
<1>4. CASE UNCHANGED Pn!modeVars /\ uart2_tx' = Append(uart2_tx, "action")
  BY <1>1, <1>4, ActionQuiet DEF EnableHeard, Pn!modeVars, AskInv
<1>5. ASSUME Pn!process_pendant_data_to_action
      PROVE  \/ Pn!AskMachine /\ uart4_rx.mpg
             \/ UNCHANGED Pn!modeVars /\ UNCHANGED uart2_tx
             \/ UNCHANGED Pn!modeVars /\ uart2_tx' = Append(uart2_tx, "action")
  BY <1>5 DEF Pn!process_pendant_data_to_action, Pn!pendant_data_to_action,
              Pn!HandlerTransmit, Pn!MainTransmit
<1> QED
  BY <1>2, <1>3, <1>4, <1>5
  DEF Pn!PendantAnswer, Pn!AnswerDropped, Pn!AnswerDuringTurnOff, Pn!AnswerProcessed

LEMMA MainHeard ==
  ASSUME AskInv, EnableHeard, PanelMain \/ PanelEnter
  PROVE  EnableHeard'
<1>1. UNCHANGED <<tasks, report_due, mpg_mode, powerCycles, uart2_rx>>
  BY MainKeepsMode DEF PanelMain, PanelEnter, machineOnly, budgetVars, modeWires
<1>2. CASE UNCHANGED Pn!modeVars /\ UNCHANGED uart2_tx
  BY <1>1, <1>2, QuietSame DEF EnableHeard, Pn!modeVars
<1>3. CASE Pn!JogButtons
  BY <1>1, <1>2, <1>3, ActionQuiet
  DEF Pn!JogButtons, Pn!MainTransmit, EnableHeard, Pn!modeVars, AskInv
<1>4. CASE Pn!EnableSend
  <2>1. Quiet BY <1>4, ReadyIsQuiet DEF Pn!EnableSend, AskInv, RoundInv
  <2>2. Sent' BY <1>1, <1>4, <2>1, ToggleSent DEF Pn!EnableSend, Pn!MainTransmit, AskInv
  <2>3. ~Quiet' BY <2>2 DEF Sent, Quiet, OneSent, NoneSent
  <2> QED BY <2>3 DEF EnableHeard
<1>5. CASE Pn!DisableSend
  <2>1. ~mpg_enable_ongoing BY <1>5, ReadyIsQuiet DEF Pn!DisableSend, AskInv, RoundInv
  <2> QED BY <1>5, <2>1 DEF Pn!DisableSend, EnableHeard
<1> QED
  BY <1>2, <1>3, <1>4, <1>5
  DEF PanelMain, PanelEnter, Pn!PollMain, Pn!PollAuto, Pn!PollBack, Pn!PollManual,
      Pn!MainStep, Pn!EnableCheck, Pn!DisableCheck, Pn!TransmitDone, Pn!StartTurnOff,
      Pn!ManualActions, Pn!ExitSubmenu, Pn!mainStep, Pn!mainOnly

LEMMA HeardStep ==
  ASSUME AskGoesOut, ModeInv, AskInv, StaysIfNeverLeaves, EnableHeard, [Next]_vars
  PROVE  EnableHeard'
<1>1. CASE PanelTick \/ PendantInterrupt \/ PendantMain \/ LoseFrame \/ UNCHANGED vars
  <2>1. UNCHANGED roundVars
    BY <1>1
    DEF PanelTick, Pn!TIM1_UP_IRQHandler, Pn!mainVars, Pn!modeVars, PendantInterrupt,
        PendantMain, LoseFrame, vars, panelOnly, wireVars, machineOnly, budgetVars,
        roundVars
  <2> QED BY <2>1, QuietSame DEF roundVars, EnableHeard
<1>2. CASE PanelCallback /\ Pn!MachineReport
  <2>1. UNCHANGED <<tasks, report_due, mpg_mode, powerCycles>>
    BY <1>2 DEF PanelCallback, machineOnly, budgetVars
  <2> QED BY <1>2, <2>1, ReportEnds DEF AskInv, EnableHeard
<1>3. CASE MachineStep
  <2>1. UNCHANGED <<mpgMode, mpg_enable_ongoing, mpg_disable_ongoing, pc, powerCycles>>
    BY <1>3 DEF MachineStep, panelOnly, budgetVars
  <2> QED BY <1>3, <2>1, PacketTaken, TaskDone, ReportWritten
    DEF MachineStep, AskInv, EnableHeard
<1>4. CASE MachinePowerCycle
  BY <1>4 DEF MachinePowerCycle, EnableHeard, ModeInv, ModeTypes
<1> QED
  BY <1>1, <1>2, <1>3, <1>4, AnswerHeard, MainHeard DEF Next, PanelCallback

\* With the machine under power an attempt to enter that is noted has an
\* answer coming, which will clear the note.
THEOREM EnableIsUnderway ==
  ASSUME AskGoesOut
  PROVE  Spec => []EnableMeansUnderway
<1>1. AsksOneWay BY DEF AskGoesOut, NeverLeaves, AsksOneWay
<1>2. Init => StaysIfNeverLeaves /\ EnableHeard
  BY StaysInit DEF StaysIfNeverLeaves, EnableHeard, Init, Pn!Init
<1>3. ModeInv /\ AskInv /\ StaysIfNeverLeaves /\ EnableHeard /\ [Next]_vars
        => StaysIfNeverLeaves' /\ EnableHeard'
  BY StaysStep, HeardStep DEF StaysIfNeverLeaves
<1>4. ModeInv /\ AskInv /\ EnableHeard => EnableMeansUnderway
  BY TogglesCounted DEF AskInv, EnableHeard, EnableMeansUnderway, PowerKept
<1> QED BY <1>1, <1>2, <1>3, <1>4, AskInvariant, PTL DEF Spec

-----------------------------------------------------------------------------
(* The grant.  A request carries the panel's mpg_status to the pendant and   *)
(* an answer the pendant's mpg back; one of them at most is on the cable,    *)
(* and what it carries is still so.                                          *)

CableInv ==
  /\ status = entered_manual_mode
  /\ uart4_tx # None => /\ uart4_rx = None
                        /\ uart4_tx.status /\ uart4_tx.mpg = mpg_status
  /\ uart4_tx # None \/ uart4_rx # None =>
       entered_manual_mode /\ counter = DATA_REQUEST_CNT
  /\ uart4_rx # None => uart4_rx.mpg = mpg
  /\ pendant_mpg_status = "ENABLED" => mpg /\ mpg_status = "ENABLED"

LEMMA TickCable ==
  ASSUME MainSilent, CableInv, PanelTick
  PROVE  CableInv'
<1>1. /\ uart4_tx = None /\ uart4_rx = None /\ mpg_status' = mpg_status
      /\ UNCHANGED <<status, entered_manual_mode, uart4_rx, mpg, pendant_mpg_status>>
  BY DEF MainSilent, PanelTick, RoundTripDone, Pn!TIM1_UP_IRQHandler, Pn!TickReset,
         Pn!TickRequest, Pn!TickCount, Pn!TickCheck, Pn!StatusAtTick, Pn!controlVars,
         pendantOnly
<1>2. CASE Pn!TickRequest
  <2>1. /\ uart4_tx' = [status |-> status, mpg |-> mpg_status]
        /\ entered_manual_mode /\ counter' = DATA_REQUEST_CNT
    BY <1>1, <1>2
    DEF Pn!TickRequest, Pn!request_pendant_data, Pn!StatusAtTick, MainSilent
  <2> QED BY <1>1, <2>1 DEF CableInv
<1>3. CASE ~Pn!TickRequest
  <2>1. UNCHANGED uart4_tx
    BY <1>3 DEF PanelTick, Pn!TIM1_UP_IRQHandler, Pn!TickReset, Pn!TickCount, Pn!TickCheck
  <2> QED BY <1>1, <2>1 DEF CableInv
<1> QED BY <1>2, <1>3

\* While the pendant shows its MPG as enabled its answers keep the grant.
LEMMA AnswerCable ==
  ASSUME MainSilent, StaysInv, CableInv, PanelCallback, Pn!PendantAnswer
  PROVE  CableInv'
<1>1. /\ uart4_tx = None /\ uart4_rx # None /\ uart4_rx' = None
      /\ UNCHANGED <<status, entered_manual_mode, uart4_tx, mpg, pendant_mpg_status>>
  BY DEF CableInv, PanelCallback, Pn!PendantAnswer, pendantOnly
<1>2. pendant_mpg_status = "ENABLED" => mpg_status' = "ENABLED"
  <2>1. SUFFICES ASSUME pendant_mpg_status = "ENABLED" PROVE mpg_status' = "ENABLED"
    OBVIOUS
  <2>2. uart4_rx.mpg /\ mpg_status = "ENABLED" /\ mpgMode
    BY <1>1, <2>1 DEF CableInv, StaysInv
  <2>3. UNCHANGED mpg_status \/ mpg_status' = "ENABLED"
    BY <2>2 DEF MainSilent, Pn!PendantAnswer, Pn!AnswerDropped, Pn!AnswerDuringTurnOff,
                Pn!AnswerProcessed, Pn!process_pendant_data_to_action, Pn!AskMachine
  <2> QED BY <2>2, <2>3
<1> QED BY <1>1, <1>2 DEF CableInv

LEMMA MainCable ==
  ASSUME MainSilent, StaysInv, CableInv, PanelMain
  PROVE  CableInv'
<1> USE DEF CableInv, Pn!mainOnly, Pn!mainStep, Pn!controlVars, Pn!cycleVars
<1>1. UNCHANGED <<mpg, pendant_mpg_status>> BY DEF PanelMain, pendantOnly
<1>2. CASE Pn!PollMain \/ Pn!PollAuto \/ Pn!PollBack
  BY <1>1, <1>2 DEF Pn!PollMain, Pn!PollAuto, Pn!PollBack
<1>3. CASE Pn!PollManual(FALSE) BY <1>1, <1>3 DEF Pn!PollManual
<1>4. CASE Pn!EnableCheck \/ Pn!EnableSend \/ Pn!StartTurnOff \/ Pn!ExitSubmenu
  BY <1>4 DEF MainSilent, StaysInv, Pn!EnableCheck, Pn!EnableSend, Pn!StartTurnOff,
              Pn!ExitSubmenu
<1>5. CASE Pn!DisableCheck \/ Pn!DisableSend
  BY <1>5 DEF MainSilent, StaysInv, Pn!DisableCheck, Pn!DisableSend
<1>6. CASE Pn!TransmitDone \/ Pn!ManualActions \/ Pn!JogButtons
  BY <1>1, <1>6 DEF Pn!TransmitDone, Pn!ManualActions, Pn!JogButtons
<1> QED BY <1>2, <1>3, <1>4, <1>5, <1>6 DEF PanelMain, Pn!MainStep

\* The pendant obeys: it is enabled on a request that says so, and one that
\* says anything else does not find it enabled.
LEMMA RequestCable ==
  ASSUME CableInv, PendantInterrupt, Pd!ReceiveRequest
  PROVE  CableInv'
<1>1. /\ uart4_tx.status /\ uart4_tx.mpg = mpg_status
      /\ entered_manual_mode /\ counter = DATA_REQUEST_CNT
      /\ uart4_tx' = None /\ uart4_rx'.mpg = mpg'
      /\ UNCHANGED <<status, entered_manual_mode, counter, mpg_status>>
  BY DEF CableInv, PendantInterrupt, Pd!ReceiveRequest, panelOnly
<1>2. Pd!RequestOn(mpg_status) BY <1>1 DEF Pd!ReceiveRequest
<1>3. pendant_mpg_status' = "ENABLED" => mpg' /\ mpg_status = "ENABLED"
  BY <1>2 DEF CableInv, Pd!RequestOn, Pd!GrantAfter, Pd!Confirms, Pd!Withdraws
<1> QED BY <1>1, <1>3 DEF CableInv

LEMMA CableStep ==
  ASSUME NeverLeaves, AskInv, StaysInv, CableInv, [Next]_vars
  PROVE  CableInv'
<1>1. MainSilent /\ ~PanelEnter
  <2>1. PanelEnter => enters < MaxEnters BY DEF PanelEnter
  <2> QED BY <2>1 DEF NeverLeaves, AskInv, OneAsker, BudgetsKept
<1>2. CASE PanelTick BY <1>1, <1>2, TickCable
<1>3. CASE PanelCallback /\ Pn!PendantAnswer BY <1>1, <1>3, AnswerCable
<1>4. CASE PanelCallback /\ Pn!MachineReport
  BY <1>4 DEF PanelCallback, Pn!MachineReport, Pn!controlVars, Pn!cycleVars, pendantOnly, CableInv
<1>5. CASE PanelMain BY <1>1, <1>5, MainCable
<1>6. CASE PendantInterrupt /\ Pd!ReceiveRequest BY <1>6, RequestCable
<1>7. CASE PendantInterrupt /\ (Pd!TIM4_IRQHandler \/ Pd!Turn)
  BY <1>7 DEF PendantInterrupt, Pd!TIM4_IRQHandler, Pd!Turn, Pd!statusVars, Pd!wireVars,
              panelOnly, CableInv
<1>8. CASE PendantMain
  <2>1. UNCHANGED <<status, entered_manual_mode, counter, mpg_status>>
    BY <1>8 DEF PendantMain, panelOnly
  <2>2. UNCHANGED <<uart4_tx, uart4_rx, mpg>>
        /\ (UNCHANGED pendant_mpg_status \/ pendant_mpg_status' # "ENABLED")
    BY <1>8 DEF PendantMain, Pd!MainStep, Pd!MainLoop, Pd!PollButton, Pd!ToggleStatus,
                Pd!TestGrant, Pd!MoveEncoder, Pd!ShowLeds, Pd!statusVars, Pd!wireVars
  <2> QED BY <2>1, <2>2 DEF CableInv
<1>9. CASE LoseFrame
  BY <1>9 DEF LoseFrame, panelOnly, pendantOnly, CableInv
<1>10. CASE MachineStep \/ MachinePowerCycle \/ UNCHANGED vars
  BY <1>10 DEF MachineStep, MachinePowerCycle, vars, panelOnly, pendantOnly, wireVars,
               CableInv
<1> QED
  BY <1>1, <1>2, <1>3, <1>4, <1>5, <1>6, <1>7, <1>8, <1>9, <1>10
  DEF Next, PanelCallback, PendantInterrupt

LEMMA CableInit == Init => CableInv
BY DEF Init, Pn!Init, Pd!Init, CableInv

LEMMA CableInvariant ==
  ASSUME NeverLeaves
  PROVE  Spec => [](ModeInv /\ AskInv /\ StaysInv /\ CableInv)
BY CableInit, CableStep, StaysInvariant, PTL DEF Spec

\* A pendant that shows its MPG as enabled holds it, and the machine, under
\* power, is in MPG mode.
THEOREM EnabledIsGranted ==
  ASSUME NeverLeaves, MaxPowerCycles = 0
  PROVE  Spec => []EnabledMeansGranted
<1>1. ModeInv /\ AskInv /\ StaysInv /\ CableInv => EnabledMeansGranted
  <2>1. SUFFICES ASSUME ModeInv, AskInv, StaysInv, CableInv,
                        pendant_mpg_status = "ENABLED"
                 PROVE  mpg /\ mpg_mode
    BY DEF EnabledMeansGranted
  <2>2. mpg /\ mpgMode BY <2>1 DEF CableInv, StaysInv
  <2>3. powerCycles = 0 BY <2>1 DEF AskInv, BudgetsKept
  <2> QED BY <2>1, <2>2, <2>3, InModeIsQuiet, QuietMode
<1> QED BY <1>1, CableInvariant, PTL

-----------------------------------------------------------------------------
(* A fresh start.  Requests are paced: since the pendant received the last   *)
(* one a whole pass of process_inputs has been made, and a pass without a    *)
(* grant puts the position back to zero.                                     *)

\* polled says how far that pass is; a pendant that has not been switched on
\* has not begun one.
FreshInv ==
  /\ polled # "repeat"
  /\ ~pendant_status => pendant_pc = "loop" /\ encoder_val = 0 /\ ~mpg /\ polled = "done"
  /\ ~mpg /\ polled = "done" => encoder_val = 0 /\ pendant_pc \notin {"store", "restore"}
  /\ ~mpg /\ polled = "begun" =>
       \/ pendant_pc \in {"button", "ask", "disable", "encoder", "discard"}
       \/ pendant_pc = "leds" /\ encoder_val = 0
  /\ uart4_tx # None => polled = "done"

LEMMA PassFresh ==
  ASSUME FreshInv, PendantMain
  PROVE  FreshInv'
<1> USE DEF FreshInv, Pd!statusVars, Pd!wireVars, Pd!encVars
<1>0. /\ UNCHANGED <<pendant_status, mpg, uart4_tx>>
      /\ polled' = CASE pendant_pc = "loop" /\ polled = "none"   -> "begun"
                     [] pendant_pc' = "loop" /\ polled = "begun" -> "done"
                     [] OTHER -> polled
  BY DEF PendantMain, Pd!MainStep, Pd!MainLoop, Pd!PollButton, Pd!ToggleStatus,
         Pd!TestGrant, Pd!MoveEncoder, Pd!ShowLeds
<1>1. CASE Pd!MainLoop BY <1>0, <1>1 DEF Pd!MainLoop
<1>2. CASE Pd!PollButton BY <1>0, <1>2 DEF Pd!PollButton
<1>3. CASE Pd!ToggleStatus BY <1>0, <1>3 DEF Pd!ToggleStatus
<1>4. CASE Pd!TestGrant BY <1>0, <1>4 DEF Pd!TestGrant
<1>5. CASE Pd!MoveEncoder
  BY <1>0, <1>5 DEF Pd!MoveEncoder, Pd!Store, Pd!Restore, Pd!Discard
<1>6. CASE Pd!ShowLeds BY <1>0, <1>6 DEF Pd!ShowLeds
<1> QED BY <1>1, <1>2, <1>3, <1>4, <1>5, <1>6 DEF PendantMain, Pd!MainStep

LEMMA TickFresh ==
  ASSUME FreshInv, PanelTick
  PROVE  FreshInv'
<1>1. UNCHANGED <<pendant_status, mpg, encoder_val, pendant_pc, polled>>
  BY DEF PanelTick, pendantOnly
<1>2. uart4_tx' # None => polled = "done"
  BY DEF PanelTick, PacedRequest, FreshInv
<1> QED BY <1>1, <1>2 DEF FreshInv

LEMMA InterruptFresh ==
  ASSUME CableInv, FreshInv, PendantInterrupt
  PROVE  FreshInv'
<1>1. CASE Pd!ReceiveRequest
  <2>1. uart4_tx' = None /\ polled' = "none"
    BY <1>1 DEF PendantInterrupt, Pd!ReceiveRequest
  <2>2. pendant_status' BY <1>1 DEF Pd!ReceiveRequest, Pd!RequestOn, CableInv
  <2> QED BY <2>1, <2>2 DEF FreshInv
<1>2. CASE Pd!TIM4_IRQHandler \/ Pd!Turn
  <2>1. UNCHANGED <<pendant_status, mpg, encoder_val, pendant_pc, uart4_tx>>
    BY <1>2 DEF Pd!TIM4_IRQHandler, Pd!Turn, Pd!statusVars, Pd!wireVars, Pd!encVars,
                Pd!pollVars
  <2>2. UNCHANGED polled BY <2>1 DEF PendantInterrupt
  <2> QED BY <2>1, <2>2 DEF FreshInv
<1> QED BY <1>1, <1>2 DEF PendantInterrupt

LEMMA FreshStep ==
  ASSUME NeverLeaves, AskInv, StaysInv, CableInv, FreshInv, [Next]_vars
  PROVE  FreshInv'
<1>1. MainSilent /\ ~PanelEnter
  <2>1. PanelEnter => enters < MaxEnters BY DEF PanelEnter
  <2> QED BY <2>1 DEF NeverLeaves, AskInv, OneAsker, BudgetsKept
<1>2. CASE PanelTick BY <1>1, <1>2, TickFresh
<1>3. CASE PanelCallback \/ PanelMain
  <2>1. UNCHANGED <<pendantOnly, polled>>
    BY <1>1, <1>3 DEF PanelCallback, PaceAfterAnswer, MainSilent, PanelMain
  <2>2. UNCHANGED uart4_tx
    BY <1>1, <1>3
    DEF PanelCallback, Pn!PendantAnswer, Pn!MachineReport, PanelMain, Pn!PollMain,
        Pn!PollAuto, Pn!PollBack, Pn!PollManual, Pn!MainStep, Pn!EnableCheck,
        Pn!EnableSend, Pn!DisableCheck, Pn!DisableSend, Pn!TransmitDone,
        Pn!StartTurnOff, Pn!ManualActions, Pn!JogButtons, Pn!ExitSubmenu, StaysInv
  <2> QED BY <2>1, <2>2 DEF pendantOnly, FreshInv
<1>4. CASE PendantInterrupt BY <1>4, InterruptFresh
<1>5. CASE PendantMain BY <1>5, PassFresh
<1>6. CASE LoseFrame BY <1>6 DEF LoseFrame, pendantOnly, timeVars, FreshInv
<1>7. CASE MachineStep \/ MachinePowerCycle \/ UNCHANGED vars
  BY <1>7 DEF MachineStep, MachinePowerCycle, vars, pendantOnly, timeVars, wireVars,
              FreshInv
<1> QED BY <1>1, <1>2, <1>3, <1>4, <1>5, <1>6, <1>7 DEF Next

GrantInv == ModeInv /\ AskInv /\ StaysInv /\ CableInv /\ FreshInv

LEMMA GrantInit == Init => FreshInv
BY DEF Init, Pn!Init, Pd!Init, FreshInv

LEMMA GrantInvariant ==
  ASSUME NeverLeaves
  PROVE  Spec => []GrantInv
<1>1. ModeInv /\ AskInv /\ StaysInv /\ CableInv /\ FreshInv /\ [Next]_vars => FreshInv'
  BY FreshStep
<1> QED BY <1>1, GrantInit, CableInvariant, PTL DEF Spec, GrantInv

\* The grant comes with a request, which finds the position at zero.
LEMMA GrantsFresh ==
  ASSUME GrantInv, [Next]_vars, ~mpg, mpg'
  PROVE  encoder_val = 0
<1>1. Pd!ReceiveRequest
  BY DEF Next, vars, PanelTick, PanelCallback, PanelMain, PanelEnter, PendantInterrupt,
         PendantMain, MachineStep, LoseFrame, MachinePowerCycle, pendantOnly,
         Pd!TIM4_IRQHandler, Pd!Turn, Pd!MainStep, Pd!MainLoop, Pd!PollButton,
         Pd!ToggleStatus, Pd!TestGrant, Pd!MoveEncoder, Pd!ShowLeds, Pd!statusVars
<1> QED BY <1>1 DEF Pd!ReceiveRequest, GrantInv, FreshInv

\* Whatever was turned before it, a grant starts from position zero; frames
\* may be lost and the machine may lose its power.
THEOREM GrantStartsFresh ==
  ASSUME NeverLeaves
  PROVE  Spec => FreshGrant
<1>1. GrantInv /\ [Next]_vars => [~mpg /\ mpg' => encoder_val = 0]_vars
  BY GrantsFresh
<1> QED BY <1>1, GrantInvariant, PTL DEF Spec, FreshGrant

-----------------------------------------------------------------------------
(* The panel's encoder difference, for every width of the counter and every *)
(* limit up to half of it: the distance turned as long as the counter does  *)
(* not cross zero, and one less than it, backwards, when it does.           *)

Positions == 0..(Modulus - 1)

\* A value within half the counter's range is the signed value of itself.
LEMMA SignedSmall ==
  ASSUME NEW n \in Int, -Near < n, n < Near
  PROVE  Signed(n) = n
<1>1. Near \in Nat /\ 0 < Near /\ 2 * Near <= Modulus /\ Modulus \in Nat \ {0}
  BY NearAssumption, FrameAssumption DEF NearAssumption, FrameAssumption
<1>2. CASE 0 <= n
  <2>1. n % Modulus = n BY <1>1, <1>2
  <2> QED BY <1>1, <1>2, <2>1 DEF Signed
<1>3. CASE n < 0
  <2>1. n % Modulus = n + Modulus BY <1>1, <1>3
  <2> QED BY <1>1, <1>3, <2>1 DEF Signed
<1> QED BY <1>2, <1>3

\* Without a crossing of zero the axis is commanded as far and in the
\* direction the handwheel was turned.
THEOREM DifferenceIsTurn ==
  ASSUME NEW current \in Positions, NEW previous \in Positions,
         Apart(current, previous) < Near
  PROVE  EncoderDiff(current, previous) = Signed(current - previous)
<1>1. current \in Int /\ previous \in Int BY DEF Positions
<1>2. -Near < current - previous /\ current - previous < Near
  BY <1>1, NearAssumption DEF Apart, NearAssumption
<1>3. Signed(current - previous) = current - previous
  BY <1>1, <1>2, SignedSmall
<1> QED BY <1>3 DEF EncoderDiff

\* Turned forward by n over zero, the axis is commanded backward by n - 1.
THEOREM ForwardWrapTurnsBack ==
  ASSUME NEW previous \in Positions,
         NEW n \in 1..(Near - 1), previous + n >= Modulus
  PROVE  EncoderDiff(previous + n - Modulus, previous) = 1 - n
<1>1. previous \in Int /\ n \in Int /\ Near \in Nat /\ 0 < Near /\ 2 * Near <= Modulus
      /\ Modulus \in Nat \ {0}
  BY NearAssumption, FrameAssumption DEF Positions, NearAssumption, FrameAssumption
<1>2. Signed(1 - n) = 1 - n BY <1>1, SignedSmall
<1>3. ~(Apart(previous + n - Modulus, previous) < Near) BY <1>1 DEF Apart
<1>4. ~(previous + n - Modulus > previous) BY <1>1
<1>5. -((Modulus - 1 - previous) + (previous + n - Modulus)) = 1 - n BY <1>1
<1> QED BY <1>2, <1>3, <1>4, <1>5 DEF EncoderDiff

\* Turned backward by n over zero, the axis is commanded backward by n - 1.
THEOREM BackwardWrapFallsShort ==
  ASSUME NEW previous \in Positions,
         NEW n \in 1..(Near - 1), previous < n
  PROVE  EncoderDiff(previous + Modulus - n, previous) = 1 - n
<1>1. previous \in Int /\ n \in Int /\ Near \in Nat /\ 0 < Near /\ 2 * Near <= Modulus
      /\ Modulus \in Nat \ {0}
  BY NearAssumption, FrameAssumption DEF Positions, NearAssumption, FrameAssumption
<1>2. Signed(1 - n) = 1 - n BY <1>1, SignedSmall
<1>3. ~(Apart(previous + Modulus - n, previous) < Near) BY <1>1 DEF Apart
<1>4. previous + Modulus - n > previous BY <1>1
<1>5. -((Modulus - 1 - (previous + Modulus - n)) + previous) = 1 - n BY <1>1
<1> QED BY <1>2, <1>3, <1>4, <1>5 DEF EncoderDiff

-----------------------------------------------------------------------------
(* The movement.  Motion.tla adds variables to the steps of MpgSystem and    *)
(* takes nothing away from them.                                             *)

LEMMA MotionStepIsStep ==
  ASSUME [MotionNext]_motionVars
  PROVE  [Next]_vars
<1>1. CASE TakeAnswer BY <1>1 DEF TakeAnswer, PanelCallback, Next
<1>2. CASE Rest BY <1>2 DEF Rest, Next
<1>3. CASE UNCHANGED motionVars BY <1>3 DEF motionVars
<1> QED BY <1>1, <1>2, <1>3 DEF MotionNext

\* Every behaviour of the chain with its movement is one of the chain, so
\* that whatever is proved of MpgSystem holds of Motion too.
THEOREM MotionImplements == MotionSpec => Spec
<1>1. MotionInit => Init BY DEF MotionInit
<1> QED BY <1>1, MotionStepIsStep, PTL DEF MotionSpec, Spec

\* Under a grant the panel's data is the position it processed last under it;
\* without one it is zero, unless the answer that withdraws the grant is still
\* on the cable and will put it back.
FollowInv ==
  /\ CNT \in Positions /\ encoder_val \in Positions
  /\ uart4_rx # None => uart4_rx.encoder \in Positions
  /\ data \in Positions /\ seen \in Positions
  /\ mpg => data = seen
  /\ ~mpg => seen = 0 /\ (data = 0 \/ uart4_rx # None)

LEMMA Modular ==
  /\ 0 \in Positions
  /\ \A n \in Int : n % Modulus \in Positions
BY FrameAssumption DEF FrameAssumption, Positions

LEMMA PositionsKept ==
  ASSUME CNT \in Positions, encoder_val \in Positions, [Next]_vars
  PROVE  CNT' \in Positions /\ encoder_val' \in Positions
<1>1. CASE UNCHANGED pendantOnly
  BY <1>1 DEF pendantOnly
<1>2. CASE PendantInterrupt
  <2>1. CASE Pd!Turn
    <3>1. PICK step \in {1, Modulus - 1} : CNT' = (CNT + step) % Modulus
      BY <2>1 DEF Pd!Turn
    <3>2. CNT + step \in Int BY FrameAssumption DEF FrameAssumption, Positions
    <3> QED BY <2>1, <3>1, <3>2, Modular DEF Pd!Turn
  <2>2. CASE Pd!TIM4_IRQHandler \/ Pd!ReceiveRequest
    BY <2>2 DEF Pd!TIM4_IRQHandler, Pd!ReceiveRequest, Pd!encVars
  <2> QED BY <1>2, <2>1, <2>2 DEF PendantInterrupt
<1>3. CASE PendantMain
  BY <1>3, Modular
  DEF PendantMain, Pd!MainStep, Pd!MainLoop, Pd!PollButton, Pd!ToggleStatus,
      Pd!TestGrant, Pd!MoveEncoder, Pd!Store, Pd!Restore, Pd!Discard, Pd!ShowLeds,
      Pd!encVars
<1> QED
  BY <1>1, <1>2, <1>3
  DEF Next, vars, PanelTick, PanelCallback, PanelMain, PanelEnter, MachineStep,
      LoseFrame, MachinePowerCycle

\* An answer that is processed leaves data and seen alike; none is dropped.
LEMMA AnswerFollows ==
  ASSUME NeverLeaves, GrantInv, FollowInv, TakeAnswer
  PROVE  FollowInv'
<1>1. /\ uart4_rx # None /\ uart4_rx' = None /\ uart4_rx.mpg = mpg
      /\ uart4_rx.encoder \in Positions /\ UNCHANGED mpg
  BY DEF TakeAnswer, Pn!PendantAnswer, pendantOnly, GrantInv, CableInv, FollowInv
<1>2. Pn!Expected /\ ~turn_off_mpg
  <2>1. entered_manual_mode /\ counter = DATA_REQUEST_CNT
    BY <1>1 DEF GrantInv, CableInv
  <2>2. DATA_REQUEST_CNT \in Nat BY FrameAssumption DEF FrameAssumption
  <2>3. ~turn_off_mpg BY DEF NeverLeaves, GrantInv, AskInv, OneAsker, MainSilent
  <2> QED BY <2>1, <2>2, <2>3 DEF Pn!Expected
<1>3. data' = Kept /\ seen' = Kept BY <1>2 DEF TakeAnswer, Follow
<1>4. Kept \in Positions /\ (~mpg => Kept = 0)
  BY <1>1, Modular DEF Kept, Disregarded
<1>5. CNT' \in Positions /\ encoder_val' \in Positions
  BY PositionsKept DEF FollowInv, TakeAnswer, PanelCallback, Next
<1> QED BY <1>1, <1>3, <1>4, <1>5 DEF FollowInv

\* Every other step: a grant comes when data is zero, and goes with an answer
\* that says so.
LEMMA RestFollows ==
  ASSUME NeverLeaves, MaxLosses = 0, GrantInv, FollowInv, Rest
  PROVE  FollowInv'
<1>1. [Next]_vars BY DEF Rest, Next
<1>2. CNT' \in Positions /\ encoder_val' \in Positions BY <1>1, PositionsKept DEF FollowInv
<1>3. UNCHANGED data /\ seen' = (IF mpg' THEN seen ELSE 0) BY DEF Rest
<1>4. ~LoseFrame
  <2>1. LoseFrame => losses < MaxLosses BY DEF LoseFrame
  <2> QED BY <2>1 DEF GrantInv, AskInv, BudgetsKept
<1>5. CASE PendantInterrupt /\ Pd!ReceiveRequest
  <2>1. uart4_tx # None /\ uart4_rx = None
    BY <1>5 DEF Pd!ReceiveRequest
  <2>2. uart4_rx' = [mpg |-> mpg', encoder |-> encoder_val]
    BY <1>5 DEF Pd!ReceiveRequest
  <2>3. mpg' \in BOOLEAN
    BY <1>5 DEF Pd!ReceiveRequest, Pd!RequestOn, Pd!RequestOff, Pd!GrantAfter, Pd!Claims,
                Pd!Confirms, Pd!Withdraws
  <2>4. uart4_rx' \in Pn!Answer
    BY <2>2, <2>3 DEF Pn!Answer, FollowInv, Positions
  <2>5. uart4_rx' # None BY <2>4, FrameAssumption DEF FrameAssumption
  <2>6. mpg' => data = seen
    BY <2>1 DEF FollowInv
  <2> QED BY <1>2, <1>3, <2>1, <2>2, <2>5, <2>6, Modular DEF FollowInv
<1>6. CASE ~(PendantInterrupt /\ Pd!ReceiveRequest)
  <2>1. UNCHANGED <<uart4_rx, mpg>>
    BY <1>4, <1>6
    DEF Rest, PanelTick, Pn!TIM1_UP_IRQHandler, PanelCallback, Pn!MachineReport,
        PanelMain, PanelEnter, Pn!PollMain, Pn!PollAuto, Pn!PollBack, Pn!PollManual,
        Pn!MainStep, Pn!EnableCheck, Pn!EnableSend, Pn!DisableCheck, Pn!DisableSend,
        Pn!TransmitDone, Pn!StartTurnOff, Pn!ManualActions, Pn!JogButtons,
        Pn!ExitSubmenu, Pn!mainOnly, Pn!mainStep, PendantInterrupt,
        Pd!TIM4_IRQHandler, Pd!Turn, PendantMain, Pd!MainStep, Pd!MainLoop,
        Pd!PollButton, Pd!ToggleStatus, Pd!TestGrant, Pd!MoveEncoder, Pd!ShowLeds,
        Pd!statusVars, Pd!wireVars, MachineStep, MachinePowerCycle, pendantOnly
  <2> QED BY <1>2, <1>3, <2>1, Modular DEF FollowInv
<1> QED BY <1>5, <1>6


\* The position a grant compares the next one with is the last it has seen, so
\* the distance commanded is the distance turned.
LEMMA AnswerMoves ==
  ASSUME GrantInv, FollowInv, TakeAnswer
  PROVE  MovesLikeWheel'
<1>1. CASE jog' = NoJog BY <1>1 DEF NoJog, MovesLikeWheel
<1>2. ASSUME Command(IF Disregarded THEN 0 ELSE EncoderDiff(uart4_rx.encoder, data)),
             Pn!Expected, ~turn_off_mpg
      PROVE  MovesLikeWheel'
  <2>1. /\ uart4_rx # None /\ uart4_rx.mpg = mpg /\ mpg_status' = "ENABLED"
        /\ uart4_rx.encoder \in Positions /\ seen \in Positions
    BY <1>2 DEF TakeAnswer, Pn!PendantAnswer, GrantInv, CableInv, FollowInv, Command
  <2>2. ~Disregarded
    BY <1>2, <2>1
    DEF TakeAnswer, Pn!PendantAnswer, Pn!AnswerDropped, Pn!AnswerDuringTurnOff,
        Pn!AnswerProcessed, Pn!process_pendant_data_to_action, Pn!AskMachine,
        Pn!AskStatus, Disregarded
  <2>3. data = seen BY <2>1, <2>2 DEF Disregarded, FollowInv
  <2>4. /\ jog'.moved = IF Pn!Uart2Busy THEN 0 ELSE EncoderDiff(uart4_rx.encoder, seen)
        /\ jog'.turned = Signed(uart4_rx.encoder - seen)
        /\ jog'.refused = Pn!Uart2Busy
        /\ jog'.jumped = (Apart(uart4_rx.encoder, seen) >= Near)
    BY <1>2, <2>2, <2>3 DEF Command
  <2>5. SUFFICES ASSUME ~jog'.jumped
                 PROVE  jog'.moved = (IF jog'.refused THEN 0 ELSE jog'.turned)
    BY DEF MovesLikeWheel
  <2>6. Apart(uart4_rx.encoder, seen) < Near
    <3>1. ~(Apart(uart4_rx.encoder, seen) >= Near) BY <2>4, <2>5
    <3>2. uart4_rx.encoder \in Int /\ seen \in Int /\ Near \in Int
      BY <2>1, NearAssumption DEF NearAssumption, Positions
    <3> QED BY <3>1, <3>2 DEF Apart
  <2>7. EncoderDiff(uart4_rx.encoder, seen) = Signed(uart4_rx.encoder - seen)
    BY <2>1, <2>6, DifferenceIsTurn
  <2> QED BY <2>4, <2>7
<1> QED BY <1>1, <1>2 DEF TakeAnswer, Follow, Pass

\* As long as no frame is lost an answer moves the axis as far and in the
\* direction the handwheel was turned, for every width of the counter and
\* every limit up to half of it.
THEOREM MovesAsTurned ==
  ASSUME NeverLeaves, MaxLosses = 0
  PROVE  MotionSpec => []MovesLikeWheel
<1>1. MotionInit => FollowInv /\ MovesLikeWheel
  BY Modular DEF MotionInit, Init, Pn!Init, Pd!Init, FollowInv, NoJog, MovesLikeWheel
<1>2. GrantInv /\ FollowInv /\ MovesLikeWheel /\ [MotionNext]_motionVars
        => FollowInv' /\ MovesLikeWheel'
  <2>1. SUFFICES ASSUME GrantInv, FollowInv, MovesLikeWheel, [MotionNext]_motionVars
                 PROVE  FollowInv' /\ MovesLikeWheel'
    OBVIOUS
  <2>2. CASE TakeAnswer BY <2>1, <2>2, AnswerFollows, AnswerMoves
  <2>3. CASE Rest
    <3>1. jog' = NoJog BY <2>3 DEF Rest
    <3> QED BY <2>1, <2>3, <3>1, RestFollows DEF NoJog, MovesLikeWheel
  <2>4. CASE UNCHANGED motionVars
    BY <2>1, <2>4 DEF motionVars, vars, wireVars, pendantOnly, FollowInv, MovesLikeWheel
  <2> QED BY <2>1, <2>2, <2>3, <2>4 DEF MotionNext
<1>3. MotionSpec => []GrantInv BY MotionImplements, GrantInvariant, PTL
<1> QED BY <1>1, <1>2, <1>3, PTL DEF MotionSpec

-----------------------------------------------------------------------------
(* The boards.  Whatever the others and the cables do to a board is a step   *)
(* of the arbitrary neighbour in its module, or none.  What they send has to *)
(* be of the right types for that, and nothing more.                         *)

FrameTypes ==
  /\ status \in BOOLEAN /\ mpg_status \in Pn!MpgStatus
  /\ uart4_tx \in Pn!Request \cup {None}
  /\ CNT \in Positions /\ encoder_val \in Positions

\* A request tells status and mpg_status, or what is left of an older one.
LEMMA RequestSent ==
  ASSUME FrameTypes, NEW new \in Pn!Request, Pn!request_pendant_data(new)
  PROVE  uart4_tx' \in Pn!Request
<1>1. CASE uart4_tx = None BY <1>1 DEF Pn!request_pendant_data
<1>2. CASE uart4_tx # None
  <2>1. uart4_tx \in Pn!Request BY <1>2 DEF FrameTypes
  <2>2. [status |-> uart4_tx.status, mpg |-> new.mpg] \in Pn!Request
    BY <2>1 DEF Pn!Request
  <2> QED BY <1>2, <2>1, <2>2 DEF Pn!request_pendant_data, Pn!Overwritten
<1> QED BY <1>1, <1>2

LEMMA TickFrames ==
  ASSUME FrameTypes, PanelTick
  PROVE  /\ status' \in BOOLEAN /\ mpg_status' \in Pn!MpgStatus
         /\ uart4_tx' \in Pn!Request \cup {None}
<1>1. UNCHANGED status /\ Pn!StatusAtTick \in Pn!MpgStatus
  BY DEF FrameTypes, PanelTick, Pn!TIM1_UP_IRQHandler, Pn!controlVars,
         Pn!StatusAtTick, Pn!MpgStatus
<1>2. CASE Pn!TickReset BY <1>1, <1>2 DEF FrameTypes, Pn!TickReset
<1>3. CASE Pn!TickRequest
  <2>1. [status |-> status, mpg |-> Pn!StatusAtTick] \in Pn!Request
    BY <1>1 DEF FrameTypes, Pn!Request
  <2> QED BY <1>1, <1>3, <2>1, RequestSent DEF FrameTypes, Pn!TickRequest
<1>4. CASE Pn!TickCount BY <1>1, <1>4 DEF FrameTypes, Pn!TickCount
<1>5. CASE Pn!TickCheck BY <1>1, <1>5 DEF FrameTypes, Pn!TickCheck
<1> QED BY <1>2, <1>3, <1>4, <1>5 DEF PanelTick, Pn!TIM1_UP_IRQHandler

LEMMA CallbackFrames ==
  ASSUME FrameTypes, PanelCallback
  PROVE  /\ status' \in BOOLEAN /\ mpg_status' \in Pn!MpgStatus
         /\ UNCHANGED uart4_tx
<1> USE DEF FrameTypes, Pn!MpgStatus
<1>1. CASE Pn!MachineReport BY <1>1 DEF Pn!MachineReport, Pn!controlVars
<1>2. CASE Pn!PendantAnswer
  BY <1>2 DEF Pn!PendantAnswer, Pn!AnswerDropped, Pn!AnswerDuringTurnOff,
     Pn!AnswerProcessed, Pn!process_pendant_data_to_action, Pn!AskMachine,
     Pn!AskStatus
<1> QED BY <1>1, <1>2 DEF PanelCallback

LEMMA MainFrames ==
  ASSUME FrameTypes, PanelMain \/ PanelEnter
  PROVE  /\ status' \in BOOLEAN /\ mpg_status' \in Pn!MpgStatus
         /\ uart4_tx' \in Pn!Request \cup {None}
<1> USE DEF Pn!mainOnly, Pn!mainStep, Pn!controlVars
<1>1. CASE Pn!PollMain \/ Pn!PollAuto \/ Pn!PollBack
             \/ \E pressed \in BOOLEAN : Pn!PollManual(pressed)
  BY <1>1
  DEF FrameTypes, Pn!PollMain, Pn!PollAuto, Pn!PollBack, Pn!PollManual
<1>2. CASE Pn!EnableCheck \/ Pn!EnableSend \/ Pn!DisableCheck \/ Pn!DisableSend
  BY <1>2
  DEF FrameTypes, Pn!EnableCheck, Pn!EnableSend, Pn!DisableCheck, Pn!DisableSend
<1>3. CASE Pn!TransmitDone \/ Pn!StartTurnOff \/ Pn!ManualActions
             \/ Pn!JogButtons
  BY <1>3
  DEF FrameTypes, Pn!TransmitDone, Pn!StartTurnOff, Pn!ManualActions,
      Pn!JogButtons
<1>4. CASE Pn!ExitSubmenu
  <2>1. "DISABLED" \in Pn!MpgStatus BY DEF Pn!MpgStatus
  <2>2. [status |-> FALSE, mpg |-> "DISABLED"] \in Pn!Request
    BY <2>1 DEF Pn!Request
  <2> QED BY <1>4, <2>1, <2>2, RequestSent DEF FrameTypes, Pn!ExitSubmenu
<1> QED BY <1>1, <1>2, <1>3, <1>4 DEF PanelMain, PanelEnter, Pn!MainStep

LEMMA FrameStep ==
  ASSUME FrameTypes, [Next]_vars
  PROVE  FrameTypes'
<1>1. CNT' \in Positions /\ encoder_val' \in Positions
  BY PositionsKept DEF FrameTypes
<1>2. CASE PanelTick BY <1>1, <1>2, TickFrames DEF FrameTypes
<1>3. CASE PanelCallback BY <1>1, <1>3, CallbackFrames DEF FrameTypes
<1>4. CASE PanelMain \/ PanelEnter BY <1>1, <1>4, MainFrames DEF FrameTypes
<1>5. CASE PendantInterrupt
  <2>1. uart4_tx' \in {uart4_tx, None}
    BY <1>5 DEF PendantInterrupt, Pd!TIM4_IRQHandler, Pd!Turn,
       Pd!ReceiveRequest, Pd!wireVars
  <2> QED BY <1>1, <1>5, <2>1 DEF PendantInterrupt, panelOnly, FrameTypes
<1>6. CASE PendantMain
  <2>1. UNCHANGED uart4_tx
    BY <1>6 DEF PendantMain, Pd!MainStep, Pd!MainLoop, Pd!PollButton,
       Pd!ToggleStatus, Pd!TestGrant, Pd!MoveEncoder, Pd!ShowLeds, Pd!wireVars
  <2> QED BY <1>1, <1>6, <2>1 DEF PendantMain, panelOnly, FrameTypes
<1>7. CASE MachineStep \/ LoseFrame \/ MachinePowerCycle \/ UNCHANGED vars
  BY <1>1, <1>7 DEF MachineStep, LoseFrame, MachinePowerCycle, vars, panelOnly,
     wireVars, FrameTypes
<1> QED BY <1>2, <1>3, <1>4, <1>5, <1>6, <1>7 DEF Next

LEMMA FrameInvariant == Spec => []FrameTypes
<1>1. Init => FrameTypes
  BY Modular DEF Init, Pn!Init, Pd!Init, FrameTypes, Pn!MpgStatus
<1> QED BY <1>1, FrameStep, PTL DEF Spec

-----------------------------------------------------------------------------
\* The panel's steps are its own; the pendant's callback takes the request and
\* answers, the machine takes packets and reports.
LEMMA PanelStepConforms ==
  ASSUME ModeInv, FrameTypes, [Next]_vars
  PROVE  [Pn!Next]_(Pn!vars)
<1> USE DEF Pn!Next, Pn!PanelStep, Pn!Env
<1>1. CASE PanelTick BY <1>1 DEF PanelTick
<1>2. CASE PanelCallback BY <1>2 DEF PanelCallback
<1>3. CASE PanelMain \/ PanelEnter
  BY <1>3 DEF PanelMain, PanelEnter, Pn!r61529_screen_menu
<1>4. ASSUME UNCHANGED panelOnly
      PROVE  UNCHANGED Pn!internalVars
  BY <1>4 DEF panelOnly, Pn!internalVars, Pn!mainVars, Pn!tickVars,
     Pn!controlVars, Pn!cycleVars, Pn!modeVars
<1>5. ASSUME UNCHANGED <<panelOnly, wireVars>>
      PROVE  UNCHANGED Pn!vars
  BY <1>4, <1>5 DEF wireVars, Pn!vars, Pn!internalVars
<1>6. CASE PendantInterrupt
  <2>1. UNCHANGED <<panelOnly, uart2_tx, uart2_rx>>
    BY <1>6 DEF PendantInterrupt
  <2>2. CASE Pd!ReceiveRequest
    <3>1. mpg' \in BOOLEAN
      BY <2>2 DEF Pd!ReceiveRequest, Pd!RequestOn, Pd!RequestOff, Pd!GrantAfter
    <3>2. /\ uart4_tx # None /\ uart4_tx' = None /\ uart4_rx = None
          /\ uart4_rx' = [mpg |-> mpg', encoder |-> encoder_val]
      BY <2>2 DEF Pd!ReceiveRequest
    <3>3. uart4_rx' \in Pn!Answer
      BY <3>1, <3>2 DEF Pn!Answer, FrameTypes, Positions
    <3> QED BY <1>4, <2>1, <3>2, <3>3 DEF Pn!EnvTakeRequest
  <2>3. CASE Pd!TIM4_IRQHandler \/ Pd!Turn
    BY <1>5, <2>1, <2>3 DEF Pd!TIM4_IRQHandler, Pd!Turn, Pd!wireVars, wireVars
  <2> QED BY <1>6, <2>2, <2>3 DEF PendantInterrupt
<1>7. CASE PendantMain
  BY <1>5, <1>7
  DEF PendantMain, Pd!MainStep, Pd!MainLoop, Pd!PollButton, Pd!ToggleStatus,
      Pd!TestGrant, Pd!MoveEncoder, Pd!ShowLeds, Pd!wireVars, wireVars
<1>8. CASE MachineStep
  <2>1. UNCHANGED <<panelOnly, uart4_tx, uart4_rx>>
    BY <1>8 DEF MachineStep
  <2>2. CASE Mc!ReceivePacket
    BY <1>4, <2>1, <2>2 DEF Mc!ReceivePacket, Pn!EnvTakePacket
  <2>3. CASE Mc!ExecuteTask
    BY <1>5, <2>1, <2>3 DEF Mc!ExecuteTask, wireVars
  <2>4. CASE Mc!Report
    BY <1>4, <2>1, <2>4 DEF Mc!Report, Pn!EnvReport, ModeInv, ModeTypes
  <2> QED BY <1>8, <2>2, <2>3, <2>4 DEF MachineStep
<1>9. CASE LoseFrame
  <2>1. UNCHANGED <<panelOnly, uart2_tx, uart2_rx>> BY <1>9 DEF LoseFrame
  <2> QED BY <1>4, <1>9, <2>1
      DEF LoseFrame, Pn!EnvTakeRequest, Pn!EnvLoseAnswer
<1>10. CASE MachinePowerCycle
  <2>1. UNCHANGED <<panelOnly, uart4_tx, uart4_rx, uart2_rx>> /\ uart2_tx' = <<>>
    BY <1>10 DEF MachinePowerCycle, Mc!PowerCycle
  <2>2. CASE uart2_tx = <<>> BY <1>5, <2>1, <2>2 DEF wireVars
  <2>3. CASE uart2_tx # <<>> BY <1>4, <2>1, <2>3 DEF Pn!EnvTakePacket
  <2> QED BY <2>2, <2>3
<1>11. CASE UNCHANGED vars BY <1>5, <1>11 DEF vars
<1> QED
  BY <1>1, <1>2, <1>3, <1>6, <1>7, <1>8, <1>9, <1>10, <1>11 DEF Next

\* The panel in the system is the panel of its own module, so that what is
\* proved there against an arbitrary pendant and machine holds in the system.
THEOREM PanelIsPanel == Spec => PanelConforms
<1>1. Init => Pn!Init BY DEF Init
<1>2. Spec => [][Pn!Next]_(Pn!vars)
  BY ModeInvariant, FrameInvariant, PanelStepConforms, PTL DEF Spec
<1> QED BY <1>1, <1>2, PTL DEF Spec, PanelConforms, Pn!Spec

\* What a panel's step puts on the cable is a request, or takes an answer.
LEMMA PendantStepConforms ==
  ASSUME FrameTypes, [Next]_vars
  PROVE  [Pd!Next]_(Pd!vars)
<1> USE DEF Pd!Next, Pd!PendantStep
<1>1. ASSUME UNCHANGED pendantOnly
      PROVE  UNCHANGED <<Pd!pollVars, Pd!inputVars, Pd!encVars, Pd!statusVars>>
  BY <1>1 DEF pendantOnly, Pd!pollVars, Pd!inputVars, Pd!encVars, Pd!statusVars
<1>2. ASSUME UNCHANGED <<pendantOnly, uart4_rx>>,
             uart4_tx' \in Pn!Request \cup {None}
      PROVE  Pd!EnvRequest
  BY <1>1, <1>2
  DEF Pd!EnvRequest, Pd!Request, Pd!MpgStatus, Pn!Request, Pn!MpgStatus
<1>3. CASE UNCHANGED <<pendantOnly, uart4_tx, uart4_rx>>
  BY <1>1, <1>3 DEF Pd!vars, Pd!wireVars
<1>4. CASE PendantInterrupt BY <1>4 DEF PendantInterrupt
<1>5. CASE PendantMain BY <1>5 DEF PendantMain
<1>6. CASE PanelTick
  BY <1>2, <1>6, TickFrames DEF PanelTick, Pn!TIM1_UP_IRQHandler
<1>7. CASE PanelCallback
  <2>1. UNCHANGED pendantOnly BY <1>7 DEF PanelCallback
  <2>2. CASE Pn!PendantAnswer
    BY <1>1, <2>1, <2>2 DEF Pn!PendantAnswer, Pd!EnvTakeAnswer
  <2>3. CASE Pn!MachineReport
    BY <1>3, <2>1, <2>3 DEF Pn!MachineReport
  <2> QED BY <1>7, <2>2, <2>3 DEF PanelCallback
<1>8. CASE PanelMain \/ PanelEnter
  <2>1. UNCHANGED <<pendantOnly, uart4_rx>>
    BY <1>8 DEF PanelMain, PanelEnter, Pn!MainStep, Pn!PollMain, Pn!PollAuto,
       Pn!PollBack, Pn!PollManual, Pn!EnableCheck, Pn!EnableSend,
       Pn!DisableCheck, Pn!DisableSend, Pn!TransmitDone, Pn!StartTurnOff,
       Pn!ManualActions, Pn!JogButtons, Pn!ExitSubmenu, Pn!mainStep,
       Pn!mainOnly
  <2> QED BY <1>2, <1>8, <2>1, MainFrames
<1>9. CASE MachineStep \/ MachinePowerCycle
  BY <1>3, <1>9 DEF MachineStep, MachinePowerCycle
<1>10. CASE LoseFrame
  <2>1. UNCHANGED pendantOnly BY <1>10 DEF LoseFrame
  <2> QED BY <1>1, <1>2, <1>10, <2>1 DEF LoseFrame, Pd!EnvTakeAnswer
<1>11. CASE UNCHANGED vars BY <1>3, <1>11 DEF vars, wireVars
<1> QED
  BY <1>4, <1>5, <1>6, <1>7, <1>8, <1>9, <1>10, <1>11 DEF Next

\* The pendant in the system is the pendant of its own module.
THEOREM PendantIsPendant == Spec => PendantConforms
<1>1. Init => Pd!Init BY DEF Init
<1>2. Spec => [][Pd!Next]_(Pd!vars)
  BY FrameInvariant, PendantStepConforms, PTL DEF Spec
<1> QED BY <1>1, <1>2, PTL DEF Spec, PendantConforms, Pd!Spec

\* What a panel's step puts on the wire is a packet, or it takes a report.
LEMMA MachineStepConforms ==
  ASSUME [Next]_vars, ~MachinePowerCycle
  PROVE  [Mc!Next]_(Mc!vars)
<1> USE DEF Mc!Next
<1>1. ASSUME UNCHANGED <<machineOnly, uart2_rx>>,
             UNCHANGED uart2_tx \/ Pn!MainTransmit("toggle")
               \/ Pn!MainTransmit("action")
      PROVE  [Mc!Next]_(Mc!vars)
  BY <1>1 DEF Pn!MainTransmit, Pn!Room, Mc!EnvPacket, Mc!Packets, machineOnly,
     Mc!vars
<1>2. CASE PanelTick
  BY <1>1, <1>2 DEF PanelTick, Pn!TIM1_UP_IRQHandler
<1>3. CASE PanelCallback
  <2>1. UNCHANGED machineOnly BY <1>3 DEF PanelCallback
  <2>2. CASE Pn!MachineReport
    BY <2>1, <2>2 DEF Pn!MachineReport, Mc!EnvTakeReport, machineOnly
  <2>3. CASE Pn!PendantAnswer
    <3>1. UNCHANGED uart2_rx BY <2>3 DEF Pn!PendantAnswer
    <3>2. \/ UNCHANGED uart2_tx
          \/ Pn!MainTransmit("toggle") \/ Pn!MainTransmit("action")
      BY <2>3 DEF Pn!PendantAnswer, Pn!AnswerDropped, Pn!AnswerDuringTurnOff,
         Pn!AnswerProcessed, Pn!process_pendant_data_to_action, Pn!AskMachine,
         Pn!pendant_data_to_action, Pn!HandlerTransmit
    <3> QED BY <1>1, <2>1, <3>1, <3>2
  <2> QED BY <1>3, <2>2, <2>3 DEF PanelCallback
<1>4. CASE PanelMain \/ PanelEnter
  <2>1. UNCHANGED <<machineOnly, uart2_rx>>
        /\ \/ UNCHANGED uart2_tx
           \/ Pn!MainTransmit("toggle") \/ Pn!MainTransmit("action")
    BY <1>4 DEF PanelMain, PanelEnter, Pn!MainStep, Pn!PollMain, Pn!PollAuto,
       Pn!PollBack, Pn!PollManual, Pn!EnableCheck, Pn!EnableSend,
       Pn!DisableCheck, Pn!DisableSend, Pn!TransmitDone, Pn!StartTurnOff,
       Pn!ManualActions, Pn!JogButtons, Pn!ExitSubmenu, Pn!mainStep,
       Pn!mainOnly
  <2> QED BY <1>1, <2>1
<1>5. CASE PendantInterrupt \/ PendantMain \/ LoseFrame
  BY <1>1, <1>5 DEF PendantInterrupt, PendantMain, LoseFrame
<1>6. CASE MachineStep BY <1>6 DEF MachineStep, Mc!MachineStep
<1>7. CASE UNCHANGED vars BY <1>1, <1>7 DEF vars, wireVars
<1> QED BY <1>2, <1>3, <1>4, <1>5, <1>6, <1>7 DEF Next

\* The machine in the system is the machine of its own module, as long as it
\* keeps its power.
THEOREM MachineIsMachine ==
  ASSUME MaxPowerCycles = 0
  PROVE  Spec => MachineConforms
<1>1. Init => Mc!Init BY DEF Init
<1>2. ModeInv => ~MachinePowerCycle
  BY DEF ModeInv, ModeTypes, MachinePowerCycle
<1>3. ModeInv /\ [Next]_vars => [Mc!Next]_(Mc!vars)
  BY <1>2, MachineStepConforms
<1> QED BY <1>1, <1>3, ModeInvariant, PTL DEF Spec, MachineConforms, Mc!Spec
=============================================================================
