-------------------------- MODULE AccessoriesProofs --------------------------
(***************************************************************************)
(* Proof that the panel's picture of coolant and spindle is current, for    *)
(* every period of answers and reports, every lateness and every number of  *)
(* lines and changes: what a report under way leaves out is what the panel  *)
(* has already.  Then, that the coolant is switched four times at most when *)
(* nobody does anything, for all periods that fit together as the code's do *)
(* (PeriodsFit).                                                            *)
(***************************************************************************)
EXTENDS Accessories, TLAPS

States == {"none", "Idle", "Jog", "Hold"}

\* A report has the field A: with both accessories or not at all.
ReportTypes ==
  \/ report \in [state : States]
  \/ report \in [state : States, coolant : BOOLEAN, spindle : BOOLEAN]

Types ==
  /\ grbl_data \in [state : States, coolant : BOOLEAN, spindle : BOOLEAN]
  /\ ReportTypes
  /\ sys_state \in {"Idle", "Jog", "Hold"}
  /\ coolant \in BOOLEAN /\ modal \in BOOLEAN /\ spindle \in BOOLEAN
  /\ restore \in BOOLEAN /\ changed \in BOOLEAN

\* What the picture will be when the report under way, if there is one, has
\* been taken.
Coming ==
  ~changed => Shown("coolant") = coolant /\ Shown("spindle") = spindle

Inv == Types /\ Coming

LEMMA InvCurrent == Inv => PictureCurrent
BY DEF Inv, Types, Coming, Shown, PictureCurrent, NoReport

LEMMA InitInv == Init => Inv
<1> SUFFICES ASSUME Init PROVE Inv OBVIOUS
<1>1. Types BY DEF Init, Types, ReportTypes, States, NoReport
<1>2. Coming BY DEF Init, Coming, Shown, NoReport
<1> QED BY <1>1, <1>2 DEF Inv

\* The report that is written tells all, or leaves out what did not change.
LEMMA WriteInv == ASSUME Inv, WriteReport PROVE Inv'
<1> USE DEF Inv, Types, States
<1>1. UNCHANGED <<grbl_data, sys_state, coolant, modal, spindle, restore>>
  BY DEF WriteReport, Keeping, panelVars, coolantVars, machineVars
<1>2. changed' = FALSE BY DEF WriteReport
<1>3. CASE report' = [state |-> sys_state, coolant |-> coolant,
                      spindle |-> spindle]
  <2>1. ReportTypes' BY <1>3 DEF ReportTypes
  <2>2. Coming' BY <1>1, <1>3 DEF Coming, Shown
  <2> QED BY <1>1, <1>2, <2>1, <2>2
<1>4. CASE ~changed /\ report' = [state |-> sys_state]
  <2>1. ReportTypes' BY <1>4 DEF ReportTypes
  <2>2. grbl_data.coolant = coolant /\ grbl_data.spindle = spindle
    BY <1>4 DEF WriteReport, Coming, Shown, NoReport
  <2>3. Coming' BY <1>1, <1>4, <2>2 DEF Coming, Shown
  <2> QED BY <1>1, <1>2, <2>1, <2>3
<1> QED BY <1>3, <1>4 DEF WriteReport

\* Taking the report makes the picture what it was going to be.
LEMMA ParseInv == ASSUME Inv, ParseReport PROVE Inv'
<1>1. UNCHANGED <<sys_state, coolant, modal, spindle, restore, changed>>
  BY DEF ParseReport, Keeping, coolantVars, machineVars
<1>2. grbl_data' = [field \in {"state", "coolant", "spindle"} |-> Shown(field)]
  BY DEF ParseReport, Inv, Types
<1>3. report' = NoReport BY DEF ParseReport
<1>4. /\ Shown("state") \in States
      /\ Shown("coolant") \in BOOLEAN /\ Shown("spindle") \in BOOLEAN
  BY DEF Inv, Types, ReportTypes, Shown
<1>5. Types' BY <1>1, <1>2, <1>3, <1>4
  DEF Inv, Types, ReportTypes, NoReport, States
<1>6. Coming' BY <1>1, <1>2, <1>3 DEF Inv, Coming, Shown, NoReport
<1> QED BY <1>5, <1>6 DEF Inv

\* The machine marks every change of an accessory.
LEMMA MachineInv ==
  ASSUME Inv, FeedHold \/ CycleStart \/ Resumed \/ CoolantOverride
                \/ ExecuteLine \/ JogEnds
  PROVE  Inv'
<1> USE DEF Inv, Types, Keeping, panelVars, coolantVars, machineVars, reportVars
<1>1. UNCHANGED <<grbl_data, report>>
  BY DEF FeedHold, CycleStart, Resumed, CoolantOverride, ExecuteLine, JogEnds
<1>2. /\ sys_state' \in {"Idle", "Jog", "Hold"}
      /\ coolant' \in BOOLEAN /\ modal' \in BOOLEAN /\ spindle' \in BOOLEAN
      /\ restore' \in BOOLEAN /\ changed' \in BOOLEAN
      /\ changed' \/ UNCHANGED <<coolant, spindle, changed>>
  <2>1. CASE FeedHold BY <2>1 DEF FeedHold
  <2>2. CASE CycleStart BY <2>2 DEF CycleStart, Marked
  <2>3. CASE Resumed BY <2>3 DEF Resumed
  <2>4. CASE CoolantOverride BY <2>4 DEF CoolantOverride, Marked
  <2>5. CASE ExecuteLine
    <3>1. UNCHANGED <<coolant, modal, restore>> BY <2>5 DEF ExecuteLine
    <3>2. CASE Head(lines) = "empty" BY <2>5, <3>1, <3>2 DEF ExecuteLine
    <3>3. CASE ExecuteJog BY <3>1, <3>3 DEF ExecuteJog
    <3>4. CASE ExecuteSpindle(Head(lines))
      BY <3>1, <3>4 DEF ExecuteSpindle, Marked
    <3>5. \/ Head(lines) = "empty"
          \/ ExecuteJog
          \/ ExecuteSpindle(Head(lines))
      BY <2>5 DEF ExecuteLine
    <3> QED BY <3>2, <3>3, <3>4, <3>5
  <2>6. CASE JogEnds BY <2>6 DEF JogEnds
  <2> QED BY <2>1, <2>2, <2>3, <2>4, <2>5, <2>6
<1>3. Types' BY <1>1, <1>2 DEF ReportTypes
<1>4. Coming' BY <1>1, <1>2 DEF Coming, Shown
<1> QED BY <1>3, <1>4

\* The others neither change an accessory nor what is told of it.
LEMMA FrameInv ==
  ASSUME Inv, UNCHANGED <<grbl_data, coolantVars, machineVars, reportVars>>
  PROVE  Inv'
BY DEF Inv, Types, ReportTypes, Coming, Shown, coolantVars, machineVars,
       reportVars

LEMMA NextInv == Inv /\ [Next]_vars => Inv'
<1> SUFFICES ASSUME Inv, [Next]_vars PROVE Inv' OBVIOUS
<1>1. CASE Operator
  BY <1>1, FrameInv DEF Operator, PressCoolant, TurnSpindleSwitch, PressStatus,
     TurnWheel, MachineControl, Change, panelVars
<1>2. CASE Tick \/ Answer \/ RequestReport \/ Requested
  <2>1. UNCHANGED <<grbl_data, coolantVars, machineVars, reportVars>>
    BY <1>2 DEF Tick, Answer, RequestReport, Requested, Keeping, panelVars
  <2> QED BY <2>1, FrameInv
<1>3. CASE WriteReport BY <1>3, WriteInv
<1>4. CASE ParseReport BY <1>4, ParseInv
<1>5. CASE FeedHold \/ CycleStart \/ Resumed \/ CoolantOverride
             \/ ExecuteLine \/ JogEnds
  BY <1>5, MachineInv
<1>6. CASE UNCHANGED vars
  BY <1>6, FrameInv DEF vars, panelVars
<1> QED BY <1>1, <1>2, <1>3, <1>4, <1>5, <1>6 DEF Next, System

\* Unless a report is due or under way, the panel compares the switches with
\* what runs at the machine.
THEOREM PictureIsCurrent == Spec => []PictureCurrent
BY InitInv, NextInv, InvCurrent, PTL DEF Spec

-----------------------------------------------------------------------------
(* The coolant settles.  What matters is the phase of the requests against  *)
(* the answers: the report that an answer of the pendant is compared with   *)
(* is as old as the phase says.                                             *)

\* The periods the proof is about, as the code's are: three answers take longer
\* than two reports and the lateness, and an answer with the lateness less than
\* one report.
PeriodsFit ==
  /\ 3 * ANSWER_TICKS > 2 * REPORT_TICKS + MaxLate
  /\ ANSWER_TICKS + MaxLate < REPORT_TICKS

Wish == pendant_data.coolant
Right == coolant = Wish
Synced == modal = coolant

\* The age that the last request will have when the next answer comes.
Phase ==
  IF report_in <= answer_in THEN answer_in - report_in
  ELSE answer_in + REPORT_TICKS - report_in

\* A report is requested before the next answer, or still to be written.
Asked == due \/ sending \/ "STATUS_REPORT" \in exec
Near == report_in <= answer_in
Reported == report # NoReport

\* There is a new report for the answer after the next one, and for the one
\* that follows it.
FreshNext == Phase + ANSWER_TICKS > REPORT_TICKS + MaxLate
FreshAfter == Phase + 2 * ANSWER_TICKS > 2 * REPORT_TICKS + MaxLate

Periods ==
  /\ answer_in \in 0..ANSWER_TICKS /\ report_in \in 1..REPORT_TICKS
  /\ toggle => answer_in = ANSWER_TICKS
  /\ Asked \/ Reported => REPORT_TICKS - report_in <= MaxLate

Counts ==
  /\ switchings \in Nat /\ changes \in Nat /\ resuming \in Nat
  /\ pendant_data \in [coolant : BOOLEAN, spindle : BOOLEAN,
                       status : {"Idle", "Hold"}]
  /\ toggle \in BOOLEAN /\ due \in BOOLEAN /\ sending \in BOOLEAN

\* The next answer finds the picture right: the coolant is settled.
Settled ==
  /\ Right /\ ~toggle
  /\ Reported => Shown("coolant") = Wish
  /\ \/ grbl_data.coolant = Wish
     \/ (Near \/ Asked \/ Reported) /\ Phase > MaxLate

\* Right, but an old report may have it toggled: not twice, for the answer
\* that follows has a new one.
MayTurn ==
  /\ Right /\ Synced
  /\ \/ toggle /\ FreshNext /\ (Near \/ FreshAfter)
     \/ /\ ~toggle
        /\ Reported /\ answer_in # ANSWER_TICKS => Shown("coolant") = Wish
        /\ Settled \/ Phase <= MaxLate \/ Phase >= ANSWER_TICKS

\* Wrong, and the toggle that puts it right is followed by a new report.
MayReturn ==
  /\ ~Right /\ Synced
  /\ \/ toggle /\ ANSWER_TICKS > report_in + MaxLate
     \/ /\ ~toggle /\ FreshNext
        /\ Near \/ Asked \/ Shown("coolant") # Wish \/ FreshAfter

Settling ==
  /\ sys_state = "Jog" => switchings = 0
  /\ Right => \/ switchings = 0
              \/ switchings <= 2 /\ MayTurn
              \/ switchings <= 4 /\ Settled
  /\ ~Right => \/ switchings <= 1
               \/ switchings <= 3 /\ MayReturn

SettlingInv == Inv /\ Counts /\ Periods /\ Settling

LEMMA RestSettles == ASSUME switchings' = 0 PROVE Settling'
BY DEF Settling

LEMMA InitSettling == Init => SettlingInv
<1> SUFFICES ASSUME Init PROVE SettlingInv OBVIOUS
<1>1. Inv BY InitInv
<1>2. Counts BY DEF Init, Counts
<1>3. Periods
  BY TicksAssumption DEF Init, Periods, Asked, Reported, NoReport
<1>4. Settling BY DEF Init, Settling
<1> QED BY <1>1, <1>2, <1>3, <1>4 DEF SettlingInv

\* Every step counts, and counts anew when the operator or the machine's
\* state changes.
LEMMA NextCounted == ASSUME Next PROVE Counted
BY DEF Next, Operator, System, PressCoolant, TurnSpindleSwitch, PressStatus,
   TurnWheel, MachineControl, Change, Tick, Answer, RequestReport, Requested,
   ParseReport, WriteReport, FeedHold, CycleStart, Resumed, CoolantOverride,
   ExecuteLine, JogEnds, Keeping

LEMMA NextCounts == ASSUME Counts, Next PROVE Counts'
<1> USE DEF Counts, Keeping, panelVars, pendantVars, requestVars, machineVars
<1>1. switchings' \in Nat BY NextCounted DEF Counted
<1>2. CASE Operator
  <2>1. changes' = changes + 1 /\ UNCHANGED <<resuming, due, sending, toggle>>
    BY <1>2 DEF Operator, PressCoolant, TurnSpindleSwitch, PressStatus,
       TurnWheel, MachineControl, Change
  <2>2. pendant_data' \in [coolant : BOOLEAN, spindle : BOOLEAN,
                           status : {"Idle", "Hold"}]
    <3>1. CASE PressCoolant BY <3>1 DEF PressCoolant
    <3>2. CASE TurnSpindleSwitch BY <3>2 DEF TurnSpindleSwitch
    <3>3. CASE PressStatus BY <3>3 DEF PressStatus
    <3>4. CASE TurnWheel \/ MachineControl
      BY <3>4 DEF TurnWheel, MachineControl
    <3> QED BY <1>2, <3>1, <3>2, <3>3, <3>4 DEF Operator
  <2> QED BY <1>1, <2>1, <2>2
<1>3. CASE Tick BY <1>1, <1>3 DEF Tick
<1>4. CASE Answer BY <1>1, <1>4 DEF Answer, pendant_data_to_action, CoolantDiffers
<1>5. CASE RequestReport \/ Requested \/ ParseReport \/ WriteReport
  BY <1>1, <1>5 DEF RequestReport, Requested, ParseReport, WriteReport
<1>6. CASE FeedHold \/ CycleStart \/ Resumed
  BY <1>1, <1>6 DEF FeedHold, CycleStart, Resumed
<1>7. CASE CoolantOverride \/ ExecuteLine \/ JogEnds
  BY <1>1, <1>7 DEF CoolantOverride, ExecuteLine, JogEnds
<1> QED BY <1>2, <1>3, <1>4, <1>5, <1>6, <1>7 DEF Next, System

\* The clocks stay within their periods and a report is requested, written
\* and taken before the main loop's lateness is over.
LEMMA NextPeriods == ASSUME Counts, Periods, Next PROVE Periods'
<1> USE TicksAssumption
    DEF Counts, Periods, Asked, Reported, Keeping, panelVars, timeVars,
        requestVars, reportVars
<1>1. CASE Operator
  BY <1>1 DEF Operator, PressCoolant, TurnSpindleSwitch, PressStatus,
     TurnWheel, MachineControl, Change
<1>2. CASE Tick BY <1>2 DEF Tick
<1>3. CASE Answer
  BY <1>3 DEF Answer, pendant_data_to_action, StatusRequest
<1>4. CASE RequestReport \/ Requested \/ ParseReport
  BY <1>4 DEF RequestReport, Requested, ParseReport
<1>5. CASE WriteReport
  BY <1>5 DEF WriteReport
<1>6. CASE FeedHold \/ CycleStart \/ Resumed
  BY <1>6 DEF FeedHold, CycleStart, Resumed
<1>7. CASE CoolantOverride \/ ExecuteLine \/ JogEnds
  BY <1>7 DEF CoolantOverride, ExecuteLine, JogEnds
<1> QED BY <1>1, <1>2, <1>3, <1>4, <1>5, <1>6, <1>7 DEF Next, System

\* A step that changes the machine's state, or is an operator's, begins anew.
LEMMA ResetSettles ==
  ASSUME Counts, Next,
         Operator \/ sys_state' # sys_state \/ resuming' # resuming
  PROVE  Settling'
<1>1. Counted BY NextCounted
<1>2. CASE Operator
  <2>1. changes' = changes + 1
    BY <1>2 DEF Operator, PressCoolant, TurnSpindleSwitch, PressStatus,
       TurnWheel, MachineControl, Change
  <2> QED BY <1>1, <2>1, RestSettles DEF Counted, Counts
<1>3. CASE sys_state' # sys_state \/ resuming' # resuming
  BY <1>1, <1>3, RestSettles DEF Counted
<1> QED BY <1>2, <1>3

\* A tick brings the request and the answer nearer, and keeps their phase.
LEMMA TickSettles ==
  ASSUME PeriodsFit, SettlingInv, Tick
  PROVE  Settling'
<1> USE TicksAssumption DEF SettlingInv, Counts, Periods
<1>1. /\ UNCHANGED <<pendant_data, grbl_data, coolant, modal, sys_state,
                     switchings, report, toggle>>
      /\ ~toggle /\ report = NoReport
  BY DEF Tick, Keeping, Counted, pendantVars, requestVars, coolantVars,
     machineVars, reportVars
<1>2. Phase' = Phase
  BY DEF Tick, Phase, PeriodsFit
<1>3. Near \/ Asked => Near' \/ Asked'
  <2>1. Asked => due BY DEF Tick, Asked
  <2>2. due => due' BY DEF Tick
  <2>3. ASSUME Near, report_in # 1 PROVE Near'
    BY <2>3 DEF Tick, Near
  <2>4. report_in = 1 => due' BY DEF Tick
  <2> QED BY <2>1, <2>2, <2>3, <2>4 DEF Asked
<1>4. UNCHANGED <<Right, Synced, FreshNext, FreshAfter, Reported,
                  Shown("coolant"), Wish>>
  BY <1>1, <1>2 DEF Right, Synced, FreshNext, FreshAfter, Reported, Shown, Wish
<1>5. Settled => Settled' BY <1>1, <1>2, <1>3, <1>4 DEF Settled, Reported
<1>6. MayTurn => MayTurn'
  BY <1>1, <1>2, <1>3, <1>4, <1>5 DEF MayTurn, Reported
<1>7. MayReturn => MayReturn' BY <1>1, <1>2, <1>3, <1>4 DEF MayReturn
<1> QED BY <1>1, <1>4, <1>5, <1>6, <1>7 DEF Settling

\* Requesting, writing and taking a report leave what is to be compared.
LEMMA ReportSettles ==
  ASSUME SettlingInv,
         RequestReport \/ Requested \/ WriteReport \/ ParseReport
  PROVE  Settling'
<1>1. UNCHANGED <<pendant_data, coolant, modal, sys_state, switchings, toggle,
                  answer_in, report_in>>
  BY DEF RequestReport, Requested, WriteReport, ParseReport, Keeping, Counted,
     pendantVars, requestVars, coolantVars, machineVars, timeVars
<1>2. UNCHANGED <<Phase, Near, Right, Synced, FreshNext, FreshAfter, Wish>>
  BY <1>1 DEF Phase, Near, Right, Synced, FreshNext, FreshAfter, Wish
<1>3. CASE RequestReport \/ Requested
  <2>1. UNCHANGED <<report, grbl_data>> /\ Asked' = Asked
    BY <1>3 DEF RequestReport, Requested, Asked, Keeping, reportVars, panelVars
  <2> QED BY <1>1, <1>2, <2>1
      DEF SettlingInv, Settling, Settled, MayTurn, MayReturn, Reported, Shown
<1>4. CASE WriteReport
  <2>1. ~Reported /\ Reported' /\ Asked
    BY <1>4 DEF WriteReport, Reported, Asked, NoReport, SettlingInv, Inv, Types, States
  <2>2. UNCHANGED grbl_data
    BY <1>4 DEF WriteReport, Keeping, panelVars
  <2>3. Shown("coolant")' = coolant
    BY <1>4, <1>1, WriteInv DEF SettlingInv, Inv, Coming, WriteReport
  <2> QED BY <1>1, <1>2, <2>1, <2>2, <2>3
      DEF SettlingInv, Settling, Settled, MayTurn, MayReturn, Right
<1>5. CASE ParseReport
  <2>1. Reported /\ ~Reported' /\ Asked' = Asked
    BY <1>5 DEF ParseReport, Reported, Asked, Keeping, requestVars
  <2>2. grbl_data'.coolant = Shown("coolant")
        /\ Shown("coolant")' = Shown("coolant")
    BY <1>5 DEF ParseReport, SettlingInv, Inv, Types, Shown, NoReport
  <2> QED BY <1>1, <1>2, <2>1, <2>2
      DEF SettlingInv, Settling, Settled, MayTurn, MayReturn, Right
<1> QED BY <1>3, <1>4, <1>5

\* When the answer comes its report is as old as the phase says, and the next
\* ones follow from where the request is then.
LEMMA AnswerPhase ==
  ASSUME PeriodsFit, SettlingInv, Answer
  PROVE  /\ ~toggle /\ ~Near /\ Phase = REPORT_TICKS - report_in
         /\ Asked \/ Reported => Phase <= MaxLate
         /\ Phase <= MaxLate => /\ ~Near' /\ FreshNext' /\ FreshAfter'
                                /\ Phase' >= ANSWER_TICKS /\ Phase' > MaxLate
         /\ Phase >= ANSWER_TICKS => Near' /\ FreshNext'
         /\ FreshNext => Phase > MaxLate /\ ANSWER_TICKS > report_in' + MaxLate
         /\ FreshNext /\ FreshAfter => Near' /\ FreshNext'
<1> USE TicksAssumption
    DEF SettlingInv, Counts, Periods, PeriodsFit, Near, Phase
<1>1. /\ answer_in = 0 /\ answer_in' = ANSWER_TICKS /\ report_in' = report_in
      /\ ANSWER_TICKS \in Nat /\ REPORT_TICKS \in Nat /\ MaxLate \in Nat
      /\ report_in \in 1..REPORT_TICKS /\ ANSWER_TICKS > 0
  BY DEF Answer, Keeping
<1>2. ~toggle /\ ~Near /\ Phase = REPORT_TICKS - report_in
  BY <1>1
<1>3. Asked \/ Reported => Phase <= MaxLate
  BY <1>2
<1>4. Phase <= MaxLate => /\ ~Near' /\ FreshNext' /\ FreshAfter'
                          /\ Phase' >= ANSWER_TICKS /\ Phase' > MaxLate
  BY <1>1, <1>2 DEF FreshNext, FreshAfter
<1>5. Phase >= ANSWER_TICKS => Near' /\ FreshNext'
  BY <1>1, <1>2 DEF FreshNext
<1>6. FreshNext => Phase > MaxLate /\ ANSWER_TICKS > report_in' + MaxLate
  BY <1>1, <1>2 DEF FreshNext
<1>7. FreshNext /\ FreshAfter => Near' /\ FreshNext'
  BY <1>1, <1>2 DEF FreshNext, FreshAfter
<1> QED BY <1>2, <1>3, <1>4, <1>5, <1>6, <1>7

\* An answer is refused, finds the picture as it wants it, or toggles; then a
\* new report comes before the next one that could toggle again.
LEMMA AnswerSettles ==
  ASSUME PeriodsFit, SettlingInv, Answer
  PROVE  Settling'
<1> USE AnswerPhase
<1>1. UNCHANGED <<pendant_data, grbl_data, due, sending, coolant, modal,
                  sys_state, report, switchings>>
  BY DEF Answer, Keeping, Counted, panelVars, coolantVars, machineVars,
         reportVars
<1>2. UNCHANGED <<Right, Synced, Wish, Reported, Shown("coolant")>>
      /\ answer_in = 0 /\ answer_in' = ANSWER_TICKS /\ ANSWER_TICKS # 0
  BY <1>1, TicksAssumption
  DEF Right, Synced, Wish, Reported, Shown, Answer
<1>3. Asked' = Asked
  BY <1>1 DEF Asked, Answer, pendant_data_to_action, StatusRequest, requestVars
<1>4. CASE sending
  <2>1. ~toggle' BY <1>4, AnswerPhase DEF Answer, requestVars
  <2>2. Asked BY <1>4 DEF Asked
  <2>3. Settled => Settled' BY <1>1, <1>2, <1>3, <2>1, <2>2 DEF Settled
  <2>4. MayTurn => MayTurn' BY <1>1, <1>2, <2>1, <2>2 DEF MayTurn
  <2>5. MayReturn => MayReturn'
    BY <1>1, <1>2, <1>3, <2>1, <2>2 DEF MayReturn
  <2> QED BY <1>1, <1>2, <2>3, <2>4, <2>5 DEF SettlingInv, Settling
<1>5. CASE ~sending /\ grbl_data.coolant = Wish
  <2>1. ~toggle'
    BY <1>5, AnswerPhase
    DEF Answer, pendant_data_to_action, CoolantDiffers, Wish
  <2>2. Settled => Settled' BY <1>1, <1>2, <1>5, <2>1 DEF Settled
  <2>3. MayTurn => Settled' BY <1>1, <1>2, <1>5, <2>1 DEF MayTurn, Settled
  <2>4. MayReturn => FreshNext /\ (Asked \/ Reported \/ FreshAfter)
    BY <1>5 DEF MayReturn, Shown, Reported, NoReport
  <2>5. MayReturn => FreshAfter
    <3>1. FreshNext => ~(Phase <= MaxLate)
      BY TicksAssumption
      DEF SettlingInv, Periods, FreshNext, Answer, Phase, PeriodsFit
    <3> QED BY <2>4, <3>1
  <2>6. MayReturn => MayReturn'
    BY <1>1, <1>2, <2>1, <2>4, <2>5 DEF MayReturn
  <2> QED BY <1>1, <1>2, <2>2, <2>3, <2>6, TicksAssumption
      DEF SettlingInv, Counts, Settling
<1>6. CASE ~sending /\ grbl_data.coolant # Wish
  <2>1. toggle'
    BY <1>6 DEF Answer, pendant_data_to_action, CoolantDiffers, Wish
  <2>2. ~(Phase > MaxLate /\ Phase <= MaxLate)
    BY TicksAssumption DEF SettlingInv, Periods, Phase
  <2>3. ~Settled BY <1>6, <2>2 DEF Settled
  <2>4. MayTurn => MayTurn'
    BY <1>1, <1>2, <2>1, <2>3 DEF MayTurn
  <2>5. MayReturn => MayReturn'
    BY <1>1, <1>2, <2>1 DEF MayReturn
  <2> QED BY <1>1, <1>2, <2>3, <2>4, <2>5 DEF SettlingInv, Settling
<1> QED BY <1>4, <1>5, <1>6

\* Where the request is when a toggle is served, within the tick of its answer.
LEMMA TogglePhase ==
  ASSUME PeriodsFit, SettlingInv, toggle
  PROVE  /\ answer_in = ANSWER_TICKS
         /\ Reported => ~Near
         /\ ~Near => Phase >= ANSWER_TICKS
         /\ Near \/ Phase >= ANSWER_TICKS
         /\ ANSWER_TICKS > report_in + MaxLate => Near /\ Phase > MaxLate
BY TicksAssumption
DEF SettlingInv, Counts, Periods, PeriodsFit, Near, Phase

\* A toggle that is served turns the coolant off its wish or back to it,
\* where the parser knows what runs; where it does not, it only learns it.
LEMMA OverrideSettles ==
  ASSUME PeriodsFit, SettlingInv, CoolantOverride
  PROVE  Settling'
<1> USE DEF SettlingInv, Counts
<1>1. /\ UNCHANGED <<pendant_data, grbl_data, due, sending, sys_state, report,
                     answer_in, report_in, exec, changes, resuming>>
      /\ toggle /\ ~toggle'
  BY DEF CoolantOverride, Keeping, panelVars, pendantVars, timeVars,
         machineVars
<1>2. UNCHANGED <<Phase, Near, Wish, Reported, Asked, FreshNext, FreshAfter,
                  Shown("coolant")>>
  BY <1>1 DEF Phase, Near, Wish, Reported, Asked, FreshNext, FreshAfter, Shown
<1>3. ~Settled BY <1>1 DEF Settled
<1>4. Counted BY DEF CoolantOverride, Keeping
<1>5. CASE coolant' = coolant
  <2>1. switchings' = switchings BY <1>1, <1>4, <1>5 DEF Counted
  <2>2. CASE sys_state = "Jog"
    BY <2>1, <2>2, RestSettles DEF Settling
  <2>3. CASE sys_state # "Jog"
    <3>1. coolant' = ~modal BY <2>3 DEF CoolantOverride, Inv, Types
    <3>2. ~Synced BY <3>1, <1>5 DEF Synced, Inv, Types
    <3>3. Right' = Right BY <1>2, <1>5 DEF Right
    <3>4. Right => switchings' = 0
      BY <1>3, <2>1, <3>2 DEF Settling, MayTurn
    <3>5. ~Right => switchings' <= 1
      BY <2>1, <3>2 DEF Settling, MayReturn
    <3> QED BY <1>1, <2>3, <3>3, <3>4, <3>5 DEF Settling
  <2> QED BY <2>2, <2>3
<1>6. CASE coolant' # coolant
  <2>1. /\ sys_state # "Jog" /\ coolant' = ~modal /\ modal' = coolant'
        /\ Synced
    BY <1>6 DEF CoolantOverride, Synced, Inv, Types, coolantVars
  <2>2. switchings' = switchings + 1 BY <1>1, <1>4, <1>6 DEF Counted
  <2>3. Synced' BY <2>1 DEF Synced
  <2>4. Right' <=> ~Right
    BY <1>1, <1>6, <2>1 DEF Right, Wish, Inv, Types
  <2>5. CASE Right
    <3>1. switchings = 0 \/ (switchings <= 2 /\ MayTurn)
      BY <1>3, <2>5 DEF Settling
    <3>2. MayTurn => MayReturn'
      BY <1>1, <1>2, <2>3, <2>4, <2>5 DEF MayTurn, MayReturn
    <3>3. switchings' <= 1 \/ (switchings' <= 3 /\ MayReturn')
      BY <2>2, <3>1, <3>2
    <3> QED BY <1>1, <2>1, <2>4, <2>5, <3>3 DEF Settling
  <2>6. CASE ~Right
    <3>1. switchings <= 1 \/ (switchings <= 3 /\ MayReturn)
      BY <2>6 DEF Settling
    <3>2. MayReturn => Settled'
      BY <1>1, <1>2, <2>4, <2>6, TogglePhase DEF MayReturn, Settled
    <3>3. MayTurn'
      <4>1. (Reported /\ answer_in # ANSWER_TICKS) = FALSE
        BY <1>1, TogglePhase
      <4>2. ASSUME Near, Phase > MaxLate PROVE Settled'
        BY <1>1, <1>2, <2>4, <2>6, <4>2, TogglePhase DEF Settled
      <4>3. Phase > MaxLate \/ Phase <= MaxLate
        BY TicksAssumption DEF Periods, Phase
      <4> QED
        BY <1>1, <1>2, <2>3, <2>4, <2>6, <4>1, <4>2, <4>3, TogglePhase DEF MayTurn
    <3>4. \/ switchings' <= 2 /\ MayTurn'
          \/ switchings' <= 4 /\ Settled'
      BY <2>2, <3>1, <3>2, <3>3
    <3> QED BY <1>1, <2>1, <2>4, <2>6, <3>4 DEF Settling
  <2> QED BY <2>5, <2>6
<1> QED BY <1>5, <1>6

\* A line and the end of a jog, a hold and what ends it begin anew where they
\* change the machine's state, and touch no coolant where they do not.
LEMMA StateSettles ==
  ASSUME SettlingInv,
         FeedHold \/ CycleStart \/ Resumed \/ ExecuteLine \/ JogEnds
  PROVE  Settling'
<1>1. CASE sys_state' # sys_state \/ resuming' # resuming
  BY <1>1, ResetSettles DEF Next, System, SettlingInv
<1>2. CASE UNCHANGED <<sys_state, resuming>>
  <2>1. UNCHANGED <<pendant_data, grbl_data, coolant, modal, sys_state, report,
                    answer_in, report_in, toggle, due, sending, switchings>>
    BY <1>2 DEF FeedHold, CycleStart, Resumed, ExecuteLine, JogEnds, Keeping,
       Counted, SettlingInv, Counts, panelVars, pendantVars, timeVars,
       requestVars, coolantVars, reportVars
  <2>2. Asked' = Asked
    BY <1>2, <2>1 DEF FeedHold, CycleStart, Resumed, ExecuteLine, JogEnds,
       Asked, Keeping, requestVars
  <2>3. UNCHANGED <<Phase, Near, Right, Synced, FreshNext, FreshAfter, Wish,
                    Reported, Shown("coolant")>>
    BY <2>1 DEF Phase, Near, Right, Synced, FreshNext, FreshAfter, Wish,
       Reported, Shown
  <2> QED BY <2>1, <2>2, <2>3
      DEF SettlingInv, Settling, Settled, MayTurn, MayReturn
<1> QED BY <1>1, <1>2

LEMMA NextSettling ==
  ASSUME PeriodsFit
  PROVE  SettlingInv /\ [Next]_vars => SettlingInv'
<1> SUFFICES ASSUME SettlingInv, [Next]_vars PROVE SettlingInv' OBVIOUS
<1>1. Inv' BY NextInv DEF SettlingInv
<1>2. CASE Next
  <2>1. Counts' /\ Periods' BY <1>2, NextCounts, NextPeriods DEF SettlingInv
  <2>2. Settling'
    BY <1>2, ResetSettles, TickSettles, AnswerSettles, ReportSettles,
       OverrideSettles, StateSettles DEF Next, System, SettlingInv
  <2> QED BY <1>1, <2>1, <2>2 DEF SettlingInv
<1>3. CASE UNCHANGED vars
  <2>1. UNCHANGED <<pendant_data, grbl_data, coolant, modal, sys_state, report,
                    answer_in, report_in, toggle, due, sending, exec, resuming,
                    changes, switchings>>
    BY <1>3 DEF vars, panelVars, pendantVars, timeVars, requestVars,
       coolantVars, machineVars, reportVars, historyVars
  <2>2. UNCHANGED <<Asked, Phase, Near, Right, Synced, FreshNext, FreshAfter,
                    Wish, Reported, Shown("coolant")>>
    BY <2>1 DEF Asked, Phase, Near, Right, Synced, FreshNext, FreshAfter, Wish,
       Reported, Shown
  <2>3. Counts' /\ Periods'
    BY <2>1, <2>2 DEF SettlingInv, Counts, Periods
  <2>4. Settling'
    BY <2>1, <2>2 DEF SettlingInv, Settling, Settled, MayTurn, MayReturn
  <2> QED BY <1>1, <2>3, <2>4 DEF SettlingInv
<1> QED BY <1>2, <1>3

\* With the operator and the machine's state at rest the coolant is switched
\* four times at most.
LEMMA SettlingBounded ==
  ASSUME MaxSwitchings >= 4
  PROVE  SettlingInv => CoolantSettles
BY TicksAssumption
DEF SettlingInv, Settling, Counts, CoolantSettles

\* The comparison of answers with old reports does not toggle the coolant for
\* ever, nor more often than four times, whatever the phases of the two and
\* whatever the operator and the machine did before.
THEOREM CoolantAlwaysSettles ==
  ASSUME PeriodsFit, MaxSwitchings >= 4
  PROVE  Spec => []CoolantSettles
BY InitSettling, NextSettling, SettlingBounded, PTL DEF Spec
=============================================================================
