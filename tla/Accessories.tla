---------------------------- MODULE Accessories ----------------------------
(***************************************************************************)
(* What the switches of a pendant that holds the MPG do at the machine: a   *)
(* coolant (flood and mist are treated alike), the spindle (its direction   *)
(* is left out), HOLD and CYCLE START.                                      *)
(*                                                                          *)
(* The panel compares every answer of the pendant with the last report of   *)
(* the machine and sends what is missing: a toggle, a line of G-code, a     *)
(* realtime command.  Answers and reports come at periods of their own, so  *)
(* that one report may be compared with two answers.                        *)
(***************************************************************************)
EXTENDS Naturals, Sequences

CONSTANTS
  ANSWER_TICKS,   \* an answer of the pendant every so many ticks
  REPORT_TICKS,   \* a report requested every so many ticks, two menu entries
  MaxLate,        \* bound: ticks by which the main loop comes late to the menu
  MaxLines,       \* bound: lines in the machine's input buffer, others are lost
  MaxChanges,     \* bound: things the operators do
  MaxSwitchings   \* switchings of the coolant after one of these

ASSUME TicksAssumption ==
  /\ {ANSWER_TICKS, REPORT_TICKS, MaxLines} \subseteq Nat \ {0}
  /\ {MaxLate, MaxChanges, MaxSwitchings} \subseteq Nat
  /\ MaxLate < REPORT_TICKS

VARIABLES
  pendant_data,   \* what the switches of the pendant ask for
  turned,         \* the handwheel was turned since the last answer
  grbl_data,      \* the panel's picture of the machine
  due, sending,   \* the main loop has a report to request, is requesting it
  answer_in, report_in,  \* ticks to the next answer and the next request
  sys_state,      \* Idle, Jog or Hold
  coolant, spindle,      \* what runs at the machine
  modal,          \* gc_state.modal.coolant
  restore,        \* restore_condition.coolant
  resuming,       \* calls of delay_sec, one in the other, after a coolant was restored
  changed,        \* sys.report: the coolant or the spindle was set
  exec,           \* sys.rt_exec_state: requests not yet served
  toggle,         \* a coolant override not yet served
  lines,          \* lines not yet executed, empty ones included
  last_error,     \* gc_state.last_error: how the line before ended
  report,         \* a report on its way to the panel
  changes, switchings    \* history: what the operator and the coolant did

panelVars == <<grbl_data, due, sending>>
pendantVars == <<pendant_data, turned>>
timeVars == <<answer_in, report_in>>
requestVars == <<exec, toggle, lines>>
coolantVars == <<coolant, modal>>
machineVars == <<sys_state, spindle, restore, resuming, last_error>>
reportVars == <<changed, report>>
historyVars == <<changes, switchings>>
vars == <<panelVars, pendantVars, timeVars, requestVars, coolantVars,
          machineVars, reportVars, historyVars>>

NoReport == [state |-> "none"]

\* MPG mode was just entered: everything rests, and the phases are arbitrary.
Init ==
  /\ pendant_data = [coolant |-> FALSE, spindle |-> FALSE, status |-> "Idle"]
  /\ turned = FALSE /\ changes = 0
  /\ grbl_data = [state |-> "Idle", coolant |-> FALSE, spindle |-> FALSE]
  /\ due = FALSE /\ sending = FALSE
  /\ answer_in \in 1..ANSWER_TICKS /\ report_in \in 1..REPORT_TICKS
  /\ sys_state = "Idle" /\ spindle = FALSE
  /\ restore = FALSE /\ resuming = 0 /\ last_error = "OK"
  /\ coolant = FALSE /\ modal = FALSE /\ switchings = 0
  /\ changed = FALSE /\ report = NoReport
  /\ exec = {} /\ toggle = FALSE /\ lines = <<>>

\* History: switchings of the coolant since the operator or the machine's
\* state last changed.
Counted ==
  switchings' =
    IF changes' # changes \/ sys_state' # sys_state \/ resuming' # resuming
    THEN 0
    ELSE IF coolant' # coolant THEN switchings + 1 ELSE switchings

Keeping(frame) == UNCHANGED <<frame, changes>> /\ Counted

-----------------------------------------------------------------------------
(* The pendant: what process_inputs makes of its switches.                  *)

Change ==
  /\ changes < MaxChanges /\ changes' = changes + 1
  /\ UNCHANGED <<panelVars, timeVars, coolantVars, machineVars, reportVars>>
  /\ Counted

\* FLOOD_SW or MIST_SW held until it counts: the wish is toggled.
PressCoolant ==
  /\ pendant_data' = [pendant_data EXCEPT !.coolant = ~@]
  /\ Change /\ UNCHANGED <<turned, requestVars>>

TurnSpindleSwitch ==
  /\ pendant_data' = [pendant_data EXCEPT !.spindle = ~@]
  /\ Change /\ UNCHANGED <<turned, requestVars>>

\* HOLD and CYCLE START are remembered until the other one is pressed.
PressStatus ==
  /\ \E status \in {"Hold", "Idle"} \ {pendant_data.status} :
       pendant_data' = [pendant_data EXCEPT !.status = status]
  /\ Change /\ UNCHANGED <<turned, requestVars>>

TurnWheel ==
  /\ ~turned /\ turned' = TRUE
  /\ Change /\ UNCHANGED <<pendant_data, requestVars>>

\* The inputs for feed hold and cycle start at the machine itself.
MachineControl ==
  /\ \E request \in {"FEED_HOLD", "CYCLE_START"} : exec' = exec \cup {request}
  /\ Change /\ UNCHANGED <<pendantVars, toggle, lines>>

Operator ==
  PressCoolant \/ TurnSpindleSwitch \/ PressStatus \/ TurnWheel
    \/ MachineControl

-----------------------------------------------------------------------------
(* The panel.                                                               *)

\* M3 and M4 are not told apart.
SpindleLine ==
  CASE grbl_data.spindle /\ ~pendant_data.spindle -> <<"M5">>
    [] ~grbl_data.spindle /\ pendant_data.spindle -> <<"M3">>
    [] OTHER -> <<>>

\* Of the states modelled CYCLE START is sent in Hold only, HOLD in the others.
StatusRequest ==
  CASE pendant_data.status = "Idle" /\ grbl_data.state = "Hold"
         -> {"CYCLE_START"}
    [] pendant_data.status = "Hold" /\ grbl_data.state # "Hold"
         -> {"FEED_HOLD"}
    [] OTHER -> {}

CoolantDiffers == pendant_data.coolant # grbl_data.coolant

JogLine == IF turned THEN <<"jog">> ELSE <<>>

\* The realtime byte of a packet is taken out of the stream, its newline is not.
CoolantLine == IF CoolantDiffers THEN <<"empty">> ELSE <<>>

Buffered(seq) ==
  IF Len(seq) > MaxLines THEN SubSeq(seq, 1, MaxLines) ELSE seq

\* What does not fit is lost; an empty line stands for several in a row.
Received(new) ==
  LET repeated == /\ lines # <<>> /\ lines[Len(lines)] = "empty"
                  /\ new # <<>> /\ Head(new) = "empty"
  IN  Buffered(lines \o IF repeated THEN Tail(new) ELSE new)

pendant_data_to_action ==
  /\ lines' = Received(JogLine \o SpindleLine \o CoolantLine)
  /\ toggle' = (toggle \/ CoolantDiffers)
  /\ exec' = exec \cup StatusRequest

\* The answer is processed in the interrupt; the UART refuses its packets
\* while the main loop is sending.
Answer ==
  /\ answer_in = 0
  /\ answer_in' = ANSWER_TICKS
  /\ turned' = FALSE
  /\ IF sending THEN UNCHANGED requestVars ELSE pendant_data_to_action
  /\ Keeping(<<panelVars, pendant_data, report_in, coolantVars,
               machineVars, reportVars>>)

\* request_report, every second time the menu is entered (wait channel 4).
RequestReport ==
  /\ due /\ due' = FALSE
  /\ sending' = TRUE
  /\ Keeping(<<grbl_data, pendantVars, timeVars, requestVars, coolantVars,
               machineVars, reportVars>>)

\* Seeded bug: only the realtime byte is sent.
RequestLine_Bug == <<>>

\* The newline of "?\n".
RequestLine == <<"empty">>

Requested ==
  /\ sending /\ sending' = FALSE
  /\ exec' = exec \cup {"STATUS_REPORT"}
  /\ lines' = Received(RequestLine)
  /\ Keeping(<<grbl_data, due, pendantVars, timeVars, toggle,
               coolantVars, machineVars, reportVars>>)

\* Seeded bug: the accessories are cleared before the field A: is looked for.
Shown_Bug(field) == IF field \in DOMAIN report THEN report[field] ELSE FALSE

\* parseData: without the field A: the picture keeps its accessories.
Shown(field) ==
  IF field \in DOMAIN report THEN report[field] ELSE grbl_data[field]

ParseReport ==
  /\ report # NoReport
  /\ grbl_data' = [field \in DOMAIN grbl_data |-> Shown(field)]
  /\ report' = NoReport
  /\ Keeping(<<due, sending, pendantVars, timeVars, requestVars,
               coolantVars, machineVars, changed>>)

-----------------------------------------------------------------------------
(* The machine.  The bytes of an answer arrive one after the other, so that *)
(* each of its requests may meet a pass of protocol_exec_rt_system of its   *)
(* own.                                                                     *)

\* Seeded bug: a change made by an override is not marked for the report.
Marked_Bug == changed

\* system_add_rt_report in coolant_set_state and in the spindle's set_state.
Marked == TRUE

\* report_realtime_status: the accessories are told when they were set, and
\* now and then while they run.
WriteReport ==
  /\ "STATUS_REPORT" \in exec /\ report = NoReport
  /\ exec' = exec \ {"STATUS_REPORT"}
  /\ \/ /\ changed \/ coolant \/ spindle
        /\ report' = [state |-> sys_state, coolant |-> coolant,
                      spindle |-> spindle]
     \/ ~changed /\ report' = [state |-> sys_state]
  /\ changed' = FALSE
  /\ Keeping(<<panelVars, pendantVars, timeVars, toggle, lines,
               coolantVars, machineVars>>)

\* state_idle and state_cycle: a jog is not held.
FeedHold ==
  /\ "FEED_HOLD" \in exec /\ exec' = exec \ {"FEED_HOLD"}
  /\ IF sys_state = "Idle"
     THEN sys_state' = "Hold" /\ restore' = (modal \/ coolant)
     ELSE UNCHANGED <<sys_state, restore>>
  /\ Keeping(<<panelVars, pendantVars, timeVars, toggle, lines, last_error,
               coolantVars, spindle, resuming, reportVars>>)

\* state_await_resume: a coolant that differs from what it was when the hold
\* began is set back first, followed by a delay.
CycleStart ==
  /\ "CYCLE_START" \in exec /\ exec' = exec \ {"CYCLE_START"}
  /\ CASE sys_state # "Hold" ->
            UNCHANGED <<sys_state, coolant, changed, resuming>>
       [] sys_state = "Hold" /\ coolant # restore ->
            /\ coolant' = restore /\ changed' = Marked
            /\ resuming' = resuming + 1 /\ UNCHANGED sys_state
       [] OTHER ->
            /\ sys_state' = "Idle"
            /\ UNCHANGED <<coolant, changed, resuming>>
  /\ Keeping(<<panelVars, pendantVars, timeVars, toggle, lines, modal,
               spindle, restore, last_error, report>>)

\* A delay is over, the innermost first; meanwhile the hold may have been
\* resumed or begun anew.
Resumed ==
  /\ resuming > 0 /\ resuming' = resuming - 1
  /\ sys_state' = "Idle"
  /\ Keeping(<<panelVars, pendantVars, timeVars, requestVars, coolantVars,
               spindle, restore, last_error, reportVars>>)

\* A toggle acts on the parser's state of the coolant, which a resume leaves
\* alone, and is dropped in a jog.
CoolantOverride ==
  /\ toggle /\ toggle' = FALSE
  /\ IF sys_state \in {"Idle", "Hold"}
     THEN /\ modal' = ~modal
          /\ coolant' = ~modal
          /\ changed' = Marked
     ELSE UNCHANGED <<coolantVars, changed>>
  /\ Keeping(<<panelVars, pendantVars, timeVars, exec, lines, machineVars,
               report>>)

\* The main loop reads no line in a hold, nor in the delay after one.
Reading == lines # <<>> /\ sys_state # "Hold" /\ resuming = 0

\* A jog beyond the soft limits is refused.
ExecuteJog ==
  \/ sys_state' = "Jog" /\ last_error' = "OK" /\ UNCHANGED <<spindle, changed>>
  \/ last_error' = "TravelExceeded" /\ UNCHANGED <<sys_state, spindle, changed>>

\* A line for the spindle is refused in a jog; out of it it is skipped unless
\* the line before ended well.
ExecuteSpindle(code) ==
  /\ UNCHANGED sys_state
  /\ last_error' = IF sys_state = "Jog" THEN "SystemGClock" ELSE last_error
  /\ IF sys_state = "Idle" /\ last_error = "OK" /\ spindle = (code = "M5")
     THEN spindle' = ~spindle /\ changed' = Marked
     ELSE UNCHANGED <<spindle, changed>>

\* An empty line does nothing but forget the error.
ExecuteLine ==
  /\ Reading /\ lines' = Tail(lines)
  /\ CASE Head(lines) = "empty" ->
            last_error' = "OK" /\ UNCHANGED <<sys_state, spindle, changed>>
       [] Head(lines) = "jog" -> ExecuteJog
       [] OTHER -> ExecuteSpindle(Head(lines))
  /\ Keeping(<<panelVars, pendantVars, timeVars, exec, toggle, coolantVars,
               restore, resuming, report>>)

JogEnds ==
  /\ sys_state = "Jog" /\ sys_state' = "Idle"
  /\ Keeping(<<panelVars, pendantVars, timeVars, requestVars, coolantVars,
               spindle, restore, resuming, last_error, reportVars>>)

-----------------------------------------------------------------------------
\* Everything but the main loop's lateness is done within the tick: bytes,
\* passes of the machine's loop and a report take less.
Tick ==
  /\ answer_in > 0 /\ ~sending
  /\ due => REPORT_TICKS - report_in < MaxLate
  /\ exec = {} /\ ~toggle /\ ~Reading /\ report = NoReport
  /\ answer_in' = answer_in - 1
  /\ report_in' = IF report_in = 1 THEN REPORT_TICKS ELSE report_in - 1
  /\ due' = (due \/ report_in = 1)
  /\ Keeping(<<grbl_data, sending, pendantVars, requestVars, coolantVars,
               machineVars, reportVars>>)

System ==
  \/ Tick \/ Answer \/ RequestReport \/ Requested \/ ParseReport
  \/ WriteReport \/ FeedHold \/ CycleStart \/ CoolantOverride \/ ExecuteLine

Next == Operator \/ System \/ JogEnds \/ Resumed

\* The tick is a timer's, the loops of panel and machine come round, and a
\* jog and a delay end.
Spec ==
  Init /\ [][Next]_vars /\ WF_vars(System) /\ WF_vars(JogEnds)
       /\ WF_vars(Resumed)

-----------------------------------------------------------------------------
(* Properties.                                                              *)

\* With the operator at rest the coolant is switched a few times at most: an
\* answer compared with an old report toggles it back, but the periods of
\* answers and reports do not let that go on.
CoolantSettles == switchings <= MaxSwitchings

\* What the panel compares the switches with is what runs at the machine,
\* unless a report that says so is due or under way: once all is off nothing
\* else corrects the picture, which must not miss a change.
PictureCurrent ==
  report = NoReport /\ ~changed =>
    /\ grbl_data.coolant = coolant
    /\ grbl_data.spindle = spindle

\* Whatever was toggled twice, dropped in a jog, refused, skipped after an
\* error or set back by a resume, in the end coolant, spindle and state are
\* what the switches say; the spindle's line waits while the machine is held.
SwitchesFollowed ==
  <>[](/\ coolant = pendant_data.coolant
       /\ sys_state = "Hold" <=> pendant_data.status = "Hold"
       /\ spindle = pendant_data.spindle \/ sys_state = "Hold")

\* The spindle does not start while its switch is off, but for a line sent
\* within the tick.
StartsByItsSwitch ==
  [][~spindle /\ spindle' /\ answer_in < ANSWER_TICKS
       => pendant_data.spindle]_vars

\* A coolant that was switched on or off is not switched back.
OneSwitching == switchings <= 1
=============================================================================
