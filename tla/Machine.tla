------------------------------ MODULE Machine ------------------------------
(***************************************************************************)
(* The machine controller (grblHAL on STM32F407) as the panel sees it over  *)
(* the MPG serial port: which stream it reads (sys.mpg_mode), the switching *)
(* between them by CMD_MPG_MODE_TOGGLE, and the status reports that tell    *)
(* the mode.                                                                *)
(*                                                                          *)
(* The UART interrupt only enqueues; the foreground loop executes later, so *)
(* several toggles can be waiting, and one report may answer them all.      *)
(***************************************************************************)
EXTENDS Naturals, Sequences

CONSTANTS
  MaxTasks,   \* bound: foreground tasks waiting, RT_QUEUE_SIZE - 1 in the code
  MaxFrames   \* bound: packets or reports on the UART

VARIABLES
  mpg_mode,         \* sys.mpg_mode: the machine reads the MPG stream
  tasks,            \* foreground tasks enqueued by the MPG port's interrupt
  report_due,       \* a status report with the MPG field is to be sent
  packets,          \* bytes coming from the panel
  reports           \* MPG fields going to it

vars == <<mpg_mode, tasks, report_due, packets, reports>>

Packets == {"toggle", "action"}
Tasks   == {"keypress", "leave"}

TypeOK ==
  /\ mpg_mode \in BOOLEAN
  /\ tasks \in Seq(Tasks)
  /\ report_due \in BOOLEAN
  /\ packets \in Seq(Packets)
  /\ reports \in Seq(BOOLEAN)

Init ==
  /\ mpg_mode = FALSE /\ tasks = <<>> /\ report_due = FALSE
  /\ packets = <<>> /\ reports = <<>>

\* In MPG mode the port is read by protocol_enqueue_realtime_command, out of
\* it by the keypad plugin, to which an action packet is a few keycodes that
\* do not change the mode.  With the queue full the task is dropped.
ReceivePacket ==
  /\ packets # <<>>
  /\ tasks' = IF Head(packets) = "toggle" /\ Len(tasks) < MaxTasks
              THEN Append(tasks, IF mpg_mode THEN "leave" ELSE "keypress")
              ELSE tasks
  /\ packets' = Tail(packets)
  /\ UNCHANGED <<mpg_mode, report_due, reports>>

\* stream_mpg_enable: entering is denied while the machine is busy; either
\* way a report with the MPG field follows.
ReportAfter_Bug1 == report_due \/ mpg_mode' = mpg_mode  \* seeded: denials only
ReportAfter_Bug2 == report_due \/ mpg_mode' # mpg_mode  \* seeded: changes only
ReportAfter == TRUE

stream_mpg_enable(on) ==
  /\ \/ mpg_mode' = on
     \/ on /\ UNCHANGED mpg_mode
  /\ report_due' = ReportAfter

\* Seeded bug: the report is written before the mode is switched.
ExecuteTask_Bug ==
  /\ tasks # <<>> /\ tasks' = Tail(tasks)
  /\ mpg_mode' = (Head(tasks) = "keypress" /\ ~mpg_mode)
  /\ reports' = Append(reports, mpg_mode)
  /\ UNCHANGED <<packets, report_due>>

ExecuteTask ==
  /\ tasks # <<>>
  /\ stream_mpg_enable(Head(tasks) = "keypress" /\ ~mpg_mode)
  /\ tasks' = Tail(tasks)
  /\ UNCHANGED <<packets, reports>>

\* report_realtime_status, with the mode at the time it is written.
Report ==
  /\ report_due /\ Len(reports) < MaxFrames
  /\ report_due' = FALSE
  /\ reports' = Append(reports, mpg_mode)
  /\ UNCHANGED <<mpg_mode, tasks, packets>>

\* Power lost and restored: everything but what is already on the wire to
\* the panel is gone.  The greeting that follows carries no MPG field.
PowerCycle ==
  /\ mpg_mode' = FALSE /\ tasks' = <<>> /\ report_due' = FALSE
  /\ packets' = <<>>
  /\ UNCHANGED reports

MachineStep == ReceivePacket \/ ExecuteTask \/ Report

-----------------------------------------------------------------------------
(* An arbitrary panel.                                                      *)
EnvPacket ==
  /\ Len(packets) < MaxFrames
  /\ \E packet \in Packets : packets' = Append(packets, packet)
  /\ UNCHANGED <<mpg_mode, tasks, report_due, reports>>

EnvTakeReport ==
  /\ reports # <<>> /\ reports' = Tail(reports)
  /\ UNCHANGED <<mpg_mode, tasks, report_due, packets>>

Next == MachineStep \/ EnvPacket \/ EnvTakeReport

Spec == Init /\ [][Next]_vars

-----------------------------------------------------------------------------
\* The panel learns the mode from reports alone and reports overtake neither
\* each other nor a change: unless another report is due, the last one on its
\* way tells the mode the machine is in, denied and repeated toggles included.
LastReportCurrent ==
  reports # <<>> /\ ~report_due => reports[Len(reports)] = mpg_mode
=============================================================================
