---------------------------- MODULE MachineProofs ----------------------------
(***************************************************************************)
(* Proof that the machine's last report is current, for every number of     *)
(* packets, reports and tasks under way and whatever the panel sends.       *)
(***************************************************************************)
EXTENDS Machine, SequenceTheorems, TLAPS

ReportsAreModes == reports \in Seq(BOOLEAN)

Inv == ReportsAreModes /\ LastReportCurrent

THEOREM InitInv == Init => Inv
BY DEF Init, Inv, ReportsAreModes, LastReportCurrent

\* The report that is written tells the mode that is kept.
LEMMA ReportInv ==
  ASSUME Inv, mpg_mode \in BOOLEAN, Report
  PROVE  Inv'
<1>1. reports \in Seq(BOOLEAN) BY DEF Inv, ReportsAreModes
<1>2. reports' = Append(reports, mpg_mode) /\ mpg_mode' = mpg_mode BY DEF Report
<1>3. reports' \in Seq(BOOLEAN) BY <1>1, <1>2
<1>4. reports'[Len(reports')] = mpg_mode BY <1>1, <1>2
<1> QED BY <1>2, <1>3, <1>4 DEF Inv, ReportsAreModes, LastReportCurrent

\* Taking the oldest report leaves the newest where it is.
LEMMA TakeInv ==
  ASSUME Inv, EnvTakeReport
  PROVE  Inv'
<1>1. reports \in Seq(BOOLEAN) /\ reports # <<>> /\ reports' = Tail(reports)
  BY DEF Inv, ReportsAreModes, EnvTakeReport
<1>2. reports' \in Seq(BOOLEAN) /\ Len(reports') = Len(reports) - 1
  BY <1>1
<1>3. ASSUME reports' # <<>> PROVE reports'[Len(reports')] = reports[Len(reports)]
  <2>1. Len(reports') \in 1..Len(reports') BY <1>2, <1>3, EmptySeq
  <2>2. reports'[Len(reports')] = reports[Len(reports') + 1]
    BY <1>1, <2>1, HeadTailProperties
  <2>3. Len(reports') + 1 = Len(reports) BY <1>1, <1>2
  <2> QED BY <2>2, <2>3
<1> QED
  BY <1>1, <1>2, <1>3 DEF Inv, ReportsAreModes, LastReportCurrent, EnvTakeReport

\* A change or a denial makes a report due.
LEMMA TaskInv ==
  ASSUME Inv, ExecuteTask
  PROVE  Inv'
BY DEF Inv, ReportsAreModes, LastReportCurrent, ExecuteTask, stream_mpg_enable, ReportAfter

ModeType == mpg_mode \in BOOLEAN

LEMMA NextInv == ModeType /\ Inv /\ [Next]_vars => ModeType' /\ Inv'
<1> SUFFICES ASSUME ModeType, Inv, [Next]_vars PROVE ModeType' /\ Inv' OBVIOUS
<1>1. CASE ReceivePacket
  BY <1>1 DEF ReceivePacket, ModeType, Inv, ReportsAreModes, LastReportCurrent
<1>2. CASE ExecuteTask
  BY <1>2, TaskInv DEF ExecuteTask, stream_mpg_enable, ModeType
<1>3. CASE Report
  BY <1>3, ReportInv DEF Report, ModeType
<1>4. CASE EnvPacket
  BY <1>4 DEF EnvPacket, ModeType, Inv, ReportsAreModes, LastReportCurrent
<1>5. CASE EnvTakeReport
  BY <1>5, TakeInv DEF EnvTakeReport, ModeType
<1>6. CASE UNCHANGED vars
  BY <1>6 DEF vars, ModeType, Inv, ReportsAreModes, LastReportCurrent
<1> QED BY <1>1, <1>2, <1>3, <1>4, <1>5, <1>6 DEF Next, MachineStep

\* Unless another report is due, the last one on its way tells the mode the
\* machine is in.
THEOREM LastReportIsCurrent == Spec => []LastReportCurrent
<1>1. Init => ModeType /\ Inv BY InitInv DEF Init, ModeType
<1>2. Inv => LastReportCurrent BY DEF Inv
<1> QED BY <1>1, <1>2, NextInv, PTL DEF Spec
=============================================================================
