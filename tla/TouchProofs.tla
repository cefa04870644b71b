----------------------------- MODULE TouchProofs -----------------------------
(***************************************************************************)
(* Proofs about Touch.tla, for every time after which a transaction is      *)
(* given up.  The three properties are inductive together, once it is said  *)
(* that a handler waits only on behalf of a transaction and that the bus is *)
(* not used while it waits.                                                 *)
(***************************************************************************)
EXTENDS Touch, TLAPS

WaitMatches ==
  waiting # "none" =>
    /\ bus \in {"ready", "stopping"}
    /\ waiting = "tx" => ft5436_flags \in {"POINT_CNT_SENT", "POINT_DATA_REQUEST_SENT"}
    /\ waiting = "rx" => ft5436_flags = "POINT_ARB_RECEIVED"

\* A bus that is still polled by Init_FT5436 has seen no transaction.
PolledFirst == bus = "polled" => ft5436_flags = "none"

Inv ==
  TypeOK /\ NothingLeft /\ StageMatches /\ WaitMatches /\ PolledFirst /\ NoGhost

USE DEF Flags, TypeOK, NothingLeft, StageMatches, WaitMatches, PolledFirst, NoGhost,
    Expected

THEOREM InitInv == Init => Inv
<1> SUFFICES ASSUME Init PROVE Inv OBVIOUS
<1>1. 0 \in 0..ABANDON_TIME BY TimeAssumption DEF TimeAssumption
<1> QED BY <1>1 DEF Init, Inv

\* Time and the bus disturb no flag.
LEMMA BusInv ==
  ASSUME Inv, Polled \/ Moved \/ NoAcknowledge \/ BusError \/ Stopped
  PROVE  Inv'
<1>1. CASE Polled BY <1>1 DEF Inv, Polled
<1>2. CASE Moved BY <1>2 DEF Inv, Moved
<1>3. CASE NoAcknowledge BY <1>3 DEF Inv, NoAcknowledge
<1>4. CASE BusError BY <1>4 DEF Inv, BusError
<1>5. CASE Stopped BY <1>5 DEF Inv, Stopped
<1> QED BY <1>1, <1>2, <1>3, <1>4, <1>5

LEMMA TimeInv ==
  ASSUME Inv, Tick \/ BlinkLed
  PROVE  Inv'
<1>1. elapsed' \in 0..ABANDON_TIME
  <2>1. elapsed \in 0..ABANDON_TIME BY DEF Inv
  <2> QED BY <2>1, TimeAssumption DEF Tick, BlinkLed, TimeAssumption
<1>2. UNCHANGED <<touch_detected, ft5436_flags, bus, transfer, waiting, halted, spoiled>>
  BY DEF Tick, BlinkLed
<1> QED BY <1>1, <1>2 DEF Inv

LEMMA TouchInv ==
  ASSUME Inv, EXTI9_5_IRQHandler
  PROVE  Inv'
<1>1. CASE TouchNoted BY <1>1 DEF Inv, TouchNoted, RequestDue
<1>2. CASE TouchStarts
  BY <1>2, TimeAssumption DEF Inv, TouchStarts, RequestDue, Start, TimeAssumption
<1>3. CASE TouchRefused
  <2>1. ft5436_flags = "none" /\ ft5436_flags' = "none" /\ touch_detected' = TRUE
          /\ UNCHANGED <<bus, transfer, waiting>>
    BY <1>3 DEF TouchRefused, RequestDue, Abandon
  <2>2. elapsed' \in 0..ABANDON_TIME
    <3>1. 0 \in 0..ABANDON_TIME BY TimeAssumption DEF TimeAssumption
    <3> QED BY <1>3, <3>1 DEF Inv, TouchRefused, Abandon
  <2>3. /\ halted' \in BOOLEAN /\ spoiled' \in BOOLEAN
        /\ ~halted' => spoiled'
    <3>1. CASE Abandon /\ UNCHANGED halted BY <3>1 DEF Abandon, Inv
    <3>2. CASE halted' = TRUE /\ UNCHANGED <<ft5436_flags, elapsed, spoiled>>
      BY <3>2 DEF Inv
    <3> QED BY <1>3, <3>1, <3>2 DEF TouchRefused
  <2> QED BY <2>1, <2>2, <2>3 DEF Inv
<1> QED BY <1>1, <1>2, <1>3 DEF EXTI9_5_IRQHandler

LEMMA TransmittedInv ==
  ASSUME Inv, transmission_complete_callback
  PROVE  Inv'
BY DEF Inv, transmission_complete_callback, Served

LEMMA ReceivedInv ==
  ASSUME Inv, ~halted, reception_complete_callback
  PROVE  Inv'
<1>1. CASE CountReceived
  BY <1>1 DEF Inv, reception_complete_callback, CountReceived, TooMany, Served
<1>2. CASE PointsReceived
  BY <1>2 DEF Inv, reception_complete_callback, PointsReceived, Reported, Served
<1> QED BY <1>1, <1>2 DEF reception_complete_callback

LEMMA WaitedInv ==
  ASSUME Inv, BusFree \/ BusBusy
  PROVE  Inv'
<1>1. CASE BusFree
  BY <1>1, TimeAssumption DEF Inv, BusFree, Start, NextTransfer, TimeAssumption
<1>2. CASE BusBusy
  BY <1>2, TimeAssumption DEF Inv, BusBusy, Abandon, TimeAssumption
<1> QED BY <1>1, <1>2

LEMMA NextInv == Inv /\ [Next]_vars => Inv'
<1> SUFFICES ASSUME Inv, [Next]_vars PROVE Inv' OBVIOUS
<1>1. CASE UNCHANGED vars BY <1>1 DEF Inv, vars
<1>2. CASE Next
  BY <1>2, BusInv, TimeInv, TouchInv, TransmittedInv, ReceivedInv, WaitedInv
  DEF Next, Handlers
<1> QED BY <1>1, <1>2

LEMMA AlwaysInv == Spec => []Inv
BY InitInv, NextInv, PTL DEF Spec

\* A given-up transaction leaves nothing behind for the next one.
THEOREM NothingIsLeft == Spec => []NothingLeft
<1>1. Inv => NothingLeft BY DEF Inv
<1> QED BY <1>1, AlwaysInv, PTL

\* What completes is what the flags make of it.
THEOREM StagesMatch == Spec => []StageMatches
<1>1. Inv => StageMatches BY DEF Inv
<1> QED BY <1>1, AlwaysInv, PTL

\* A touch without a transaction is one of a given-up transaction.
THEOREM GhostsAreSpoiled == Spec => []NoGhost
<1>1. Inv => NoGhost BY DEF Inv
<1> QED BY <1>1, AlwaysInv, PTL
=============================================================================
