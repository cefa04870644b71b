-------------------------------- MODULE Touch --------------------------------
(***************************************************************************)
(* The touch controller's driver, ft5436.c: an edge on its interrupt line   *)
(* starts a transaction on the I2C bus that is carried on by the completion *)
(* interrupts of two DMA streams.  The number of the register is sent, one  *)
(* byte is read, the number is sent again and the points are read.          *)
(*                                                                          *)
(* By priority the line's interrupt is above the bus's, and this above the  *)
(* two streams'; the main loop is below them all.  While a stream's handler *)
(* waits for the bus, the line and the bus are served but not the main      *)
(* loop.  The coordinates themselves are left out.                          *)
(***************************************************************************)
EXTENDS Naturals

CONSTANT ABANDON_TIME   \* 2 ms

ASSUME TimeAssumption == ABANDON_TIME \in Nat \ {0}

Flags == {"none", "POINT_CNT_SENT", "POINT_ARB_RECEIVED", "POINT_DATA_REQUEST_SENT"}

VARIABLES
  touch_detected,
  ft5436_flags,
  bus,        \* polled by Init_FT5436; ready; moving bytes; done or aborted
              \* with the DMA interrupt pending; stopping until the STOP
              \* condition has been handled; lost by an error
  transfer,   \* the bytes on their way: the number of a register, one byte,
              \* or all the points
  waiting,    \* the handler that waits in while(BUSY)
  elapsed,    \* ms since wait channel 1 was reset, up to ABANDON_TIME
  halted,     \* in Error_Handler, with interrupts disabled
  spoiled     \* the transaction before was given up

vars == <<touch_detected, ft5436_flags, bus, transfer, waiting, elapsed, halted, spoiled>>

TypeOK ==
  /\ touch_detected \in BOOLEAN
  /\ ft5436_flags \in Flags
  /\ bus \in {"polled", "ready", "moving", "done", "aborted", "stopping", "lost"}
  /\ transfer \in {"none", "register", "byte", "points"}
  /\ waiting \in {"none", "tx", "rx"}
  /\ elapsed \in 0..ABANDON_TIME
  /\ halted \in BOOLEAN
  /\ spoiled \in BOOLEAN

Init ==
  /\ touch_detected = FALSE /\ ft5436_flags = "none"
  /\ bus = "polled" /\ transfer = "none" /\ waiting = "none"
  /\ elapsed = 0 /\ halted = FALSE /\ spoiled = FALSE

-----------------------------------------------------------------------------
(* The bus and the time.                                                    *)

\* Init_FT5436 has exchanged its bytes.
Polled ==
  /\ bus = "polled" /\ bus' = "ready"
  /\ UNCHANGED <<touch_detected, ft5436_flags, transfer, waiting, elapsed, halted, spoiled>>

\* The DMA stream has moved the last byte; the STOP condition is to follow.
Moved ==
  /\ bus = "moving" /\ bus' = "done"
  /\ UNCHANGED <<touch_detected, ft5436_flags, transfer, waiting, elapsed, halted, spoiled>>

\* No acknowledge: the HAL aborts the stream, and this raises the interrupt of
\* a completed one.
NoAcknowledge ==
  /\ bus = "moving" /\ bus' = "aborted"
  /\ UNCHANGED <<touch_detected, ft5436_flags, transfer, waiting, elapsed, halted, spoiled>>

\* A misplaced START or STOP, or an arbitration lost: the HAL leaves the stream
\* as it is, and no interrupt comes any more.
BusError ==
  /\ bus = "moving" /\ bus' = "lost"
  /\ UNCHANGED <<touch_detected, ft5436_flags, transfer, waiting, elapsed, halted, spoiled>>

\* The bus's interrupt: the HAL is ready again.
Stopped ==
  /\ bus = "stopping" /\ bus' = "ready" /\ transfer' = "none"
  /\ UNCHANGED <<touch_detected, ft5436_flags, waiting, elapsed, halted, spoiled>>

Tick ==
  /\ elapsed < ABANDON_TIME /\ elapsed' = elapsed + 1
  /\ UNCHANGED <<touch_detected, ft5436_flags, bus, transfer, waiting, halted, spoiled>>

\* The main loop's LED is on the same wait channel.  Its period is not
\* respected: a call of wait_ms_ch that is interrupted by another goes on
\* with the other's start and end, which are static.
BlinkLed ==
  /\ waiting = "none" /\ elapsed > 0 /\ elapsed' = 0
  /\ UNCHANGED <<touch_detected, ft5436_flags, bus, transfer, waiting, halted, spoiled>>

-----------------------------------------------------------------------------
(* The driver.                                                              *)

\* HAL_I2C_Master_Transmit_DMA or Receive_DMA, after reset_wait_ms_ch.
Start(bytes) == bus' = "moving" /\ transfer' = bytes /\ elapsed' = 0

\* wait_ms_ch(1, 2): the transaction is given up; touch_detected stays.
Abandon == ft5436_flags' = "none" /\ elapsed' = 0 /\ spoiled' = TRUE

\* Seeded bug: a touch starts a transaction whatever the flags say.
RequestDue_Bug == TRUE

RequestDue == ft5436_flags = "none"

\* A touch while a transaction is under way is only noted.
TouchNoted ==
  /\ ~RequestDue
  /\ touch_detected' = TRUE
  /\ UNCHANGED <<ft5436_flags, bus, transfer, waiting, elapsed, halted, spoiled>>

TouchStarts ==
  /\ RequestDue /\ bus = "ready"
  /\ touch_detected' = TRUE /\ ft5436_flags' = "POINT_CNT_SENT"
  /\ Start("register")
  /\ UNCHANGED <<waiting, halted, spoiled>>

\* The bus is waited for, not the HAL, whose interrupt is below this one: it
\* refuses the transmission, unless the wait has taken too long.
TouchRefused ==
  /\ RequestDue /\ bus # "ready"
  /\ touch_detected' = TRUE
  /\ \/ Abandon /\ UNCHANGED halted
     \/ halted' = TRUE /\ UNCHANGED <<ft5436_flags, elapsed, spoiled>>
  /\ UNCHANGED <<bus, transfer, waiting>>

\* EXTI9_5_IRQHandler with request_available_points.
EXTI9_5_IRQHandler == TouchNoted \/ TouchStarts \/ TouchRefused

\* The bus once its DMA interrupt is served; an aborted transfer has ended
\* with its STOP condition already, unless the controller holds the bus.
Served == \/ bus' = "stopping"
          \/ bus = "aborted" /\ bus' = "ready"

\* transmission_complete_callback, up to its wait for the bus.
transmission_complete_callback ==
  /\ bus \in {"done", "aborted"} /\ transfer = "register" /\ waiting = "none"
  /\ Served
  /\ ft5436_flags' = IF ft5436_flags = "POINT_ARB_RECEIVED"
                     THEN "POINT_DATA_REQUEST_SENT" ELSE ft5436_flags
  /\ waiting' = IF ft5436_flags \in {"POINT_CNT_SENT", "POINT_ARB_RECEIVED"}
                THEN "tx" ELSE "none"
  /\ UNCHANGED <<touch_detected, transfer, elapsed, halted, spoiled>>

\* Seeded bug: too many points do not end the transaction.
TooMany_Bug == "POINT_CNT_SENT"

TooMany == "none"

\* Seeded bug: touch_detected is not reset with the points.
Reported_Bug == touch_detected

Reported == FALSE

\* reception_complete_callback, up to its wait for the bus: the byte tells
\* too many points, or how many there are; or it is the points.
CountReceived ==
  /\ ft5436_flags = "POINT_CNT_SENT"
  /\ \/ ft5436_flags' = TooMany /\ waiting' = "none" /\ spoiled' = TRUE
     \/ ft5436_flags' = "POINT_ARB_RECEIVED" /\ waiting' = "rx" /\ UNCHANGED spoiled
  /\ UNCHANGED touch_detected

PointsReceived ==
  /\ ft5436_flags = "POINT_DATA_REQUEST_SENT"
  /\ ft5436_flags' = "none" /\ touch_detected' = Reported /\ spoiled' = FALSE
  /\ UNCHANGED waiting

reception_complete_callback ==
  /\ bus \in {"done", "aborted"} /\ transfer \in {"byte", "points"} /\ waiting = "none"
  /\ Served
  /\ CountReceived \/ PointsReceived
  /\ UNCHANGED <<transfer, elapsed, halted>>

\* Seeded bug: the time that has passed is not looked at.
Overdue_Bug == FALSE

Overdue == elapsed = ABANDON_TIME

\* What a handler starts once the bus is free.
NextTransfer ==
  IF waiting = "rx" THEN "register"
  ELSE IF ft5436_flags = "POINT_CNT_SENT" THEN "byte" ELSE "points"

BusFree ==
  /\ waiting # "none" /\ bus = "ready"
  /\ Start(NextTransfer) /\ waiting' = "none"
  /\ UNCHANGED <<touch_detected, ft5436_flags, halted, spoiled>>

BusBusy ==
  /\ waiting # "none" /\ bus # "ready" /\ Overdue
  /\ Abandon /\ waiting' = "none"
  /\ UNCHANGED <<touch_detected, bus, transfer, halted>>

Handlers == \/ transmission_complete_callback \/ reception_complete_callback
            \/ BusFree \/ BusBusy

Next == ~halted /\ \/ Polled \/ Moved \/ NoAcknowledge \/ BusError \/ Stopped \/ Tick \/ BlinkLed
                   \/ EXTI9_5_IRQHandler \/ Handlers

\* Interrupts are served, time passes and the controller answers or is found
\* not to; that the bus is ever released after an answer is not assumed.
Fairness ==
  /\ WF_vars(~halted /\ (Moved \/ NoAcknowledge \/ BusError))
  /\ WF_vars(~halted /\ Handlers)
  /\ WF_vars(~halted /\ Tick)

Spec == Init /\ [][Next]_vars
FairSpec == Spec /\ Fairness

-----------------------------------------------------------------------------
(* Properties.                                                              *)

\* When the flags say that there is no transaction, no transfer is moving or
\* about to be reported, and no handler will start one: the transaction that
\* a touch starts next cannot be mixed up with a given-up one.
NothingLeft ==
  ft5436_flags = "none" =>
    waiting = "none" /\ bus \in {"polled", "ready", "stopping"}

\* What the flags have to be when a transfer completes.
Expected ==
  [register |-> {"POINT_CNT_SENT", "POINT_ARB_RECEIVED"},
   byte     |-> {"POINT_CNT_SENT"},
   points   |-> {"POINT_DATA_REQUEST_SENT"}]

\* The transfer that is moving is the one that the flags make of it when it
\* completes: the one byte is never taken for the points.
StageMatches ==
  bus \in {"moving", "done", "aborted"} =>
    transfer # "none" /\ ft5436_flags \in Expected[transfer]

\* The menu reads touch_detected.  Without a transaction it is set only after
\* one was given up: then the last touch is seen at every poll until the
\* next.
NoGhost == ft5436_flags = "none" /\ touch_detected /\ ~halted => spoiled

\* A transaction ends, even on a bus that is never released, for a bus that
\* is held too long is given up.  Only a bus error stops it, for good.
TransactionEnds == []<>(ft5436_flags = "none" \/ bus = "lost")

\* A transmission is begun only when the HAL is ready for it ("Wait for I2C to
\* switch to READY state", ft5436.c).
StartsWhenReady == ~halted
=============================================================================
