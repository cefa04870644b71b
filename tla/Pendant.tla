------------------------------ MODULE Pendant ------------------------------
(***************************************************************************)
(* The MPG pendant (STM32F103): the main loop that polls the MPG button and *)
(* gates the encoders, the TIM4 tick that paces it, and the USART2          *)
(* reception callback that obeys the control panel's requests and answers   *)
(* them.  The callback preempts the main loop anywhere, so process_inputs   *)
(* is split where it reads and where it writes the state they share.        *)
(*                                                                          *)
(* One encoder stands for both (the code treats them alike); its counter    *)
(* is the hardware timer's, taken modulo Modulus.                           *)
(***************************************************************************)
EXTENDS Naturals

CONSTANTS
  button_delay_action_cnt,  \* polls between two actions of a held button
  Modulus,                  \* values of the encoder counter, 2^16 in the code
  MaxMoves,                 \* bound: turns of the handwheel between two polls
  LockPositions,            \* positions of the lock switch considered
  None                      \* no frame on the wire

ASSUME DelayAssumption == button_delay_action_cnt \in Nat \ {0, 1}
ASSUME ModulusAssumption == Modulus \in Nat \ {0}
ASSUME MovesAssumption == MaxMoves \in Nat
ASSUME LockAssumption == LockPositions \subseteq BOOLEAN

VARIABLES
  pendant_status, pendant_mpg_status,
  mpg, encoder_val,       \* of pendant_data, what an answer carries
  CNT,                    \* the encoder timer
  locked,                 \* the debounced axis lock switch
  mpg_button,             \* the debounced MPG button: "pressed" or "released"
  button_cnt,             \* button_action_delay_cnt_ch[MPG_BUT_DELAY_CH]
  process_inputs_flag,
  pc,                     \* where the main loop is inside process_inputs
  MPG_ON_LED,             \* the lamp beside the MPG button
  moves,                  \* handwheel turns since a poll last read CNT
  requests, answers       \* the frame on the wire each way, or None

pollVars   == <<process_inputs_flag, pc, button_cnt, MPG_ON_LED>>
inputVars  == <<mpg_button, locked>>
encVars    == <<encoder_val, CNT, moves>>
statusVars == <<pendant_status, pendant_mpg_status, mpg>>
wireVars   == <<requests, answers>>
vars == <<pollVars, inputVars, encVars, statusVars, wireVars>>

MpgStatus == {"DISABLED", "ENABLED", "ENABLE_ONGOING"}
Request   == [status : BOOLEAN, mpg : MpgStatus]
Counts    == 0..(Modulus - 1)
Answer    == [mpg : BOOLEAN, encoder : Counts]

ASSUME NoneAssumption == None \notin Request \cup Answer

TypeOK ==
  /\ pendant_status \in BOOLEAN
  /\ pendant_mpg_status \in MpgStatus
  /\ mpg \in BOOLEAN
  /\ encoder_val \in Counts
  /\ CNT \in Counts
  /\ locked \in BOOLEAN
  /\ mpg_button \in {"pressed", "released"}
  /\ button_cnt \in 0..(button_delay_action_cnt - 1)
  /\ process_inputs_flag \in BOOLEAN
  /\ pc \in {"loop", "button", "disable", "ask", "encoder", "store",
             "restore", "discard", "leds"}
  /\ MPG_ON_LED \in BOOLEAN
  /\ moves \in 0..MaxMoves
  /\ requests \in Request \cup {None}
  /\ answers \in Answer \cup {None}

Init ==
  /\ pendant_status = FALSE /\ pendant_mpg_status = "DISABLED" /\ mpg = FALSE
  /\ encoder_val = 0 /\ CNT = 0 /\ moves = 0
  \* but_stat_channels starts at zero, which reads as pressed and unlocked
  /\ locked = FALSE /\ mpg_button = "pressed" /\ button_cnt = 0
  /\ process_inputs_flag = FALSE /\ pc = "loop" /\ MPG_ON_LED = FALSE
  /\ requests = None /\ answers = None

-----------------------------------------------------------------------------
(* TIM4: TIM4_INT_ENTRIES interrupts, in which the debouncer may have moved *)
(* the button and the lock, and after which the inputs are to be processed. *)
TIM4_IRQHandler ==
  /\ process_inputs_flag' = TRUE
  /\ mpg_button' \in {"pressed", "released"}
  /\ locked' \in LockPositions
  /\ UNCHANGED <<pc, button_cnt, MPG_ON_LED, encVars, statusVars, wireVars>>

\* The encoder timer counts a turn of the handwheel either way, at any time.
Turn ==
  /\ moves < MaxMoves
  /\ moves' = moves + 1
  /\ \E step \in {1, Modulus - 1} : CNT' = (CNT + step) % Modulus
  /\ UNCHANGED <<encoder_val, pollVars, inputVars, statusVars, wireVars>>

-----------------------------------------------------------------------------
(* The main loop.                                                           *)

MainLoop ==
  /\ pc = "loop" /\ process_inputs_flag /\ pendant_status
  /\ pc' = "button"
  /\ UNCHANGED <<process_inputs_flag, button_cnt, MPG_ON_LED, inputVars,
                 encVars, statusVars, wireVars>>

\* A held button acts at its first poll and at every
\* button_delay_action_cnt-th, after which counting starts anew; seeded bug:
\* it does not.
Acts(polls) == polls = 1 \/ polls >= button_delay_action_cnt
CountAfter_Bug(polls) == polls
CountAfter(polls) == IF Acts(polls) /\ polls # 1 THEN 0 ELSE polls

PollButton ==
  /\ pc = "button"
  /\ \/ /\ mpg_button = "pressed"
        /\ button_cnt' = CountAfter(button_cnt + 1)
        /\ pc' = IF ~Acts(button_cnt + 1) THEN "encoder"
                 ELSE IF pendant_mpg_status = "DISABLED" THEN "ask"
                 ELSE "disable"
     \/ /\ mpg_button = "released"
        /\ button_cnt' = 0
        /\ pc' = "encoder"
  /\ UNCHANGED <<process_inputs_flag, MPG_ON_LED, inputVars, encVars,
                 statusVars, wireVars>>

ToggleStatus ==
  /\ \/ pc = "ask"     /\ pendant_mpg_status' = "ENABLE_ONGOING"
     \/ pc = "disable" /\ pendant_mpg_status' = "DISABLED"
  /\ pc' = "encoder"
  /\ UNCHANGED <<process_inputs_flag, button_cnt, MPG_ON_LED, inputVars,
                 encVars, pendant_status, mpg, wireVars>>

\* With the MPG granted a free axis is read and a locked one held in place;
\* without it the turns are discarded.
TestGrant ==
  /\ pc = "encoder"
  /\ pc' = IF pendant_status /\ mpg
           THEN IF locked THEN "restore" ELSE "store"
           ELSE "discard"
  /\ UNCHANGED <<process_inputs_flag, button_cnt, MPG_ON_LED, inputVars,
                 encVars, statusVars, wireVars>>

\* Seeded bugs: a locked axis is not held in place; the last position is
\* kept when the turns are discarded.
Restore_Bug == UNCHANGED <<CNT, encoder_val>>
Discard_Bug == CNT' = 0 /\ UNCHANGED encoder_val

Store   == encoder_val' = CNT /\ UNCHANGED CNT
Restore == CNT' = encoder_val /\ UNCHANGED encoder_val
Discard == encoder_val' = 0 /\ CNT' = 0

MoveEncoder ==
  /\ \/ pc = "store"   /\ Store
     \/ pc = "restore" /\ Restore
     \/ pc = "discard" /\ Discard
  /\ moves' = 0
  /\ pc' = "leds"
  /\ UNCHANGED <<process_inputs_flag, button_cnt, MPG_ON_LED,
                 inputVars, statusVars, wireVars>>

\* The rest of process_inputs, and the flag the main loop resets after it.
ShowLeds ==
  /\ pc = "leds"
  /\ MPG_ON_LED' = CASE pendant_mpg_status = "ENABLED"  -> TRUE
                     [] pendant_mpg_status = "DISABLED" -> FALSE
                     [] OTHER -> MPG_ON_LED
  /\ process_inputs_flag' = FALSE
  /\ pc' = "loop"
  /\ UNCHANGED <<button_cnt, inputVars, encVars, statusVars, wireVars>>

MainStep == \/ MainLoop \/ PollButton \/ ToggleStatus
            \/ TestGrant \/ MoveEncoder \/ ShowLeds

-----------------------------------------------------------------------------
(* HAL_UARTEx_RxEventCallback: a request, obeyed and answered at once.      *)

\* The pendant has asked for the MPG and the panel has not taken it up yet.
Claims_Bug(asked) ==   \* seeded bug: waits for a request the panel never makes
  asked = "ENABLE_ONGOING" /\ pendant_mpg_status = "ENABLE_ONGOING" /\ ~mpg

Claims(asked) ==
  asked = "DISABLED" /\ pendant_mpg_status = "ENABLE_ONGOING" /\ ~mpg

\* The panel grants what the pendant asked for.
Confirms(asked) ==
  asked = "ENABLED" /\ pendant_mpg_status = "ENABLE_ONGOING"

\* One side has switched the MPG off while the other still has it on.
Withdraws(asked) ==
  \/ asked = "ENABLED"  /\ pendant_mpg_status = "DISABLED"
  \/ asked = "DISABLED" /\ pendant_mpg_status = "ENABLED" /\ mpg

\* Seeded bug: confirming leaves the mpg flag as it is.
GrantAfter_Bug(asked) == (mpg \/ Claims(asked)) /\ ~Withdraws(asked)

GrantAfter(asked) ==
  (mpg \/ Claims(asked) \/ Confirms(asked)) /\ ~Withdraws(asked)

RequestOn(asked) ==
  /\ pendant_status' = TRUE
  /\ mpg' = GrantAfter(asked)
  /\ pendant_mpg_status' =
       IF Confirms(asked) THEN "ENABLED" ELSE pendant_mpg_status

\* Seeded bug: the status is not reset with the flag.
RequestOff_Bug ==
  /\ pendant_status' = FALSE
  /\ mpg' = FALSE
  /\ UNCHANGED pendant_mpg_status

RequestOff ==
  /\ pendant_status' = FALSE
  /\ pendant_mpg_status' = "DISABLED"
  /\ mpg' = FALSE

ReceiveRequest ==
  /\ requests # None /\ answers = None
  /\ \/ requests.status  /\ RequestOn(requests.mpg)
     \/ ~requests.status /\ RequestOff
  /\ requests' = None
  /\ answers' = [mpg |-> mpg', encoder |-> encoder_val]
  /\ UNCHANGED <<pollVars, inputVars, encVars>>

-----------------------------------------------------------------------------
(* An arbitrary control panel, on a cable that may lose frames.             *)

\* A request is sent, rewritten while it is being sent, or lost.
EnvRequest ==
  /\ requests' \in Request \cup {None}
  /\ UNCHANGED <<pollVars, inputVars, encVars, statusVars, answers>>

EnvTakeAnswer ==
  /\ answers # None /\ answers' = None
  /\ UNCHANGED <<pollVars, inputVars, encVars, statusVars, requests>>

PendantStep == TIM4_IRQHandler \/ Turn \/ MainStep \/ ReceiveRequest

Next == PendantStep \/ EnvRequest \/ EnvTakeAnswer

Spec == Init /\ [][Next]_vars

\* TIM4 fires and the main loop runs.
FairSpec == Spec /\ WF_vars(TIM4_IRQHandler) /\ WF_vars(MainStep)

-----------------------------------------------------------------------------
(* Properties.                                                              *)

\* Steps from a to b on the wheel, the shorter way round.
Distance(a, b) ==
  LET up == (b + Modulus - a) % Modulus
  IN  IF up <= Modulus - up THEN up ELSE Modulus - up

\* No hidden turns: what the next poll can add to the position the panel sees
\* is what the handwheel turned since the last one; turns made under a lock
\* or without the grant never show up when the lock opens or the grant comes,
\* wherever the callback falls into process_inputs.
NoHiddenTurns == Distance(encoder_val, CNT) <= moves

\* Only a pendant that is switched on holds the MPG or shows it as enabled,
\* though the main loop flips its status between the panel's requests.
EnabledOnlyWhenOn ==
  mpg \/ pendant_mpg_status = "ENABLED" => pendant_status

\* A pendant the panel has switched off for good does not keep its MPG lamp
\* lit ("Turn off system LEDs" in process_inputs, "Turn off system" in the
\* callback).
LampGoesOut == <>[]~pendant_status => <>[]~MPG_ON_LED
=============================================================================
