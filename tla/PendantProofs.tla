--------------------------- MODULE PendantProofs ---------------------------
(***************************************************************************)
(* Proofs about the MPG pendant, for every encoder width, button delay and  *)
(* number of turns, against an arbitrary control panel.  The hidden turns   *)
(* need arithmetic on the circle of encoder counts, which comes first.      *)
(***************************************************************************)
EXTENDS Pendant, TLAPS

-----------------------------------------------------------------------------
(* Distances on the circle of encoder counts.                               *)

\* A count between one and two turns round the circle is reduced by one.
LEMMA Reduce ==
  ASSUME NEW n \in Nat, n < Modulus + Modulus
  PROVE  n % Modulus = IF n < Modulus THEN n ELSE n - Modulus
<1>1. CASE n < Modulus
  BY <1>1, ModulusAssumption DEF ModulusAssumption
<1>2. CASE n >= Modulus
  BY <1>2, ModulusAssumption DEF ModulusAssumption
<1> QED BY <1>1, <1>2, ModulusAssumption DEF ModulusAssumption

\* The distance without the modulus.
LEMMA DistanceIs ==
  ASSUME NEW a \in Counts, NEW b \in Counts
  PROVE  LET up == IF b >= a THEN b - a ELSE b + Modulus - a
         IN  Distance(a, b) = IF up <= Modulus - up THEN up ELSE Modulus - up
<1>1. /\ a \in Nat /\ b \in Nat /\ Modulus \in Nat
      /\ a < Modulus /\ b < Modulus
  BY ModulusAssumption DEF ModulusAssumption, Counts
<1>2. (b + Modulus - a) % Modulus
        = IF b >= a THEN b - a ELSE b + Modulus - a
  BY <1>1, Reduce
<1> QED BY <1>1, <1>2 DEF Distance

LEMMA DistanceZero ==
  ASSUME NEW a \in Counts
  PROVE  Distance(a, a) = 0
  BY DistanceIs, ModulusAssumption DEF ModulusAssumption, Counts

\* A turn of the handwheel by one step, either way.
LEMMA TurnIs ==
  ASSUME NEW b \in Counts
  PROVE  /\ (b + 1) % Modulus = IF b + 1 = Modulus THEN 0 ELSE b + 1
         /\ (b + (Modulus - 1)) % Modulus
              = IF b = 0 THEN Modulus - 1 ELSE b - 1
  BY Reduce, ModulusAssumption DEF ModulusAssumption, Counts

LEMMA OneStepFurther ==
  ASSUME NEW a \in Counts, NEW b \in Counts, NEW c \in Counts,
         c = (b + 1) % Modulus \/ c = (b + (Modulus - 1)) % Modulus
  PROVE  Distance(a, c) <= Distance(a, b) + 1
<1>1. c = (IF b + 1 = Modulus THEN 0 ELSE b + 1)
        \/ c = (IF b = 0 THEN Modulus - 1 ELSE b - 1)
  BY TurnIs
<1> DEFINE up(x) == IF x >= a THEN x - a ELSE x + Modulus - a
           short(x) == IF up(x) <= Modulus - up(x) THEN up(x)
                                                   ELSE Modulus - up(x)
<1>2. Distance(a, b) = short(b) /\ Distance(a, c) = short(c)
  BY DistanceIs
<1>3. short(c) <= short(b) + 1
  BY <1>1, ModulusAssumption DEF ModulusAssumption, Counts
<1> QED BY <1>2, <1>3

-----------------------------------------------------------------------------
(* Type correctness.                                                        *)

LEMMA TypeStep ==
  ASSUME TypeOK, [Next]_vars
  PROVE  TypeOK'
<1> USE DEF TypeOK, pollVars, inputVars, encVars, statusVars, wireVars
<1>1. CASE TIM4_IRQHandler
  BY <1>1, LockAssumption DEF LockAssumption, TIM4_IRQHandler
<1>2. CASE Turn
  <2>1. CNT' \in Counts
    BY <1>2, ModulusAssumption DEF ModulusAssumption, Turn, Counts
  <2>2. moves' \in 0..MaxMoves
    BY <1>2, MovesAssumption DEF MovesAssumption, Turn
  <2> QED BY <1>2, <2>1, <2>2 DEF Turn
<1>3. CASE MainStep
  <2>1. CASE MainLoop
    BY <2>1 DEF MainLoop
  <2>2. CASE PollButton
    <3>1. button_cnt' \in 0..(button_delay_action_cnt - 1)
      BY <2>2, DelayAssumption DEF DelayAssumption, PollButton, CountAfter, Acts
    <3>2. pc' \in {"encoder", "ask", "disable"}
      BY <2>2 DEF PollButton
    <3> QED BY <2>2, <3>1, <3>2 DEF PollButton
  <2>3. CASE ToggleStatus
    BY <2>3 DEF ToggleStatus, MpgStatus
  <2>4. CASE TestGrant
    BY <2>4 DEF TestGrant
  <2>5. CASE MoveEncoder
    <3>1. CNT' \in Counts /\ encoder_val' \in Counts
      BY <2>5, ModulusAssumption
      DEF ModulusAssumption, MoveEncoder, Store, Restore, Discard, Counts
    <3>2. moves' \in 0..MaxMoves
      BY <2>5, MovesAssumption DEF MovesAssumption, MoveEncoder
    <3> QED BY <2>5, <3>1, <3>2 DEF MoveEncoder
  <2>6. CASE ShowLeds
    BY <2>6 DEF ShowLeds
  <2> QED BY <1>3, <2>1, <2>2, <2>3, <2>4, <2>5, <2>6 DEF MainStep
<1>4. CASE ReceiveRequest
  <2>1. mpg' \in BOOLEAN
    BY <1>4 DEF ReceiveRequest, RequestOn, RequestOff, GrantAfter, Claims,
                Confirms, Withdraws
  <2>2. pendant_mpg_status' \in MpgStatus
    BY <1>4 DEF ReceiveRequest, RequestOn, RequestOff, MpgStatus
  <2>3. pendant_status' \in BOOLEAN
    BY <1>4 DEF ReceiveRequest, RequestOn, RequestOff
  <2>4. answers' \in Answer
    BY <1>4, <2>1 DEF ReceiveRequest, Answer
  <2> QED BY <1>4, <2>1, <2>2, <2>3, <2>4 DEF ReceiveRequest
<1>5. CASE EnvRequest
  BY <1>5 DEF EnvRequest
<1>6. CASE EnvTakeAnswer
  BY <1>6 DEF EnvTakeAnswer
<1>7. CASE UNCHANGED vars
  BY <1>7 DEF vars
<1> QED
  BY <1>1, <1>2, <1>3, <1>4, <1>5, <1>6, <1>7 DEF Next, PendantStep

\* The pendant's state keeps its types, whatever the panel requests.
THEOREM TypeCorrect == Spec => []TypeOK
<1>1. Init => TypeOK
  <2>1. ASSUME Init
        PROVE  /\ encoder_val \in Counts /\ CNT \in Counts
               /\ moves \in 0..MaxMoves
               /\ button_cnt \in 0..(button_delay_action_cnt - 1)
    BY <2>1, ModulusAssumption, MovesAssumption, DelayAssumption
    DEF ModulusAssumption, MovesAssumption, DelayAssumption, Init, Counts
  <2> QED BY <2>1 DEF Init, TypeOK, MpgStatus
<1> QED BY <1>1, TypeStep, PTL DEF Spec

-----------------------------------------------------------------------------
(* Encoder gating.                                                          *)

LEMMA GatingStep ==
  ASSUME TypeOK, NoHiddenTurns, [Next]_vars
  PROVE  NoHiddenTurns'
<1> USE DEF NoHiddenTurns
<1>1. CASE Turn
  <2>1. /\ encoder_val \in Counts /\ CNT \in Counts /\ CNT' \in Counts
        /\ moves \in Nat /\ moves' = moves + 1 /\ encoder_val' = encoder_val
    BY <1>1, TypeStep DEF TypeOK, Turn
  <2>2. CNT' = (CNT + 1) % Modulus \/ CNT' = (CNT + (Modulus - 1)) % Modulus
    BY <1>1 DEF Turn
  <2>3. Distance(encoder_val, CNT') <= Distance(encoder_val, CNT) + 1
    BY <2>1, <2>2, OneStepFurther
  <2>4. /\ Distance(encoder_val, CNT) \in Nat
        /\ Distance(encoder_val, CNT') \in Nat
    BY <2>1, DistanceIs, ModulusAssumption DEF ModulusAssumption, Counts
  <2>5. Distance(encoder_val, CNT)' = Distance(encoder_val, CNT')
    BY <2>1 DEF Distance
  <2> QED BY <2>1, <2>3, <2>4, <2>5
<1>2. CASE MoveEncoder
  \* read, held in place or discarded, the position agrees with the counter
  <2>1. encoder_val' = CNT' /\ moves' = 0 /\ CNT' \in Counts
    BY <1>2, ModulusAssumption
    DEF ModulusAssumption, MoveEncoder, Store, Restore, Discard, TypeOK, Counts
  <2>2. Distance(encoder_val, CNT)' = Distance(CNT', CNT')
    BY <2>1 DEF Distance
  <2> QED BY <2>1, <2>2, DistanceZero
<1>3. CASE ~Turn /\ ~MoveEncoder
  <2>1. UNCHANGED <<encoder_val, CNT, moves>>
    BY <1>3
    DEF Next, PendantStep, TIM4_IRQHandler, MainStep, MainLoop, PollButton,
        ToggleStatus, TestGrant, ShowLeds, ReceiveRequest, EnvRequest,
        EnvTakeAnswer, vars, encVars
  <2> QED BY <2>1 DEF Distance
<1> QED BY <1>1, <1>2, <1>3

\* Turns of the handwheel made under a lock or without the grant never show
\* up later, wherever the reception callback falls into process_inputs.
THEOREM TurnsAreGated == Spec => []NoHiddenTurns
<1>1. Init => NoHiddenTurns
  <2>1. ASSUME Init
        PROVE  0 \in Counts /\ encoder_val = 0 /\ CNT = 0 /\ moves = 0
    BY <2>1, ModulusAssumption DEF ModulusAssumption, Init, Counts
  <2> QED BY <2>1, DistanceZero DEF NoHiddenTurns
<1> QED BY <1>1, GatingStep, TypeCorrect, PTL DEF Spec

-----------------------------------------------------------------------------
(* Who may hold the MPG.                                                    *)

LEMMA HolderStep ==
  ASSUME EnabledOnlyWhenOn, [Next]_vars
  PROVE  EnabledOnlyWhenOn'
<1> USE DEF EnabledOnlyWhenOn
<1>1. CASE ToggleStatus
  BY <1>1 DEF ToggleStatus
<1>2. CASE ReceiveRequest
  BY <1>2 DEF ReceiveRequest, RequestOn, RequestOff
<1>3. CASE ~ToggleStatus /\ ~ReceiveRequest
  <2>1. UNCHANGED statusVars
    BY <1>3
    DEF Next, PendantStep, TIM4_IRQHandler, Turn, MainStep, MainLoop,
        PollButton, TestGrant, MoveEncoder, ShowLeds, EnvRequest,
        EnvTakeAnswer, vars
  <2> QED BY <2>1 DEF statusVars
<1> QED BY <1>1, <1>2, <1>3

\* Only a pendant that is switched on holds the MPG or shows it as enabled.
THEOREM OnlyOnIsEnabled == Spec => []EnabledOnlyWhenOn
<1>1. Init => EnabledOnlyWhenOn
  BY DEF Init, EnabledOnlyWhenOn
<1> QED BY <1>1, HolderStep, PTL DEF Spec
=============================================================================
