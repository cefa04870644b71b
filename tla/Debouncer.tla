------------------------------ MODULE Debouncer ------------------------------
(***************************************************************************)
(* The debouncer of the push buttons, update_button_statuses in buttons.c,  *)
(* which the control panel and the pendant share.  A timer interrupt runs   *)
(* it every 10 ms; one iteration of its loop, over one channel, is one      *)
(* action.                                                                  *)
(*                                                                          *)
(* The limit that a counter is compared with, update_time, is one variable  *)
(* for all channels: each button sets it for the others when it changes.    *)
(***************************************************************************)
EXTENDS Naturals

CONSTANTS
  BUTTON_CHANNELS,
  Configured,                       \* the channels given a pin
  UPDATE_TIME_LOW_TO_HIGH_DEFAULT,
  UPDATE_TIME_HIGH_TO_LOW_DEFAULT

Channels == 0..(BUTTON_CHANNELS - 1)

ASSUME ChannelAssumption ==
  BUTTON_CHANNELS \in Nat \ {0} /\ Configured \subseteq Channels

\* Equal by default, and change_update_time is not called.
ASSUME TimeAssumption ==
  /\ UPDATE_TIME_LOW_TO_HIGH_DEFAULT \in Nat
  /\ UPDATE_TIME_LOW_TO_HIGH_DEFAULT >= 2
  /\ UPDATE_TIME_HIGH_TO_LOW_DEFAULT = UPDATE_TIME_LOW_TO_HIGH_DEFAULT

UpdateTime == UPDATE_TIME_LOW_TO_HIGH_DEFAULT

Pins == {"RESET", "SET"}   \* RESET while the button is pressed

VARIABLES
  i,                   \* the channel of the next iteration
  but_stat_channels,   \* the debounced states
  but_stat_cnts,
  update_time,         \* zero until a button has changed
  pin,                 \* the sample of each channel taken last
  steady               \* how many samples in a row it has been that, to UpdateTime

vars == <<i, but_stat_channels, but_stat_cnts, update_time, pin, steady>>

TypeOK ==
  /\ i \in Channels
  /\ but_stat_channels \in [Channels -> Pins]
  /\ but_stat_cnts \in [Channels -> 0..(UpdateTime - 1)]
  /\ update_time \in {0, UpdateTime}
  /\ pin \in [Channels -> Pins]
  /\ steady \in [Channels -> 0..UpdateTime]

\* clear_button_statuses
Init ==
  /\ i = 0
  /\ but_stat_channels = [c \in Channels |-> "RESET"]
  /\ but_stat_cnts = [c \in Channels |-> 0]
  /\ update_time = 0
  /\ pin = [c \in Channels |-> "RESET"]
  /\ steady = [c \in Channels |-> 0]

-----------------------------------------------------------------------------

Iterate == i' = (i + 1) % BUTTON_CHANNELS

Sample(level) ==
  /\ pin' = [pin EXCEPT ![i] = level]
  /\ steady' = [steady EXCEPT ![i] =
       IF level # pin[i] THEN 1 ELSE IF @ < UpdateTime THEN @ + 1 ELSE @]

\* A channel without a pin is passed over.
PassOver == i \notin Configured /\ Iterate
              /\ UNCHANGED <<but_stat_channels, but_stat_cnts, update_time, pin, steady>>

\* Seeded bug: the counter has to pass the limit.
Due_Bug(cnt) == cnt + 1 > update_time

Due(cnt) == cnt + 1 >= update_time

\* The sample differs from the state and it is time to believe it.
Change(level) ==
  /\ i \in Configured /\ level # but_stat_channels[i] /\ Due(but_stat_cnts[i])
  /\ Iterate /\ Sample(level)
  /\ but_stat_channels' = [but_stat_channels EXCEPT ![i] = level]
  /\ but_stat_cnts' = [but_stat_cnts EXCEPT ![i] = 0]
  /\ update_time' = IF level = "SET" THEN UPDATE_TIME_HIGH_TO_LOW_DEFAULT
                                     ELSE UPDATE_TIME_LOW_TO_HIGH_DEFAULT

Count(level) ==
  /\ i \in Configured /\ level # but_stat_channels[i] /\ ~Due(but_stat_cnts[i])
  /\ Iterate /\ Sample(level)
  /\ but_stat_cnts' = [but_stat_cnts EXCEPT ![i] = @ + 1]
  /\ UNCHANGED <<but_stat_channels, update_time>>

\* Seeded bug: a bounce does not count back.
Calmer_Bug(cnt) == cnt

Calmer(cnt) == IF cnt > 0 THEN cnt - 1 ELSE 0

Calm(level) ==
  /\ i \in Configured /\ level = but_stat_channels[i]
  /\ Iterate /\ Sample(level)
  /\ but_stat_cnts' = [but_stat_cnts EXCEPT ![i] = Calmer(@)]
  /\ UNCHANGED <<but_stat_channels, update_time>>

Next == \/ PassOver
        \/ \E level \in Pins : Change(level) \/ Count(level) \/ Calm(level)

Spec == Init /\ [][Next]_vars

-----------------------------------------------------------------------------
(* Properties.                                                              *)

\* However it bounced before, and whatever the other buttons do to
\* update_time, a button that has been steady for the update time is seen.
SettlesInTime ==
  \A c \in Channels : steady[c] >= UpdateTime => but_stat_channels[c] = pin[c]

\* A single bounce changes no button, whatever its counter and the other
\* buttons left behind: a change needs two equal samples in a row at least.
\* Only the first change after power-up, which finds update_time zero, does
\* not.
BounceIgnored ==
  [][\A c \in Channels : but_stat_channels'[c] # but_stat_channels[c]
       => steady'[c] >= 2 \/ update_time = 0]_vars
=============================================================================
