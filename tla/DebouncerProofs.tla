--------------------------- MODULE DebouncerProofs ---------------------------
(***************************************************************************)
(* Proofs about Debouncer.tla, for every number of channels and every       *)
(* update time of two samples or more.                                      *)
(*                                                                          *)
(* The invariant relates a channel's counter to the samples it has seen:    *)
(* while the last sample differs from the state the counter is no less than *)
(* the run of such samples, and after a sample that agrees it is two below  *)
(* the limit, so that one bounce cannot reach it.                           *)
(***************************************************************************)
EXTENDS Debouncer, TLAPS

Agreeing(c) ==
  pin[c] = but_stat_channels[c] => but_stat_cnts[c] + 2 <= UpdateTime

Differing(c) ==
  pin[c] # but_stat_channels[c] => 1 <= steady[c] /\ steady[c] <= but_stat_cnts[c]

Tracked == \A c \in Channels : Agreeing(c) /\ Differing(c)

Inv == TypeOK /\ Tracked

\* The next channel is a channel.
LEMMA IterateType ==
  ASSUME NEW k \in Channels
  PROVE  (k + 1) % BUTTON_CHANNELS \in Channels
BY ChannelAssumption DEF Channels, ChannelAssumption

\* One sample, however it came out: what is recorded of it has its type, and
\* other channels keep theirs.
LEMMA SampleType ==
  ASSUME TypeOK, NEW level \in Pins, Sample(level)
  PROVE  /\ pin' \in [Channels -> Pins]
         /\ steady' \in [Channels -> 0..UpdateTime]
         /\ pin'[i] = level
         /\ steady'[i] = (IF level # pin[i] THEN 1 ELSE
              IF steady[i] < UpdateTime THEN steady[i] + 1 ELSE steady[i])
         /\ \A c \in Channels \ {i} : pin'[c] = pin[c] /\ steady'[c] = steady[c]
<1>1. i \in Channels /\ pin \in [Channels -> Pins] /\ steady \in [Channels -> 0..UpdateTime]
  BY DEF TypeOK
<1>2. UpdateTime \in Nat /\ UpdateTime >= 2
  BY TimeAssumption DEF TimeAssumption, UpdateTime
<1>3. (IF level # pin[i] THEN 1 ELSE
         IF steady[i] < UpdateTime THEN steady[i] + 1 ELSE steady[i]) \in 0..UpdateTime
  BY <1>1, <1>2
<1> QED BY <1>1, <1>2, <1>3 DEF Sample

THEOREM InitInv == Init => Inv
BY ChannelAssumption, TimeAssumption
DEF Init, Inv, TypeOK, Tracked, Agreeing, Differing, Channels, Pins, UpdateTime,
    ChannelAssumption, TimeAssumption

LEMMA ChangeInv ==
  ASSUME Inv, NEW level \in Pins, Change(level)
  PROVE  Inv'
<1>1. TypeOK /\ i \in Channels BY DEF Inv, TypeOK
<1>2. UpdateTime \in Nat /\ UpdateTime >= 2 /\ update_time' = UpdateTime
  BY TimeAssumption DEF Change, TimeAssumption, UpdateTime
<1>3. Sample(level) BY DEF Change
<1>4. TypeOK'
  BY <1>1, <1>2, <1>3, SampleType, IterateType DEF Change, Iterate, TypeOK
<1>5. Tracked'
  BY <1>1, <1>2, <1>3, SampleType DEF Inv, TypeOK, Change, Tracked, Agreeing, Differing
<1> QED BY <1>4, <1>5 DEF Inv

LEMMA CountInv ==
  ASSUME Inv, NEW level \in Pins, Count(level)
  PROVE  Inv'
<1>1. TypeOK /\ i \in Channels BY DEF Inv, TypeOK
<1>2. UpdateTime \in Nat /\ UpdateTime >= 2
  BY TimeAssumption DEF TimeAssumption, UpdateTime
<1>3. Sample(level) BY DEF Count
<1>4. but_stat_cnts[i] \in Nat /\ but_stat_cnts[i] + 1 < UpdateTime
  BY <1>1, <1>2 DEF TypeOK, Count, Due
<1>5. TypeOK'
  BY <1>1, <1>2, <1>3, <1>4, SampleType, IterateType DEF Count, Iterate, TypeOK
<1>6. ASSUME NEW c \in Channels PROVE (Agreeing(c) /\ Differing(c))'
  <2>1. CASE c = i
    <3>1. pin'[i] # but_stat_channels'[i]
      BY <1>1, <1>3, SampleType DEF Count
    <3>2. but_stat_cnts'[i] = but_stat_cnts[i] + 1
      BY <1>1 DEF Count, TypeOK
    <3>3. level # pin[i] => pin[i] = but_stat_channels[i]
      BY <1>1 DEF TypeOK, Pins, Count
    <3>4. level = pin[i] => 1 <= steady[i] /\ steady[i] <= but_stat_cnts[i]
      BY <1>1 DEF Inv, Tracked, Differing, Count
    <3>5. 1 <= steady'[i] /\ steady'[i] <= but_stat_cnts[i] + 1
      BY <1>1, <1>2, <1>3, <1>4, <3>4, SampleType DEF TypeOK
    <3> QED BY <2>1, <3>1, <3>2, <3>5 DEF Agreeing, Differing
  <2>2. CASE c # i
    BY <1>1, <1>3, <2>2, SampleType DEF Inv, Tracked, Agreeing, Differing, Count, TypeOK
  <2> QED BY <2>1, <2>2
<1> QED BY <1>5, <1>6 DEF Inv, Tracked

LEMMA CalmInv ==
  ASSUME Inv, NEW level \in Pins, Calm(level)
  PROVE  Inv'
<1>1. TypeOK /\ i \in Channels BY DEF Inv, TypeOK
<1>2. UpdateTime \in Nat /\ UpdateTime >= 2
  BY TimeAssumption DEF TimeAssumption, UpdateTime
<1>3. Sample(level) BY DEF Calm
<1>4. Calmer(but_stat_cnts[i]) \in 0..(UpdateTime - 1) /\ Calmer(but_stat_cnts[i]) + 2 <= UpdateTime
  BY <1>1, <1>2 DEF TypeOK, Calmer
<1>5. TypeOK'
  BY <1>1, <1>2, <1>3, <1>4, SampleType, IterateType DEF Calm, Iterate, TypeOK
<1>6. Tracked'
  BY <1>1, <1>2, <1>3, <1>4, SampleType DEF Inv, TypeOK, Calm, Tracked, Agreeing, Differing
<1> QED BY <1>5, <1>6 DEF Inv

LEMMA NextInv == Inv /\ [Next]_vars => Inv'
<1> SUFFICES ASSUME Inv, [Next]_vars PROVE Inv' OBVIOUS
<1>1. CASE PassOver
  BY <1>1, IterateType DEF PassOver, Iterate, Inv, TypeOK, Tracked, Agreeing, Differing
<1>2. ASSUME NEW level \in Pins, Change(level) PROVE Inv' BY <1>2, ChangeInv
<1>3. ASSUME NEW level \in Pins, Count(level) PROVE Inv' BY <1>3, CountInv
<1>4. ASSUME NEW level \in Pins, Calm(level) PROVE Inv' BY <1>4, CalmInv
<1>5. CASE UNCHANGED vars
  BY <1>5 DEF vars, Inv, TypeOK, Tracked, Agreeing, Differing
<1> QED BY <1>1, <1>2, <1>3, <1>4, <1>5 DEF Next

LEMMA AlwaysInv == Spec => []Inv
BY InitInv, NextInv, PTL DEF Spec

\* The counters stay below the update time, whatever the pins do.
THEOREM TypeCorrect == Spec => []TypeOK
<1>1. Inv => TypeOK BY DEF Inv
<1> QED BY <1>1, AlwaysInv, PTL

\* A button that has been steady for the update time is seen.
THEOREM Settles == Spec => []SettlesInTime
<1>1. Inv => SettlesInTime
  <2> SUFFICES ASSUME Inv, NEW c \in Channels, steady[c] >= UpdateTime,
                      pin[c] # but_stat_channels[c]
               PROVE FALSE
    BY DEF SettlesInTime
  <2>1. steady[c] <= but_stat_cnts[c] /\ but_stat_cnts[c] < UpdateTime
    BY TimeAssumption DEF Inv, Tracked, Differing, TypeOK, TimeAssumption, UpdateTime
  <2>2. steady[c] \in Nat /\ but_stat_cnts[c] \in Nat /\ UpdateTime \in Nat
    BY TimeAssumption DEF Inv, TypeOK, TimeAssumption, UpdateTime
  <2> QED BY <2>1, <2>2
<1> QED BY <1>1, AlwaysInv, PTL

\* A change of a button follows two equal samples in a row.
LEMMA TwoSamples ==
  ASSUME Inv, [Next]_vars, NEW c \in Channels,
         but_stat_channels'[c] # but_stat_channels[c], update_time # 0
  PROVE  steady'[c] >= 2
<1>1. PICK level \in Pins : Change(level) /\ c = i
  BY DEF Next, vars, PassOver, Change, Count, Calm, Inv, TypeOK
<1>2. TypeOK /\ Sample(level) /\ update_time = UpdateTime
  BY <1>1 DEF Inv, TypeOK, Change
<1>3. UpdateTime \in Nat /\ UpdateTime >= 2
  BY TimeAssumption DEF TimeAssumption, UpdateTime
<1>4. but_stat_cnts[i] \in Nat /\ steady[i] \in Nat /\ but_stat_cnts[i] + 1 >= UpdateTime
  BY <1>1, <1>2, <1>3 DEF TypeOK, Change, Due
<1>5. pin[i] # but_stat_channels[i]
  BY <1>1, <1>3, <1>4 DEF Inv, Tracked, Agreeing
<1>6. pin[i] = level
  BY <1>1, <1>2, <1>5 DEF TypeOK, Pins, Change
<1>7. 1 <= steady[i]
  BY <1>1, <1>5 DEF Inv, Tracked, Differing
<1> QED BY <1>1, <1>2, <1>3, <1>4, <1>6, <1>7, SampleType

\* A single bounce changes no button once a first one has changed.
THEOREM BouncesAreIgnored == Spec => BounceIgnored
<1>1. Inv /\ [Next]_vars =>
        [\A c \in Channels : but_stat_channels'[c] # but_stat_channels[c]
           => steady'[c] >= 2 \/ update_time = 0]_vars
  BY TwoSamples
<1> QED BY <1>1, AlwaysInv, PTL DEF Spec, BounceIgnored
=============================================================================
