# Verification of the CNC machine's MPG chain

This directory holds TLA+ models of the part of the CNC machine's firmware
that decides who moves the machine, how far, and with which settings: the MPG
pendant, the control panel with its menu, its buttons and its touch screen, and
the MPG stream of the machine controller with what the pendant's switches reach
behind it. The models are checked with TLC on
small instances and their central invariants are proved with TLAPS for all
values of the constants.

## 1. The system

Three boards, each with a main loop and interrupt handlers, joined by two
serial lines:

```
  MPG pendant  <--- UART4 / USART2 --->  control panel  <--- USART2 / USART --->  machine
  STM32F103       GET_DATA|s|m|d  -->     STM32H750        0x8B (toggle)  -->     STM32F407
                  <-- pendant_data_t                       action packets -->     grblHAL
                                                           <-- status reports
```

| part | source (under `src/`) | state it keeps | operations |
|---|---|---|---|
| request cycle | `Software_STM32H750/Core/Src/stm32h7xx_it.c`, `MPGpendant/` | `pendant_control` (status, mpg_status, turn_off_mpg, request_answered, counter, comm_cnt), `request_body` | TIM1 tick every 10 ms, request by DMA, answer callback, timeout |
| MPG mode switching | `grblHALComm/sender.c`, `grblHALComm/parser.c`, `MPGmovement/mpg_movement.c` | `grbl_data.mpgMode`, `mpg_enable_ongoing`, `mpg_disable_ongoing` | `enable_mpg`, `disable_mpg`, the `MPG:` field of a report, the pendant's data turned into action packets |
| accessory switches | `MPGmovement/mpg_movement.c`, `grblHALComm/parser.c`; `Software_STM32F407/grbl/protocol.c`, `state_machine.c`, `coolant_control.c` | `grbl_data` (state, coolant, spindle); the machine's state, `gc_state.modal.coolant`, `restore_condition`, override queue, input lines, `gc_state.last_error` | answer compared with the picture, toggle, line or realtime command, hold, resume, report |
| handwheel movement | `MPGmovement/mpg_movement.c` | the position kept from the last answer (`data`) | difference of two positions, jog packet |
| menu | `Src/r61529_screen_menu.c` | level indexes, `entered_manual_mode`, button delays, settings | the main loop's poll: enter and leave sub-menus, ENTER, jog buttons, settings |
| pendant main loop | `Software_STM32F103/Core/Src/main.c` | `pendant_mpg_status`, encoder values, LEDs, `process_inputs_flag` | `process_inputs` every 50 ms |
| pendant communication | `Src/stm32f1xx_it.c`, `Src/uart_comm.c` | `pendant_status`, `pendant_data` | request obeyed and answered in the USART2 callback, TIM4 tick |
| machine's MPG stream | `Software_STM32F407/grbl/stream.c`, `protocol.c`, `report.c`, `keypad/keypad.c` | `sys.mpg_mode`, the foreground task queue, report flags | toggle received, stream switched or denied, report written |
| debouncer | `Src/buttons.c` (the same on both boards) | sixteen channels, one `update_time` | update from a timer |
| wait channels | `Src/systick_timer.c` | a start time and reset flag per channel | `wait_ms_ch` from main loop and interrupts |
| touch controller | `FT5436/ft5436.c` | transaction flags, points | EXTI, I2C and DMA callbacks |
| buzzer | `SoundFX/sound_fx.c` | event count, occupied flag | start, TIM4 events |
| displays | `R61529/`, `ILI9341/` | none of interest | drawing |
| vendor and third-party code | HAL, CMSIS, grblHAL core, FatFs, lwIP | | |

How they interact. The operator puts the panel's menu into *manual mode*; the
panel then polls the pendant: one request every cycle of ten ticks, answered at
once by the pendant's reception callback. A press of the MPG button makes the
pendant ask (`ENABLE_ONGOING`); the panel's callback answers by asking the
machine (`enable_mpg`, one *toggle* byte without direction), learns from a
status report that MPG mode is on (`mpgMode`), grants the pendant its MPG
(`ENABLED` in the next request), and from then on turns its answers into action
packets. ENTER on the panel does the same switching from the main loop; BACK
leaves manual mode, MPG mode and puts the pendant to sleep. Each answer under
the grant carries the encoder's position; the panel commands the difference to
the one before. The menu is polled by the main loop; it reads the debounced
buttons, which a timer interrupt maintains, and the touch points, which a chain
of interrupts fetches from the touch controller.

What makes this hard:

* `enable_mpg` and `disable_mpg` check and then set flags that other
  interrupts set and clear, from two contexts;
* the toggle has no direction and the machine may deny it, execute it late or
  lose it with its power; the panel knows the mode from reports only;
* `HAL_UART_Transmit` and `HAL_UART_Transmit_DMA` refuse while a transfer is
  under way, and the result is ignored;
* a request overtakes the pendant's `process_inputs` anywhere;
* answers may be lost or late; the cycle has a timeout and a turn-off procedure
  that rewinds it;
* the panel and the pendant each remember a position, and forget it on different
  events;
* the panel compares the switches with a report that is older than what it has
  already sent, while the machine obeys at different places: realtime commands at
  once, overrides in some states, lines only when it is not held;
* the menu's path is kept twice, in two bytes of the same words, and its levels
  decide now by one byte and now by the other;
* the debouncer's channels share their limit; the touch transaction may be given
  up between any two of its interrupts, whose priorities differ.

What makes each part correct: the request cycle is bounded and never stops; only
manual mode keeps the pendant on; a mode flag that bars further attempts is
always cleared by something that is still to come; the panel's view of the
machine's mode is right once nothing is under way; one toggle at a time; actions
reach a machine that reads them as actions; turns of the handwheel made without
the grant or under the lock never move an axis, and those made under it move the
axis as far as the wheel; coolant, spindle and hold end up as the switches say;
the menu is a tree with one cursor; a steady button is
seen in time and a bounce is not; the stages of a touch transaction never mix.
`PROJECT.json` lists the hazards
one by one with their source lines.

## 2. Modules

| module | models | abstracts |
|---|---|---|
| `Panel` | request cycle, reception callbacks, level 0, manual mode, mode switching | payloads of action packets, other menus, drawing |
| `Pendant` | `process_inputs` as far as the MPG button, lock, encoders and MPG lamp go; the reception callback; TIM4 | knobs, coolant buttons, other lamps; one encoder for both |
| `Machine` | MPG port's interrupt, foreground task queue, `stream_mpg_enable`, reports with the `MPG:` field | everything else of grblHAL |
| `MpgSystem` | the three as `INSTANCE`s wired together, with timing, lost frames and power cycles | |
| `Commands` | abstract specification: commands with a direction, one at a time, each answered | how they are sent, queued and reported |
| `Motion` | `MpgSystem` with the panel's remembered position and the distances it commands | one encoder for both; the jog packet's text |
| `Accessories` | a pendant's switches for coolant, spindle, HOLD and CYCLE START, the panel's comparison with the last report, and what the machine makes of it | flood and mist alike, the spindle's direction, alarms, running programs; the MPG handshake, which is `MpgSystem`'s |
| `Menu` | the menu's four levels: buttons and their delays, touch, path, settings | drawing; what manual mode does, which is in `Panel` |
| `MenuTree` | abstract specification: a tree, one cursor, one value at each leaf | |
| `MCMenu` | sizes, presets, buttons and points for the run `menu` | |
| `Debouncer` | `update_button_statuses`, one channel at a time | the pins' electrical side: any sample at any time |
| `Touch` | the touch controller's transaction with its interrupts, the bus and its errors, the shared wait channel | coordinates; start-up is one step |
| `PanelProofs`, `PendantProofs`, `MachineProofs`, `MpgSystemProofs` (with `Motion`'s), `MenuProofs`, `DebouncerProofs`, `TouchProofs`, `AccessoriesProofs` | theorems and proofs | |

### Correspondence

Variables carry the source's names. `pc` (and `pendant_pc` in `MpgSystem`) is
the place of a main loop between two accesses to shared data; everything an
interrupt handler does is one action. For TIM1, USART2 and the pendant's handlers
this is exact: nothing that shares their data preempts them. The UART4 callback
of the panel has the lowest priority of all interrupts and is kept whole as an
abstraction: a tick cannot fall into it (timing below), and a report that
does can only leave `mpg_status` at `ENABLE_ONGOING` for one more cycle, or
`mpg_enable_ongoing` set until the report that answers the toggle then sent.

* `Panel!TIM1_UP_IRQHandler` is the handler, its menu pacing included; its four
  alternatives are outside manual mode, the request tick, the ticks before the
  check, the ticks that check.
* `Panel!PendantAnswer` is the UART4 branch of `HAL_UARTEx_RxEventCallback`:
  dropped, during a turn-off, or processed. `Panel!MachineReport` is the USART2
  branch. A message goes through `parseData` three times, hence `MPG:0` clears
  both flags whatever the mode was; `MPG:1` clears the enable flag only when it
  changes the mode.
* `Panel!r61529_screen_menu` is the poll of the menu, which branches into
  `EnableCheck`, `EnableSend`, `DisableCheck`, ... because `enable_mpg` and
  `disable_mpg` can be interrupted between check, assignment and transmission.
  `TransmitDone` ends `HAL_UART_Transmit`; in between, a handler's own
  transmission is refused (`HandlerTransmit`).
* `request_pendant_data` rewrites `request_body` even if the DMA is still
  reading it: `Overwritten` gives the frames that can result.
* `Pendant!PollButton`, `ToggleStatus`, `TestGrant`, `MoveEncoder`, `ShowLeds`
  are the parts of `process_inputs` in order; `ReceiveRequest` with `Claims`,
  `Confirms` and `Withdraws` is the callback's four-way decision.
* A debounced button starts at zero, which is `GPIO_PIN_RESET`: pressed.
* `Machine!ReceivePacket` is the interrupt, which only enqueues;
  `ExecuteTask` runs `stream_mpg_enable`, which may deny; `Report` writes
  the mode at that time.

* `MpgSystem!stage` and `command` are the refinement mapping to `Commands`: where
  the toggle underway is (on the wire, queued, its report due, its report sent),
  and which way the flag that is set means it.
* `Motion` adds three variables to `MpgSystem`: `data`, the static of
  `process_pendant_data_to_action`; `seen`, the position last processed under the
  present grant, which the code does not have and against which `data` is
  compared; and `jog`, what the last answer commanded. `TakeAnswer` is
  `PendantAnswer` with them, `Rest` every other step. `EncoderDiff` is
  `encoder1_val_diff` with the width of `int16_t`, for any modulus.
* `Accessories` begins where MPG mode was entered and stays there. `grbl_data` is
  the panel's picture; `Answer` is the end of `process_pendant_data_to_action`
  with `pendant_data_to_action`, `Shown` what `parseData` makes of a report
  with or without the field `A:`. `exec` is `sys.rt_exec_state`, `toggle` the
  queue of coolant overrides, `lines` the MPG stream's buffer. The realtime bytes
  `?` and the coolant toggles are taken out of the stream, but the newline of their
  packets stays in it as an empty line (`RequestLine`, `CoolantLine`; several in a
  row count as one). `last_error` is `gc_state.last_error`, as far as `ExecuteLine`
  sets it: a spindle's line is refused in a jog, which sets it, and is skipped in
  Idle while it is not `OK` (`protocol.c:264-267`); an empty line and a jog that is not
  beyond the soft limits set it back. `FeedHold` and
  `CycleStart` are what `state_idle`, `state_cycle` and `state_await_resume` do
  with these flags: a jog is not held; a resume first sets back a coolant that
  differs from `restore_condition` and then sits in `delay_sec`, which serves
  requests, so that one resume may run inside another (`resuming` counts them).
  `CoolantOverride` toggles `gc_state.modal.coolant`, not what runs. `WriteReport`
  may add `A:` while something runs, and must after a change.
* `Menu` polls once per action: the poll is a function of the debounced buttons
  and the touch point, and only the main loop writes its state (the touch points
  it reads may be written meanwhile, hence any point at any poll). `low` and `high`
  are the bytes of `level_indexes`. `Cleared` is `clear_button_channel_cnts`,
  `Handled` the order of a chain of `else if`s, `Acts` and `Counted` the delay with
  its two comparisons, `Select` the change of an index that replaces both bytes.
  `TouchSelect` comes before the buttons, as in the code. ENTER and BACK have
  no counter and act at every poll.
* `Debouncer!Change`, `Count` and `Calm` are the branches for one channel;
  `Iterate` goes round the channels. `pin` and `steady` are what the
  properties speak of: the last sample and how long it has been that.
* `Touch` follows the interrupt priorities: the touch line (EXTI) is above the
  bus's event interrupt, and this above the two DMA streams; the main loop is below
  all. A stream's handler that waits in `while(BUSY)` is split at the wait
  (`waiting`), and meanwhile only higher interrupts and the hardware step.
  `bus` is the HAL's state with the interrupts still to come: `done` and
  `aborted` have the stream's, `stopping` the STOP condition's. `TouchRefused` is
  a transmission that the HAL refuses: `Error_Handler` disables interrupts
  and never returns, so that the model halts there.

In the single modules a neighbour is arbitrary (`Env...`): it may send anything
at any time, and the cables may lose it. `MpgSystem` replaces the neighbours by each
other. That it thereby only restricts them is proved (`PanelIsPanel`,
`PendantIsPendant`, `MachineIsMachine`), so that what is proved of a board alone
holds in the system.

### Timing in `MpgSystem`

* `RoundTripDone`: request and answer take less than 3 ms of the 10 ms between
  two ticks, and the callback has run before the next.
* `MaxTicks` = 1: a pass of a main loop is much shorter than a tick period, so at
  most one tick falls into it. The pendant's 50 ms batch does not fall into its
  own `process_inputs` (microseconds); `Pendant` alone allows it.
* `PacedRequest`: a full pass of `process_inputs` (50 ms) lies between two
  requests of the cycle (100 ms). Exempt is the request that follows an answer
  during the turn-off procedure, also the answer that ends it: the counter is
  set back to `DATA_REQUEST_CNT - 1` (`stm32h7xx_it.c:582`) and the next tick repeats
  the request.
* The machine acts on a packet when it is complete, which is when
  `HAL_UART_Transmit` returns.

### Timing in `Accessories`

Its clock is TIM1's tick of 10 ms. The pendant answers every tenth (the cycle of
nine and one). A report is requested every twelfth: the menu is entered every
sixth tick (`menu_cnt > 5`) and wait channel 4 lets every second entry pass. The
main loop may come late by `MaxLate` ticks. Bytes, passes of the machine's loop
and reports take less than a tick, but come in any order within it. The delay
after a resume (one second as configured) and a jog take any time. An answer that meets the UART
busy with "?" loses its packets, as `HAL_UART_Transmit` refuses them.

## 3. Runs

| run | question | bounds |
|---|---|---|
| `panel` | bounded and never-ending cycle, ownership, turn-off, for any pendant and machine | cycle 2/3/2, one menu tick, one frame on each line |
| `pendant` | no hidden turns, who may hold the MPG, for any panel | 6 encoder counts, 2 turns between polls, delay 2 |
| `sys_pendant` | the grant passes through all three in order; attempts end, presses are taken up | MPG button, one lost frame; under fairness |
| `sys_panel` | mode switching by the panel alone | ENTER three times, BACK, jog, both sub-menus, one power cycle |
| `sys_shared` | MPG button against BACK: toggles implement `Commands`, reports follow the mode | callback and main loop switch modes at the same time |
| `accessories` | coolant, spindle and hold follow the switches, and the coolant's toggling ends | answers and reports at their real periods in any phase, one tick late, 3 lines, 3 things done by the operators; under fairness |
| `motion` | the axis moves as the wheel was turned, through any sequence of grants | 4 encoder counts, limit 2, one turn between polls, MPG button |
| `menu` | the path is consistent, names and presets in range, counters below the delay; the menu implements `MenuTree` | two values per axes setting, one spindle setting, delay 4, ten button combinations, five points |
| `debouncer` | a steady button is seen in time, a bounce is not | three buttons and an unused channel, limit 3 |
| `touch` | stages never mix, no touch without a transaction, transactions end | give-up time 2; under fairness |
| `bad_turn_off`, `ghost_move` | disagreements, see section 5 | the smallest that show them |

The longest are `motion` (2.5 million distinct states, about two minutes),
`sys_pendant` (125 thousand, liveness included), `sys_shared` (1.1 million) and
`accessories` (670 thousand, liveness included). `Touch`
is checked without deadlock, because `Error_Handler` stops the panel.

Why the bounds are enough. The cycle constants 9, 10 and 10 are scaled to the
smallest values that keep all four kinds of tick (1, 2, 1 in the system, 2, 3, 2
in `panel`); the proofs hold for any. A button that is held acts on the first
poll and every `button_delay_action_cnt`-th (4 in the code, 2 here). Six encoder
counts with at most two turns between polls leave distances on both sides of
the circle. One frame on the pendant's cable is all there can be, since the next
request waits for the round trip; one or two packets on the machine's, since the
transmission blocks. `MaxTasks` stays below grblHAL's queue of sixteen; as there, a
task that finds the queue full is dropped, which one toggle at a time never does. In
`motion` one turn between polls, with four counts and a limit of two, gives
differences within the limit, jumps of the counter over zero, and differences at
the limit; no operator but the pendant's takes part, since its grants can be
withdrawn and given again by its own button. In `menu` a finer preset has
two values below the coarser one, and the slow jog speed keeps its jump from its
bound to where the next one starts; a held button acts again within four polls. The points
lie in one block, in the blocks of two levels at once, and in the corner for
leaving. Three channels are needed in `debouncer` so that two others may set
`update_time` while a third counts. Three
presses of ENTER are enter, leave and enter again. `EnableMeansUnderway` and
`OneToggle` do *not* hold with ENTER and the MPG button together, nor does
`ActionsHeard` with jog buttons and a second ENTER, nor `DisableNeverEnables`
across a power cycle: the runs that check these properties say in which setting
they hold, and section 5 tells what happens in the others.

In `accessories` every phase between answers and reports is an initial state.
`MaxSwitchings` is 4 because three is not enough; that four always is, for any number
of things done, is proved (section 4). Three of these are a switch, a hold and
its release in any order, with the machine's own inputs among them. `MaxLines` is
small so that lines are lost, as they are when a hold outlasts the 1024 bytes of
the buffer: a spindle's line that is lost is sent again after the next answer. It
is as long as the lines of one answer, so that each of them can arrive whole.

`SwitchesFollowed` rests on the newline of `"?\n"` (`sender.c:101`): a spindle's line
that met a jog would otherwise leave the error behind that has all later ones
skipped, and no jog or coolant toggle need follow. The run's mutant leaves it out.

Fairness (`MpgSystem!Fairness`, `Touch!Fairness`, `Panel!FairSpec`, `Pendant!FairSpec`,
`Accessories!Spec`): weak
fairness of each timer, each interrupt, each main loop. Timers are hardware and
tick; interrupts are served; the main loops are endless and never block but in
transmissions with a timeout. The operator is never obliged to do anything, and
frames may be lost up to the budget. In `Touch` a transfer completes, is not
acknowledged or fails, interrupts are served and time passes; that a bus is
released after the answer is *not* assumed, for this is what the giving-up is
there for. In `Accessories` time and the loops of panel and machine go on, a jog
ends and a delay ends. Handlers that hang, or a UART in an error
state (there is no error callback in this firmware: reception then stops until
the next start) are not modelled.

A property that a mistake in the code could not break is of no use: each has a
seeded bug (`..._Bug`, beside the definition it replaces) under which TLC finds
it violated.

## 4. Proofs

Assumed are only the constants' assumptions stated in the modules
(`CycleAssumption`: the check comes after the request, the timeout is not zero;
`ModulusAssumption`, `MovesAssumption`, `DelayAssumption`, `LockAssumption`;
`NearAssumption`: the limit is at most half the counter's range;
`PresetAssumption`: a preset starts where the finer one ends or above;
`TimeAssumption`: two samples or more, the same in both directions;
`TasksAssumption`: the machine's queue has room for one task; and so on).

* `PanelProofs`: `TypeCorrect`, then `CycleIsBounded`, `ManualModeOwns`,
  `NoAskDuringTurnOff`. Each is inductive, relative to the types at most, against
  an arbitrary environment: the cycle because a check that does not restart it
  is paid for in `comm_cnt` and the turn-off rewinds below the bound; ownership
  because ticks and answers touch `mpg_status` only in manual mode and level 0 is
  never left while it is entered.
* `PendantProofs`: `TypeCorrect`, `TurnsAreGated`, `OnlyOnIsEnabled`. The first
  lemmas are arithmetic on the circle of encoder counts (`Reduce`, `DistanceIs`,
  `OneStepFurther`: one turn changes a distance by at most one). Then a turn is
  paid for in `moves`, and reading, restoring and discarding all make position
  and counter equal.
* `MpgSystemProofs`, the mode: `ModesAlwaysAgree`, `LastReportAlwaysCurrent` and
  `MpgModeAlwaysSeen` for every
  operator, fault budget and timing constant. The property speaks of quiet
  states and is not inductive. The invariant `ModeInv` says what holds on the way
  there: unless a report is due, the *last word* on its way to the panel (or
  `mpgMode` when there is none) is the machine's mode. A toggle executed makes a
  report due, a report written is the last word, a report taken moves the last
  word into `mpgMode`. With power cycles the half that matters for safety
  survives: a machine in MPG mode is never overlooked.
* `MpgSystemProofs`, asking and the grant: see the next section.
* `MpgSystemProofs`, the boards: `PanelIsPanel`, `PendantIsPendant`, and with
  `MaxPowerCycles = 0` `MachineIsMachine`, for every operator and fault budget: the system
  implements the specification of each board's module (`PanelConforms` and so on). Each
  step of the others is a step of that module's arbitrary neighbour or leaves the
  board's variables alone; what is sent only has to be of the right types
  (`FrameTypes`, and `ModeInv` for the reports): a request the main loop rewrites
  while the DMA sends it (`RequestSent`), answers that come in the step that takes the request, lost
  frames of both directions and packets that a machine loses with its power. The
  theorems of `PanelProofs`, `PendantProofs` and `MachineProofs` hold of the system
  by these; the last step, instantiating a theorem with the system's variables, is
  the reader's, since the prover cannot cite a theorem of an instantiated module.
* `MachineProofs`: `LastReportIsCurrent`, against an arbitrary panel. A task that changes the mode makes a
  report due, a report appends the mode, one that is taken leaves the last.
* `MenuProofs`: `PathIsConsistent`, `NamesAreInRange`, `CountersAreBelowDelay`,
  `PresetsAreOrdered`, `TypeCorrect`, for any sizes of the settings menus and any
  presets. A poll is one of four moves of the index variables (`IndexMove`: stay,
  move, open, leave), to which each level is reduced; the invariant adds to
  `PathConsistent` that every index on the path is among the entries of its menu,
  without which opening could lead below a leaf. `MenuIsTree` is the refinement:
  `Menu` implements `MenuTree`. Each of the four moves maps to a step of the tree's
  cursor or to none (`OpenInTree`, `LeaveInTree`, `ScrollInTree`), and each
  setting's change to a change of the value at the cursor's leaf
  (`AdjustsInTree` and the lemmas under it): a button that is held on one leaf never changes
  another's value, and a poll never does both. That a preset stays in its range,
  which `PresetsAreOrdered` needs too, is what makes its change one that the tree allows.
* `DebouncerProofs`: `TypeCorrect`, `Settles`, `BouncesAreIgnored`, for any
  number of channels and any limit of two or more. The invariant (`Tracked`) relates
  a counter to the samples behind it: not less than the run of differing ones,
  and two below the limit after one that agrees.
* `TouchProofs`: `NothingIsLeft`, `StagesMatch`, `GhostsAreSpoiled`, for any
  give-up time. They are inductive together with `WaitMatches`: a handler waits
  only for a transaction that is under way, and nobody uses the bus meanwhile.
* `AccessoriesProofs`, the picture: `PictureIsCurrent`, for any periods, lateness and
  number of lines. The invariant (`Coming`) says that, unless a change is still to be
  reported, what the picture will be once the report under way has been
  taken is what runs: a report without the field `A:` leaves out only what the
  panel has already.
* `AccessoriesProofs`, the coolant: `CoolantAlwaysSettles`, see below.
* `MpgSystemProofs`, the encoder: what `encoder1_val_diff` is, for any width of the counter and
  any limit up to half of it: the turn itself (`DifferenceIsTurn`) while the counter
  does not cross zero; when it does, `1 - n` for `n` turns forward
  (`ForwardWrapTurnsBack`: the wrong way) and one less than `n`
  backwards (`BackwardWrapFallsShort`).

### Asking, the grant and the movement

These theorems hold for every cycle, queue, counter width, lock and
fault budget, but not for every operator. Their hypotheses are about the two
constants that say what the operator may do:

| hypothesis | says | why it is needed |
|---|---|---|
| `AsksOneWay` | no MPG button on the pendant, or no ENTER on the panel | `enable_mpg` and `disable_mpg` test a flag and set it later; with two callers the callback falls between (`sender.c:44-49`) and two toggles go out |
| `NeverLeaves` | neither ENTER nor BACK: whatever takes the machine into MPG mode, nothing takes it out | BACK withdraws the mode while packets are on the wire and grants on the cable that presuppose it; ENTER's turn-off procedure hurries a request (`StaleGrant.cfg`) |
| `AskGoesOut` | no MPG button, or `NeverLeaves` | the callback's toggle is refused while the main loop transmits, and its flag stays set (`BadFlag.cfg`) |
| `MaxPowerCycles = 0` | the machine keeps its power | a machine that restarts leaves MPG mode on its own |
| `MaxLosses = 0` | no frame is lost between panel and pendant | `data` outlives a lost answer (`GhostMove.cfg`) |

The settings of the runs satisfy them, and each has a counterexample when it is
dropped. `FrameAssumption` adds that the marker of an empty cable is not a frame.

* `OneToggleAtATime`, `OneDirectionAtATime`, `DisableIsUnderway`,
  `DisablingNeverEnables` (`AsksOneWay`; the last also `MaxPowerCycles = 0`). The
  invariant is `AskInv`. Its core, `RoundInv`, names the five stages of a round: nothing underway,
  toggle sent, task queued, report due, report sent. There is no sixth:
  what is under way is exactly one of them, only a flag that is set accounts
  for it, and the main loop between its check and its sending (`enSet`, `disSet`, `exitSet`)
  finds the round still over. `OneAsker` says why nobody interferes: a pendant
  without its button never asks, a main loop without ENTER never does.
* `TogglesAreCommands` (`AsksOneWay`, `MaxPowerCycles = 0`): the system implements
  `Commands`. With `RoundInv` a round is always at one place (`StageIs`), every
  action of the three boards leaves it there or advances it by one (`Advance`,
  `RoundStep`), and an advance is a command's step (`AdvanceIsCommand`): what
  direction the toggle lacks, the flag that is set has (`ModeIs`).
* `EnableIsUnderway` (`AskGoesOut`): with `AskInv`, a flag set means that a round is
  on (`EnableHeard`); the toggle of the callback is not refused because without
  ENTER and BACK the main loop transmits in MPG mode only (`StaysInv`).
* `ActionsAreHeard` (`NeverLeaves`, `MaxPowerCycles = 0`): `StaysInv` ties the packets
  on the wire, a main loop about to send one, and a grant to the panel's MPG mode,
  in which no round is under way that could end it.
* `EnabledIsGranted` (the same): `CableInv` says that at most one frame is on the
  pendant's cable and what it carries is still so: a request the panel's
  `mpg_status`, an answer the pendant's `mpg`. Lost frames are allowed.
* `GrantStartsFresh` (`NeverLeaves`): requests are paced by the round trip, so
  that a whole pass of `process_inputs` lies between two; a pass without a grant
  puts the position to zero (`FreshInv`, by how far the pass has come).
* `MotionImplements`: `Motion` only adds to the system, so that all of this holds
  there. `MovesAsTurned` (`NeverLeaves`, `MaxLosses = 0`): under a grant the panel's
  `data` is the position of the last answer under it, and out of one it is zero
  or an answer that says so is still coming (`FollowInv`); what a difference
  then means is `DifferenceIsTurn`'s arithmetic.

### The coolant

`CoolantAlwaysSettles` holds for all periods with `PeriodsFit` and any number of
lines and changes: three answers outlast two reports and the lateness (so that
of three answers one has a report that is newer than the toggle), and an answer
and the lateness are shorter than a report's period (so that at most one report
falls between two answers). The code's 10 and 12 ticks fit with a main loop that is
at most one tick late; `MaxSwitchings` is any bound from four up.

What counts is the *phase* of requests and answers, which a tick keeps: the age that
the last request will have when the next answer comes (`Phase`, `AnswerPhase`). The
invariant (`Settling`) follows the count through what may still happen. After one
switching or two the coolant is right, but an old report may have it toggled again (`MayTurn`);
after that it is wrong and the toggle that puts it right is followed by a new
report (`MayReturn`); and after four it is `Settled`: the next answer finds the right
picture, whichever report is taken until then. A coolant that is set back
by a resume is a difference between what runs and the parser's state
(`Synced`): its toggle switches nothing, and only corrects the parser.
The invariant was checked to be inductive with TLC, on small periods, before it was
proved; it rests on the picture's invariant (`Coming`) for what a report without the
field `A:` says.

### Only model-checked

* Liveness, and the refinement's counterpart of it, is out of TLAPS's reach here: `PollingGoesOn`,
  `EnableAnswered`, `AskTaken`, `TransactionEnds`, `SwitchesFollowed`.
* The properties of the runs that expect a violation, which are false.

## 5. Where the code and its comments disagree

* `bad_turn_off`: the pendant's own MPG-off and the panel's turn-off in the same
  cycle: no branch of the pendant's callback matches any more
  (`stm32f1xx_it.c:308-317`) and the turn-off procedure never ends.
* `ghost_move`: the position that the next answer is compared with is reset only
  by an answer that says `mpg = false` (`mpg_movement.c:209`). When that answer is
  lost and the pendant is granted its MPG again, from position zero, the axis
  goes back by what the old grant had moved it, with the wheel at rest.

Further configurations, of properties that are false and whose counterexamples
are worth having at hand:

* `BadFlag.cfg`: `enable_mpg` in the callback meets a busy UART; nothing is sent,
  but `mpg_enable_ongoing` stays set (`sender.c:49-55`).
* `BadSleep.cfg`: the single OFF request is refused when the cycle's request is
  still being sent (`mpg_pendant.c:55`); the pendant stays on.
* `BadOff.cfg`: an OFF request between test and assignment of
  `pendant_mpg_status` (`main.c:536-540`) is overwritten.
* `PendantLamp.cfg`: switched off, the pendant stops processing its inputs and
  its MPG lamp stays lit (`main.c:140`, `main.c:719`).
* `StaleGrant.cfg`: the answer that ends the turn-off procedure has the request
  repeated after 10 ms, before the pendant has polled its inputs. If that request
  falls between the pendant's asking again and its test of the grant, the grant starts
  from the position of the one before (`stm32h7xx_it.c:582`, `process_inputs` in the
  pendant's `main.c:539-548`).
* `WrongWay.cfg`: a forward turn over the counter's wrap is sent as a backward
  one (`mpg_movement.c:131-136`).
* `CoolantBack.cfg`: with the operator at rest the coolant is switched back and
  on again, because two answers are compared with one report
  (`mpg_movement.c:91-98`). It settles within `MaxSwitchings`.
* `StaleStart.cfg`: the spindle starts though its switch is off: its line, sent in a
  hold, waits in the machine's buffer and runs on resume (`protocol.c:784`). The next
  report shows it, and the line that stops it is sent.
* `TouchHalt.cfg`: "Wait for I2C to switch to READY state" (`ft5436.c:114`) waits
  for the bus's BUSY flag, not for the HAL. A touch after the last byte and before
  the STOP condition is handled interrupts both; the transmission is
  refused, and `Error_Handler` stops the panel.

Seen while modelling, and the reason for the settings of the passing runs: with
ENTER and the MPG button together `enable_mpg` in the callback can fall between
the main loop's check and assignment, and two toggles go out (`sender.c:44-49`);
the panel still ends with the right mode (`ModesAgree`). After a power cycle
of the machine BACK or ENTER sends a "disable" that enables. A jog button pressed
after the disabling toggle reaches the machine outside MPG mode, since `mpgMode`
is cleared by the report only.

In a hold jogs wait in the machine's buffer like the spindle's line, and the axis
moves when it is released. HOLD is not obeyed in a jog, but sent again with every
answer until it is. CYCLE START is remembered by the pendant: a hold made
at the machine itself is released by the next answer unless HOLD was pressed last
on the pendant.

After a bus error the touch flags stay set, and no touch is taken up until the
next reset (the exception in `TransactionEnds`).

## 6. Not modelled

* The pendant's knobs (multipliers, axis), the spindle's direction and the lamps
  but for MPG: they neither gate nor change what is modelled. `Accessories` leaves
  out alarms, check mode, doors and running programs; how it composes with the
  MPG handshake is not checked, it begins and stays in MPG mode.
* The machine's keycode buffer (`keypad.c:429`): what bytes of an action packet do
  outside MPG mode depends on the keypad's bindings.
* Touch coordinates: the menu reads them unguarded while an interrupt may write
  them; `Menu` takes any point at any poll.
* The other wait channels pace requests and keep no further state; a wrap of
  `uwTick` (`systick_timer.c:81`) takes 49.7 days.
* The buzzer: one caller and one tone; no state is shared.
* The report parser but for the state, `MPG:` and `A:`: its other fields are shown
  and decide nothing.
* Left out for good: display drivers and drawing, HAL and start-up code, the motion
  core of grblHAL and its plugins, networking and file systems, the PCBs. These
  are nearly all of the repository's lines; the project's own logic on the three
  boards is a few thousand.

What could come next: the composition of `Accessories` with the MPG handshake, so that
switches are followed also through a grant that is withdrawn; and alarms and running
programs in the machine's states.
