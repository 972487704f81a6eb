# Verification of the AD5X host software

This project models the host software of the Flashforge AD5X printer, a modified
Klipper ("klippy"), and the scripts that install it, in TLA+. TLC checks the
models on small instances; TLAPS proves the most important properties for every
value of the constants.

Source paths are abbreviated: `klippy/` is
`src/Firmware/Extracted/Updates/other/klippy/`, `software/` is
`src/Firmware/Extracted/Updates/software/`.

## The system

The printer runs one python process. Everything in it is driven by a single
threaded *reactor* that runs timers and greenlets. Greenlets switch only where
the code waits. Beside the reactor there are, for each micro-controller,
one C thread that talks to the serial line and one python thread that takes what
this thread has received. The micro-controllers queue what they are told, with
times attached, and execute it. A screen program (a binary) and the web clients
give g-code commands; the material station (IFS) changes filament. Shell
scripts start the process, install updates from a stick and write kernels.

| Component | State | Operations | Talks to | Hard behaviour | Correct when |
|---|---|---|---|---|---|
| Serial transport `chelper/serialqueue.c` | sequence counters, sent queue, retransmit timer, command queues, wake-up time | send, retransmit, handle a message, pull | controller over the wire; python thread; senders | loss, damage, four-bit numbers, naks racing retransmissions, wake-ups skipped | exactly once, in order, nothing confirmed that did not arrive, everything confirmed in the end, never asleep past a due command |
| Message protocol `msgproto.py`, `chelper/msgblock.c` | bytes not yet understood | encode, find a block | serial transport | damaged bytes | a block is delivered whole or not at all |
| Clocks, buttons, bulk sensors `clocksync.py`, `buttons.py`, `bulk_sensor.py` | last known count | extend a short count, start and stop a stream | controller | wrap-around, repeated and lost reports, clients while it starts or stops | the count is the one meant; samples follow each other |
| Virtual sdcard `software/virtual_sdcard.py` with `pause_resume.py`, `print_stats.py` | worker timer, pause request, file position, filament channels, pause flags, print state | load, start, pause, resume, cancel, reset, change filament | g-code mutex; sensors; station firmware | a worker greenlet, clients and sensors that interleave at every wait | a line is done once and none is skipped, a pause holds, a resume resumes, the end is reported once |
| Homing `chelper/trdispatch.c`, `mcu.py`, `serialhdl.py`, `extras/homing.py` | dispatcher flags, last report and expiry per controller, readers, completion, query | start, extend, trigger, stop, query | all controllers that move | reports of several threads race, are lost, come from the move before | all controllers stop together, the result is what happened, the move ends |
| Axes and motors `kinematics/cartesian.py`, `stepper.py`, `stepper_enable.py`, `tmc.py` | limits, positions, enable counts, registers | home, move, motors off, restore a driver | toolhead, UART | errors and callbacks in the middle | an axis that counts as homed is where it is thought to be; drivers have what the host wants |
| Toolhead `toolhead.py` | lookahead queue, print time, flush and priming state, drip mode | add, flush, dwell, drip | step generation, idle timeout | a pausing command and two timers that all flush | moves reach the step generators in order and in time, queues drain |
| Step compression `chelper/stepcompress.c` | step queue, last clock, history, move clocks | append, commit, flush, find a past position | serial transport | 16-bit intervals, batches, full move queue | the controller's pulses are the steps asked for, the queue is never overrun |
| G-code positions `gcode_move.py`, `exclude_object.py`, `bed_mesh.py`, `probe.py` | last position, offsets, saved states, meshes, sessions | move, set, save, restore, probe | toolhead | errors between two changes | the nozzle is where g-code thinks |
| Idle timeout `extras/idle_timeout.py` | state, timer, timeout | print time taken up, timer, SET_IDLE_TIMEOUT | toolhead, g-code mutex | the timer against a command in progress | it never turns a busy printer off, and does turn off an idle one |
| Heaters `heaters.py`, `verify_heater.py` | last value and its time, error, goal | reading, target, check | controller | values not sent again, targets that change | an output is refreshed in time, a dead heater is found |
| Pins, fans, leds `output_pin.py`, `fan.py`, `led.py` and their users | last value and time, templates | set, repeat, render | controller, toolhead | values scheduled ahead, maximum durations | a value is repeated before it expires |
| Reactor `reactor.py` | timers, greenlets, mutex, completions | register, pause, complete, lock | everybody | a callback that waits inside the dispatcher | no wake-up is lost, the mutex is fair |
| Printer lifecycle `klippy.py`, `mcu.py` | state, shutdown flags, configuration of controllers | connect, ready, shutdown, restart | every object, by events | requests from callbacks, threads and signals between any two steps | shut down once and everywhere, ready only over configured controllers |
| G-code dispatch `gcode.py` | readiness, input pipe | read, dispatch | printer, clients | a loop that waits while it is called again | each line once and in order |
| Web hooks `webhooks.py` | connections, send buffers, subscriptions | query, subscribe, send | clients | clients that do not read | a client's view is current |
| Menu `display/menu.py` | stack, selection, value in editing | keys, encoder, scripts | g-code | lists that change under the selection | the menu stays in a state it can leave |
| Configuration, installation, kernels `configfile.py`, `flashforge_init.sh`, `local_ota_update.sh` | files, partitions, flags | save, unpack, swap, write | disk | loss of power between two commands | the printer starts afterwards |

Everything else (input shaping, other kinematics, temperature sensors, decoders,
binaries) is listed in `PROJECT.json` with the reason why it is left aside: real
arithmetic, presentation, or no source.

The firmware of the micro-controllers is not in this repository. Where it is
needed it is modelled as the host relies on it and marked external.

## The modules

| Module | Models |
|---|---|
| `ReliableLink` | what the serial transport promises: blocks in order, once, confirmed only after arrival |
| `SerialQueue` | `chelper/serialqueue.c`: the background thread, the wire, the controller's side |
| `CommandQueue` | its queues of commands with `min_clock` and `req_clock`, and when the thread wakes |
| `MessageBlocks` | `chelper/msgblock.c` and the reading of damaged bytes; integers of variable length |
| `Extension`, `ClockSync`, `Buttons`, `BulkSensor` | the extension of short counts and its three users |
| `Reactor` | timers and greenlets of `reactor.py` |
| `PrintJob`, `MCPrintJob` | a print from the virtual sdcard; the files the runs print |
| `TriggerTimes`, `TriggerLoop` | how far the time of a controller may be extended in a homing move, and the loop of `trdispatch.c` that computes it |
| `Homing` | a homing move of several controllers |
| `Rails` | steppers, rails, limits, homing of axes, motors off, forced moves |
| `ToolHead`, `IdleTimeout` | `toolhead.py`, and `extras/idle_timeout.py` on top of it |
| `StepCompress` | `chelper/stepcompress.c` |
| `Drivers` | `stepper_enable.py`, `tmc.py`, `tmc_uart.py` |
| `GCodeMove`, `ExcludeObject`, `BedMesh`, `Probing` | g-code coordinates, objects that are left out, the mesh of the bed, sessions of a probe |
| `Heater`, `VerifyHeater`, `Outputs` | heater outputs and their check; pins, fans, leds |
| `Lifecycle`, `GCodeInput`, `Webhooks`, `Panel` | the printer object with its controllers; the g-code pipe; API clients; the menu with its keys |
| `SaveConfig`, `Install`, `KernelUpdate` | SAVE_CONFIG, the installation scripts and the kernel update, with losses of power |
| `MCLink`, `MCMotion`, `MCHost`, `MCMachine`, `MCControls`, `MCHoming` | instances of these for TLC |
| `SerialQueueProofs`, `LinkProofs`, `PrintJobProofs`, `HomingProofs`, `MotionProofs`, `HostProofs`, `MCHostProofs` | theorems |

The `MC` modules put parts side by side: a behaviour picks one part and runs it, so
that the states of a run are the sum of those of its parts, never a product.
Modules whose interaction matters are composed inside the modules themselves:
`IdleTimeout` extends `ToolHead`, `Homing` uses `TriggerTimes`, `Rails` has
kinematics, steppers and homing, `Panel` the menu with keys and encoder, and
`Lifecycle` printer and controllers.

### SerialQueue

One action per thing the background thread can do: `SendBlock` (`command_event`,
`check_send_command`), `RetransmitNak` and `RetransmitTimeout`
(`retransmit_event`), `HandleMessage` (`handle_message`, `update_receive_seq`),
`Pull` (`serialqueue_pull`). A block stands for its full number; both sides see
it modulo `SeqMod` only (`Wire`). Times are abstracted: an armed timer may
expire at any moment, and the send time of a block is the block's number, which
is what Karn's rule is about. The wire is first in, first out and loses or damages
anything. The controller (`McuAccept`, `McuReject`, `McuReport`) is external.
`LinkSpec` is the refinement: `SerialQueue` implements `ReliableLink`. That the
checksum tells damaged blocks is taken for granted.

### CommandQueue, MessageBlocks, counts, Reactor

`CommandQueue` is the part of the background thread above the blocks. A queue is
the log of its commands with two marks, `moved` to the ready queue and `gone` into
a block. Senders skip the wake-up when `need_kick_clock` lets them;
`NotOverslept` says that the thread looks at each command when it is due.
`MessageBlocks` has real bytes, a stream that loses and damages some, and the
search of `msgblock_check`. `Extension` is the arithmetic that `clocksync.py`,
`buttons.py` and `bulk_sensor.py` share. `Reactor` has the loop over timers
(`_check_timers`) as one action per timer, since a callback may wait in the
middle of it: another greenlet becomes the dispatcher.

### PrintJob

Everything between two waits of the code is one step. `sd`, `pr` and `ps` are the
fields of the three objects. `worker` says where `work_handler` is: in its
loop, in a script, waiting for a filament change (`m400`, `wait`), in
`on_error_gcode`. Clients acquire the g-code mutex (`Acquire`, `Release`:
`ReactorMutex`, with its hand-over), run one command and give it back. A
runout sensor calls `send_pause_command` without the mutex, sleeps, then runs
PAUSE (`Runout`, `RunoutPaused`, `RunoutScript`). A file is a sequence of line
kinds: a move, a line that fails, PAUSE, CANCEL_PRINT, M26, and lines that select
a filament channel. `loaded`, `broken_off`, `last_line`, `in_spite` and
`refused` are history: the code has no such fields, the properties need them.

### TriggerTimes, TriggerLoop, Homing, Rails

`Extended` is the definition the code implements: a controller may go on until
`Expire` after the earliest last report of the *other* controllers. The code
finds this in one pass, with a minimum and a second minimum; `TriggerLoop` is
that pass and `LoopCorrect` says that it computes `Extended`.

`Homing` has, for each controller, the trsync object, the two directions of the
link, the serial thread's pending fast reader (`callback`), the python thread's
inbox, and its registered handler; and one greenlet that homes: `Start`
(`TriggerDispatch.start`, `trdispatch_start`), `AddReader`, `WaitEnd`
(`set_home_end_time`), `Stop` (`trdispatch_stop`), `RemoveReader`
(`serialqueue_rm_fastreader`, which waits for a reader that runs), `Query` and
`Answer` (`MCU_trsync.stop`, `SerialRetryCommand`). `Callback` is
`handle_trsync_state` of the C code, `Read` with `HandleState` the one of python.
The link is the one `ReliableLink` promises: commands arrive in order and
once. Reports to the host have no such promise and, if `Lossy`, may be lost. Time
is discrete and the same for all: errors of clock conversion are left out.
`Start` is one step although the code sends several commands: until the readers
are registered nobody acts on what the controllers report, and the python
handler may only complete a completion that the greenlet has just created.

`Rails` takes the homing move as one step with every outcome it can have and
models what surrounds it: `homing_override`, `safe_z_home`, limits, forced and
manual moves, motors off. Rounding to whole steps, extruders and dual carriages
are left out, and a rail without a second approach cannot notice an endstop that
was hit before (`Blind`). A shutdown ends the model.

### ToolHead, IdleTimeout, StepCompress

`th` has the fields of `ToolHead` and its `LookAheadQueue`, how far the step
generators have come (`generated`) and the moves last appended (`trapq`). A
helper of the code that changes these fields is a function from a state of the
toolhead to the next (`AdvanceFlushTime`, `CalcPrintTime`, `Flush`,
`FlushStepGeneration`, ...), and an action composes them as the code calls them.
`greenlet` is the command that holds the g-code mutex: idle, paused in
`_check_pause`, in `wait_moves`, or feeding a drip move. Between its waits the
flush timer (`FlushHandler`), the priming timer (`PrimingHandler`), the end of a
homing move (`Complete`) and a shutdown may come. Time goes on only when nothing
that is due is left, or at most `Late` after it.

A move is the time it takes; the lookahead queue is the sum of the times in it.
Which of its moves `flush(lazy=True)` may hand on depends on velocities: any part
but the last move may be (`Added`). The estimated print time is the host's time,
and a batch of `_advance_move_time` is one step, since nobody runs in between.
Statistics, the history of moves and position arithmetic are left out.

`IdleTimeout` adds the handler of `toolhead:sync_print_time`, which runs inside
the step that sends the event (`synced` is what that step sent), the timer, and
SET_IDLE_TIMEOUT. The script that turns the motors off is a dwell and may fail.
`ahead` is a history variable: the print time that the script left has not passed.
`toolhead.py:331` sends the estimated print time before the print time, and
`idle_timeout.py:96` takes them in the other order; `CheckTime` is what that
computes: too early a time, which does no harm as the timer looks again.

`StepCompress` is fed with plans of step times instead of moves. The search for
the longest run within `MaxError` is modelled as the code does it, by bisection on
`add`; the width of the counters is `Wrap` and the limits `MaxRun`, `AddLimit`.
`steppersync_flush` stops at the first stepper that fails; the model flushes all
and `failed` ends it.

### Positions and outputs

`GCodeMove` has one axis with its offset, base, saved states and errors;
`ExcludeObject` the three axes that make moves good when an object ends;
`BedMesh` the numbering of points, substitutes and zero reference, profiles and
fading, with planes as beds; `Probing` the scripts around samples. `Outputs`
queues values for a controller that shuts down when one is not repeated.

### The host program and its files

`Lifecycle` has one step per thing that `_connect` does to a controller, and
requests of shutdown, restart and exit between any two of them. `GCodeInput` has
the loop of `_process_data` that is called again while it waits for the mutex.
`Webhooks` has clients that read or do not. `SaveConfig`, `Install` and
`KernelUpdate` treat each command of a script as one step, and a loss of power
after any of them: what was not synced is whole, torn or missing.

## The runs

| Run | Shows | Bounds |
|---|---|---|
| `link` | delivery and its refinement of `ReliableLink`, naks, wake-ups, blocks in damaged bytes, clocks, button counts, streams of samples, the reactor | numbers modulo 4 with 3 pending, 5 blocks: they wrap around; two command queues; three blocks with one damage; a clock of 26 ticks; button counts modulo 4; two bulk clients; two timers with three greenlets |
| `sq_live` | everything is acknowledged in the end; the window reopens; responses, notifications and times reach python consistently | modulo 3, a receive window that closes before `MaxPending`, one response to a block and reports in between |
| `machine` | `FilamentKnown`, `UsersServed`, `ResumeResumes`; drivers, mesh, steps | a file that ends with a change of filament, five commands of two users and the station; two drivers on one line, two lost messages with two attempts for a write; four beds and eight requests; two steppers that share a queue of three moves, clocks of six bits |
| `pj_sensor` | one worker, a sound mutex, one report of the end; every command returns and every pause request is honoured | all commands of the print, four of them; two users and a sensor |
| `homing` | with two controllers: the result is true, answers belong to queries, nothing is left over (no losses, two moves); all stop together and have stopped (any report lost, one move) | two moments and one expiry |
| `controls` | axes that count as homed are, the menu can be left, heaters are refreshed and watched; a homing move ends | five printers; two commands to the rails and a push of the head; six keys; one controller, four moments, no losses |
| `motion` | moves are appended in order and in time, all is generated before the position is set, no queue is without a timer; positions, probes, outputs | three commands given in six moments; a long move that fills the lookahead queue and a short one; two smoothing windows; a reactor one moment late |
| `it_idle` | the printer knows that it is busy, is turned off at rest and in the end; every command ends, all is flushed | three commands in the first twelve moments, after the end of the script too; two timeouts, one of them changed to the other; one smoothing window; time goes on to 90, when all is long over |
| `host` | lifecycle, input, web clients, files after a loss of power, the loop of `trdispatch.c` | two controllers and two configurations; seven lines; two web clients; two saves; three pieces of an image; two packages; four controllers and all 625 assignments of reports |
| `pj_runout_resume`, `pj_reset`, `life_restart` | the disagreements below | |

The bounds are small, but each is past the point where something new begins: the
numbers of the transport wrap around with copies on the wire; two clients and a
sensor are enough for one to be pausing, one waiting and one holding the mutex;
two controllers are the least for which `Others` differs from all, and the
theorems cover the other numbers. With two attempts instead of five, two lost
messages exhaust the retries of a UART write, or lose an answer and then a write.
The five attempts to read are one, which is answered or not. The mutant
of `HomingEnds` takes the expiry to be strict; it strands the move of a single
controller, which is why `controls` has one, and with two
the other controller's reports bring the end all the same. `Cap` and the other capacities bound what the
controllers produce, never what the host sends. `MaxTime` of `Homing` ends the
time in which controllers keep reporting; a homing move begins only when one
expiry still fits. The times of `ToolHead` keep the order of those in the code (the
low buffer below the high one, the batch below the extra time) at a scale where
a step is a moment; `MaxStart` ends the time in which commands are given,
`MaxTime` is never reached. Clients that differ in nothing but their names are
symmetric (`NameSymmetry` in `host`, `ClientSymmetry` in `machine`); neither run
has a liveness property that names one.

A web query names at least one object, and a client waits for its answer before
it sends the next query; `Entering` and `Leaving` of `ExcludeObject` restrict
g-code to what slicers write between objects.

`CHECK_DEADLOCK FALSE` is there because users give a bounded number of
commands, blocks and homing moves are bounded, and the loop ends: then the
system stops.

### Fairness

`SerialQueue`: the two threads run and an armed timer expires (weak fairness);
of infinitely many copies of a block or answer one gets through (strong fairness of
the controller and of messages that make progress): a dead wire is a broken
cable. `PrintJob`: greenlets that can run do run (the reactor is one loop over
timers), and commands that take time end. Users are not fair.
`Homing`: threads run and controllers execute, report and expire; time goes on.
`McuExecute` has strong fairness because the bound of the report channel may
disable it again and again, which the real controller does not suffer. Nothing is
assumed of the endstop: it may never be hit. `IdleTimeout`: the reactor comes
to the end of what is due again and again (`AllDone`), and time goes on. Neither
commands nor the end of a homing move are fair.

## What disagrees

* `pj_runout_resume`: `send_pause_command` sets `pause_command_sent` only after
  `do_pause` has returned. A PAUSE in between finds no worker, clears
  `sd_paused`, and the later RESUME does not restart the print.
  The same window has another consequence: while a runout handler sleeps its
  delay, `pause_command_sent` is set, and a new print is not stopped by the
  PAUSE that ends the handler.
* `pj_reset`: `cmd_from_sd` stays set while a filament change is waited for, so a
  client's SDCARD_RESET_FILE is refused as if the file had given it.
* `life_restart`: a controller that restarts by itself is reported with
  `invoke_async_shutdown` and too few arguments (`mcu.py:642`); the exception ends
  in the serial thread and the printer stays ready. `ds18b20.py:64` calls it the
  same way.

Met while modelling, without a run; a property that is concerned names
the exception:

* `safe_z_home.py:40-44`: z is declared to be at 0 and homed before the hop. If
  the hop is refused (it does not fit the rail), G28 fails and z stays homed at a
  place it is not at. `HomedKnown` excepts z while this lasts (`refused`), and
  `RefusedHop` says that it happens with such a hop only.
* SET_STEPPER_ENABLE (`stepper_enable.py:99-110`) turns a motor off and leaves its
  axis homed: a push of the head is not noticed then. `HomedKnown` excepts the axes of
  that stepper (`forced`), and no others: after M84 a push is checked.
* `gcode.py:412-416`: a read that does not decode, as when a character in UTF-8 is cut
  by the end of the piece, is dropped after it was taken from the pipe, and the
  beginning of a line that was kept from the piece before is put before the
  next piece: the lines it held are lost and another may be put together from two.
  `EachLineOnce` speaks of the lines no such piece has touched (`spoiled`), and says
  that nothing is run of them twice.
* `tmc_uart.py:242-251`: when the answer to a write is lost, `self.ifcnt` stays behind
  what the driver counted, and the next write counts as confirmed although it
  may be lost. It takes two losses; `DriversFollow` excepts the register
  until it is written again (`unsure`).
* `flashforge_init.sh:132-134, 173-175`: `rm -rf` takes the old version of a package
  before `mv` puts the new one in its place. If the power fails in between, what there
  is is a verified `temp` that nothing starts; without software the printer
  does not print until the stick is used again. `NewIsVerified` and
  `RunsWhole` except such packages (`cut`); `UpdateRepairs` says that the next update that
  is through leaves none. `update_other` (229-277) and `software/run.sh` (52-79)
  write klippy, printer.cfg, `app_startup.sh` and copies in place, without a sum;
  a torn `app_startup.sh` starts nothing and looks at no stick (`torn_files`).
  `update_other` replaces the user's printer.cfg without a backup.
* `local_ota_update.sh:577-587` switches all partitions, also one whose image this
  file does not name and an earlier update has begun and not finished.
  `BootsWhole` excepts it (`begun`).
* `idle_timeout.py:44-56` sets the state to "Idle" when the script has been queued, but
  the dwells of its M84 leave the print time ahead. A command within that time
  needs no new print time (`toolhead.py:329-332` sends `sync_print_time` only with a
  later one), so the state stays "Idle", with no timer, while the
  toolhead moves; `filament_switch_sensor.py:74` then takes the printer for one that
  does not print, and the motors and heaters stay on until a print time is taken
  up again. A first version of `BusyKnown` said that the printer is "Printing"
  whenever moves are executed; it was violated when commands were allowed after the
  script. Now `BusyKnown` excepts this time by `ahead`, and `TurnsOff` says
  that the printer is off as far as it knows.
* `SerialRetryCommand` returns the last message of the name once the query is
  acknowledged, so a periodic report that was under way is taken for the answer if
  the answer is lost. That is why the part of `homing` that checks answers has no
  losses.
* `control/run.sh` says "keeping only the newest two", but removes the oldest as
  soon as there are two.
* SET_VELOCITY_LIMIT (`toolhead.py:619-652`) uses `msg` before it has one when no
  parameter is given.
* `tmc.py:354-356`: the check of a driver after it is enabled is commented out, so an
  enabled driver that lost its registers is not noticed then. When the beginning of
  a sensorless homing fails, the thresholds stay changed.
* `bed_mesh.py`: with a "direct" mesh and a zero reference inside it the offset is
  subtracted twice (the comment at 777-779 says it is not); a `set_mesh` that
  fails clears the mesh without a new last position; on a round bed an even number of
  points fails late; a point on the border of a faulty region substitutes itself.
* `output_pin.py`: a SET_PIN for a moment beyond the maximum duration lets the pin
  expire before it (`outrun`). SET_TEMPERATURE_FAN_TARGET sets one limit before it
  refuses the other (`torn`). After eight failed sends a chain of leds
  (`neopixel.py`) keeps its old colours until the next change.
* `stepcompress.c`: for a time before the oldest entry of the history the position
  after a homing is returned.

## What is proved

The theorems hold for every value of the constants that the named assumptions of
the modules allow; `PROJECT.json` lists them. Each follows from an inductive
invariant that TLC checked first; what follows says what the invariant adds to
the property, which is what the argument turns on.

`SerialQueueProofs`: `TypeCorrect`, `ExactlyOnce`, `NoFalseAck`,
`WireUnambiguous`, `ImplementsLink` (the refinement of `ReliableLink`),
`NaksAreBounded` and `NotesAreSound`. `IInv` adds to `InOrder` that no copy on the wire is `SeqMod` or
more behind what the controller expects, now or after the copies in front of it
are accepted, and that numbers on their way to the host never run
backwards. Without it a stale copy could look like the expected block. The
arithmetic is in `MultipleGap`, `ModUnique` and `ModWiden`: two numbers less than
`SeqMod` apart with the same remainder are equal. This is where
`MaxPending < SeqMod` is used. `NakInv` bounds the answers still to be ignored by
the copies sent twice. `NotesAreSound` (`NotesSound`) rests on `TimesInv`: a block
that a round trip is measured over has been sent once, and a block not in doubt has
the time it was sent; and on `OrderInv`: the answers on the wire, in their order,
continue what the python thread has been told, so that a response cannot be behind
the notification that its command is done.

`LinkProofs`, five parts of the link:

* `NeverOverslept` (`NotOverslept` of `CommandQueue`). `CInv` adds that the marks of
  each queue are in order and that a sender who skips the wake-up is covered:
  `need_kick_clock` is no later than the clock of any command that came since
  (`KickCovers`).
* `ClocksAreExact`. The clock last extended is less than half a turn behind. This
  needs `ClockAssumption`: half a turn is longer than the silence after which
  `is_active` gives a controller up.
* `EachPressIsTakenOnce`. Reports in the air are within `AckTurn \div 2` of the count
  the host has, so the short count tells new presses from repeated ones
  (`ButtonAssumption`: the controller's buffer holds no more).
* `BatchesAreSound` (`BatchesSound` of `BulkSensor`). The messages on their way are
  in the order they were sent, so an answer lies between what was sent before and
  after it (`Counts`), and behind the answer to the start there is nothing of an
  earlier start (`Sessions`). With at most half a turn between two pulls
  (`WithinTurn`) the extended numbers are exact. `Serving` says who looks after
  clients that come in each phase of a start or a stop.
* `WakeupsAreKept` and `MutexExcludes` of `Reactor`. `ReactorInv`: one greenlet runs;
  the timers a dispatcher has yet to look at are in its list although another one
  may have become the dispatcher in the middle (`InQueue`); who waits for something
  that is over has a due timer (`DueWhenOver`); `_next_timer` is no later than any
  (`LooksInTime`). A mutex that is handed over stays locked, and the next owner is
  the greenlet that was taken from the queue.

`TriggerTimes` has its own lemmas: the earliest report exists, is a report, and is unique,
from the well-foundedness of the natural numbers.

`HomingProofs`: `HomingTypes` and `HomingStopsTogether` (`StopTogether`).
`StopTogether` is not inductive: a time is sent long before it takes effect, and
is computed from reports that are older still. `StopInv` therefore says of
everything on its way that it is true: no report that the host has or will get
claims that a controller went on longer than `Alive`, and no command, sent or
executed, gives a controller more than `Expire` after the `Alive` of any other.
`Alive` never falls (`AliveGrows`), so what was true when it was sent stays
true. The step of the dispatcher rests on `EarliestIs`: the time it computes is
no later than `Expire` after any single report of the others.
`AllHaveStopped` (`AllStopped`) rests on `AskedInv`: of each controller at most one
query or its acknowledgement is on its way, behind any start command that is
(`Ordered`); it is the one that the greenlet waits for (`Asking`); and who has
acknowledged has stopped (`Stopped`) and is not started again before the next
move. A stale acknowledgement, or a start that comes after the query, would break
it.

`MotionProofs`:

* `ToolHeadTypes`, `ToolHeadFlushArmed`, `ToolHeadMovesInOrder`. A state is `Good`
  if what is generated and flushed is counted in `min_restart_time`, the print time
  is ahead of it by the smoothing window while moves are processed (in the main
  state and the drip mode), the last moves end by the print time (but for the drip
  mode), and the flush timer is armed as the state demands. There is one lemma for
  each helper of the code: it keeps a state good and only goes on from it
  (`Follows`): print time and `min_restart_time` do not fall, and what is appended
  comes behind both. The actions follow by composition. Nothing is
  assumed here of the order or the lateness of the timers.
* `ToolHeadSetAtRest` (`SetAtRest`). `DripRest`: what is known of the end of the
  smoothed movement is noted in `step_gen_time` for the next flush or has been
  generated, except while the drip mode is at work, which makes up for it when it ends;
  so `flush_step_generation`, which comes before the position is set, reaches it.
* `ToolHeadInTime` (`InTime`), under `Punctual`. `InTime` speaks of one moment;
  that it is kept rests on when somebody will look next. `TimeInv` (`TimesKept`,
  `TimerKept`, `WaitKept`) says that an armed flush timer comes `Late` before the
  steps flushed run out, that a pause ends before the buffer is low, and that the
  drip mode feeds the next piece before the print time passes. `Onward` says how
  far a handler may go, seen from the moment it runs; `Punctual` collects the
  inequalities between the times of the code that this takes. The constants of
  `toolhead.py` (.25, 1, 2, .2, .1, .1, .05 s) satisfy it if the reactor is less than
  25 ms late and smoothing looks less than .9 s ahead; so do those of
  `IdleTimeout.cfg`, and not the small ones of `Motion.cfg` with a reactor that is a
  moment late, where TLC finds `InTime` kept all the same.
* `BusyIsKnown` (`BusyKnown`), under `Punctual`, for any commands and timeouts.
  `Tells`: no operator of the toolhead puts a print time that has passed ahead of the
  moment without telling it in the same step, so whenever it is ahead, the idle
  timeout has heard of it or its script has left it so (`Awake`). There is again a
  lemma for each operator. `TimeInv` is needed because the toolhead may only
  append to moves, without a new print time, while the print time has not passed
  (`MainAhead`, `DripAhead`).
* `ScriptRunsAtRest` (`OffAtRest`), under `Punctual` and `Smooth`: smoothing looks no
  further than the second that the timeout waits for at least. What is left to flush
  is within the smoothing window of the print time (`Steady`), so a second after the
  print time it is due, and by `InTime` it has been flushed.
* `GCodeKnowsPosition`. `GCodeInv` adds that a saved state too has the virtual
  offset in its origin once.
* `NozzleIsBackOnTrack`. `ExcludeInv`: while printing, the offset of the extruder
  and the extruder's adjustment together are what g-code wants less what was
  pushed; inside an object that is left out the moves made good are exactly those
  that were swallowed. `InitialMoves` must be positive (it is 5 in the code): with 0
  the first move after an object would be adjusted twice.
* `PositionsAreSound`: both, in the instance that TLC runs.
* `ProbingIsSound`. `ProbeInv`: who is inside a session, and that the probe is down
  or no sample is running.

`PrintJobProofs`, for any file, any number of clients and sensors and any commands:

* `PrintTypes`, `PrintMutexSound` (`MutexSound`), `FilamentIsKnown`
  (`FilamentKnown`), `EndsOnce` (`EndReportedOnce`) and `TakenUp` (`TakesUp`). The
  invariant has a part for the mutex and a part for the job. `MutexInv` says where
  each greenlet is when it holds the mutex or waits for it (`ActorInv`), and that the
  worker is behind it only after a failed command; the lemmas `Acquires` and
  `Releases` say what asking and handing over make of a queue without repetitions.
  `WorkInv`: a worker that is between two lines has a file, at the first line that was
  not done, or has been asked to stop. It needs `PauseInv`: whoever waits in
  `do_pause` and holds the mutex has asked the worker that is there to stop, so that
  closing the file after the wait leaves no worker without a file. `StatsInv`: an end
  is reported only of a print that was started, and a print that is cancelled or
  complete has no file that a pause could report. `FilamentInv`: a change is under way
  only in the wait for it.
* `UsersAreServed` (`UsersServed`: `TakesUp` and `PauseHolds`), if there are no
  sensors. `HoldInv`: the command counts as sent only when PAUSE has been run, and a
  worker that is there in spite of a pause was started in spite of it or has been
  asked to stop. Sensors set `sd_paused` and `pause_command_sent` outside the mutex;
  with them `PauseHolds` is false: after a runout, M24 or a new print starts the worker, and
  the PAUSE that the handler runs in the end finds the command sent and asks nobody
  to stop. `TakenUp` holds with them too.

`HostProofs`:

* `PrinterIsSound` (`Lifecycle`). `LifeInv`: controllers are configured in order,
  what counts as taken is configured, and a stop has reached all or is under way.
* `LinesRunOnce` (`GCodeInput`). The lines executed, the batch in work and the
  pending ones, one after the other (`AllLines`), are in order the lines read but for
  the `spoiled` ones, and perhaps a `Mangled` one put together from two; `Stands`
  says what `partial_input` holds: nothing, the beginning of the next line, or one
  that a dropped piece has torn off.
* `OutputsAreKept` (`Heater`). A value that is queued is followed in time; under
  `HeaterAssumption` the repetition (at three quarters of the maximum), the delay
  of the reading and of the pulse fit in the maximum.
* `FaultsAreFound` (`VerifyHeater`). The error grows by what the heater is away from
  its target.
* `ClientsAreCurrent` (`Webhooks`). `WebInv` says of each stream of a connection that
  the last news in it, sent or not, is the status of the last query. `Heard` is a fold
  over the stream; its lemmas say what a send and a read do to it.

`MCHostProofs`: `FilesSurvive` (`SaveConfig`, `Install`, `KernelUpdate`). Of the
configuration a whole copy is always on the disk, under its name or as a
backup. Of the images those are whole that were not begun or were finished
(`ImagesDone`). Of the packages there is a whole version, except of those in `cut`,
where the power failed between `rm -rf` and `mv`: nothing is claimed of them until
`RepairInv` (`Brought`: what an update is through with is there, unless it was
skipped) gives `UpdateRepairs`. Also `LoopIsCorrect` (`TriggerLoop`): of the controllers already passed,
the minimum is a lower bound which `min_tdm` attains, and the second minimum
a lower bound on the others.

Proving changed the models where they could not be reasoned about or were
wrong: two `CASE` expressions whose guards overlapped, a failure in the end of a
probing session where nothing can fail, an assumption that allowed
`InitialMoves` to be 0, one that did not forbid a greenlet with the name of the
mutex that is free, and a `BusyKnown` that held only for the bound of its run
(see "What disagrees").

### Only model-checked

* Liveness and everything that rests on fairness or ENABLED, which the prover does
  not treat: `LinkProgress`, `UsersAnswered`, `HomingEnds`, `WorkEnds`.
* `ResumeResumes` holds of the commands of its run and not of all: a print that M25
  stopped and PAUSE was given for is not resumed by RESUME.
* What a recursion over data computes: `MessagesSound` (the reading of damaged
  bytes), `StepsSound` and `QueueFits` (bisection on steps), `BedMeshSound`, `DriversSound`
  (it counts in sequences). This needs
  induction over sequences, and the induction theorems take an operator, which the
  installed provers cannot instantiate. `Panel` has a recursive operator.
* For want of a proof: `Faithful`, `RailsSound` and
  `OutputsSound`.

## What is not modelled

Kinematics other than the cartesian ones, junction velocities and input shaping,
temperature conversion and PID control are real arithmetic. Macros are Jinja
templates. Drawing, statistics, logging and the older virtual sdcard, which
`software/run.sh` replaces, are left out, as are the drivers of single sensors and
displays. The station's firmware and the screen program have no source.
`PROJECT.json` has a reason for each component.
