# A TLA+ model of the RP2040 DCC decoder

This directory models the firmware of a DCC locomotive decoder: the device
takes packets from the track, walks the speed of the motor to what they
command, switches function outputs, and lets a command station read and write
its configuration variables (CVs), which it keeps in flash. The repository
holds two implementations, the Rust firmware `dcc-rp2040-rs/` (crates `dcc`,
`motor`, `math` and `application`) and the original C firmware `Software/`. The
modules here model the Rust firmware, from the bits' way into the PIO to the
pins of the H-bridge; the C firmware is not modelled (section 8).

Paths below are relative to the repository's root; `app/` stands for
`dcc-rp2040-rs/application/src/`.

Contents: 1 inventory, 2 modules, 3 runs, 4 bounds, 5 fairness, 6 proofs,
7 what the checks found, 8 not modelled.

## 1. Inventory

| Component | State | Operations | Interacts with |
|---|---|---|---|
| Reception: `dcc_decoder.pio`, `pio_decoder.rs`, `codec.rs`, `packet_decoder` | PIO registers, shift register, FIFO of 8 words, `buff` | the PIO program, `PioDccDecoder::read`, `codec::decode` | publishes to `PACKET_CHANNEL` (5 packets, drops the oldest) |
| `packet_handler` (`app/main.rs:140-192`) | `last_command` | one packet per turn | calls `Handler::handle`; sends to `MOTOR_CHANNEL`, calls the function outputs, reboots |
| `Handler` (`dcc/src/handler.rs`) | `enter_service_mode_timer`, `pending_service_packet` | reset packet, service mode packet, command, ignore | reads and writes the CV store |
| CV store (`app/store/mod.rs`, `dcc/src/cv/store.rs`) | flash sector, `cache` | `write_bytes`, `addr`, `ensure_populated`, `reset` | blocking flash erase and program |
| Boot (`app/main.rs:194-374`) | none of its own | read the store, repair it, measure the ADC offset, spawn the tasks | CV store, motor |
| `dispatcher` (`app/motor/handler.rs:49-69`) | the sends still to do | route a command to one or two tasks | `MOTOR_CHANNEL` to `ACCEL_HELPER_CHANNEL` and `MOTOR_CONTROLLER_CHANNEL` |
| `accel_helper_task` with `accel::Helper` (`motor/src/speed/accel.rs`) | `current`, `target`, ramp timer, `previous_setpoint` | set a velocity, timer step, reset | signals `MOTOR_SPEED_CHANNEL`, a `Signal` that keeps only the newest level |
| `motor_controller_task` with `RpMotorController` (`app/motor/mod.rs`) | `last_output_level`, PID timer, pins, `dir`, `ack_dir` | new level, PID step, acknowledgement pulse, reset | the pins of the H-bridge, the ADC |
| Speed controller (`motor/src/speed/`) | mode, startup level, base levels, PID integrator | `compute`, `reset` | owned by `motor_controller_task` |
| Function outputs (`app/functions/handler.rs`) | active groups, direction | `handle`, `set_direction` | GPIO and PWM pins |
| Speed table, `filtered_mean` | none | pure functions | used at boot and by each measurement |
| C core 0, core 1 | ring buffer, `speed_step_target` and its predecessor, flags | interrupt, packet loop, timers | shared variables, `flash_safe_execute` |

**Concurrency.** The tasks of the Rust firmware are `async` functions on one
cooperative executor (embassy) on one core: a task runs from one `await` that
suspends to the next, and which of several woken tasks is polled first is not
specified. A flash write is a blocking call: nothing else runs, packets wait in
the PIO's FIFO, and a burst of operations follows.

**What is hard.**

* Three queues and a one-place signal lie between a packet and the pins, and
  three filters drop what they take for repetitions (`main.rs:171`,
  `handler.rs:214`, the `Signal`). Each is right only if its memory agrees with
  what the others did.
* A reset travels by another way than a velocity.
* Several awaits of `motor_controller_task` leave pins and timers in
  intermediate states.
* A programming packet is executed when it comes twice inside a 20 ms window
  that other packets open, prolong and close.
* One packet may stand for several erase and program cycles, and power may be
  lost, or flash may fail, between any two steps.

**What makes each component correct.** The helper approaches its target
monotonically, reverses only at standstill, and reaches it. The pipeline never
shorts the bridge, never leaves a pin driven without supervision, and delivers
the last command. A stop ends with the motor off. Reception never shifts by a
byte, never makes one packet of two, and never loses the newest. The startup
controller pushes a motor that does not turn, hands over when it does, and starts
each sweep afresh. The outputs follow the functions and the direction.
Programming happens only when it may, an acknowledged write is in flash, and the
decoder never loses its address. `PROJECT.json` lists the hazards one by one, at
their lines.

## 2. Modules

Each line: a module, what it extends, and the modules of its proofs and its
constants for TLC.

| Module | Extends | Proofs | Constants |
|---|---|---|---|
| `CvTable`, `CvAccess`, `SpeedTable` | each other as needed | | |
| `EmfFilter` | | `FilterTheorems` | |
| `Velocity` | | `VelocityTheorems` | |
| `Packet` | `CvAccess`, `Velocity` | | |
| `Reception` | `Packet`, instance of `Delivery` | `ReceptionProofs` | `MCReception` |
| `AccelHelper` | `Velocity`, instance of `Ramp` | `AccelHelperProofs` | `MCAccelHelper` |
| `MotorPipeline` | `AccelHelper` | `MotorPipelineProofs` | `MCMotorPipeline` |
| `FunctionHandler` | `Packet` | | |
| `Locomotive` | `MotorPipeline`, `FunctionHandler` | `LocomotiveProofs` | `MCLocomotive` |
| `SpeedControl` | `CvAccess`, `SpeedTable`, `EmfFilter` | `SpeedControlProofs` | `MCSpeedControl` |
| `CvFlash` | `CvAccess`, instance of `DurableStore` | | |
| `ServiceMode` | `CvFlash` | `ServiceModeProofs` | `MCServiceMode` |

**Pure parts.** `Velocity` has the data of the `motor` crate and one call of
`Helper::step()`, branch by branch. Step indices are `u8`s: the subtraction of
`accel.rs:79` is taken modulo `StepModulus`, which is what the release profile
compiles (`overflow-checks = false`). `Num(0)` and `Stop` have the same index
and are different values, as in the code, because the filter of the acceleration
task compares with `==`. `CvTable` has the CV numbers and their defaults,
`CvAccess` the accessors that build the configuration of every other component
from a store, with their big-endian words, saturations and rejections. `Packet`
is the codec, the addresses and the instructions on bytes: it tells a checksum
that holds from one that does not, both kinds of address, and the six function
groups. `SpeedTable` and `EmfFilter` are `build_table` and the mean of the
samples, trimmed or filtered; fixed-point fractions are kept exact. The sort is
said by what it yields: entry `i` is the least sample that `i` samples do not
exceed. `MCSpeedControl` evaluates the expectations of their unit tests as
assumptions.

**`Reception`** is the way from the rails to `packet_handler`. The PIO program
runs byte by byte: the preamble, `ReadByte`, `Pad`, `PushCount`, with its
registers `x` and `y` and an `isr` that pushes a word into the FIFO when it has
four bytes, and waits when there is no room (`Shift`). `Overrun` is what a wait
does to the packet under way. `DmaPull` and `ReadPacket` are the reader and the
decoding loop, `Publish` is `PACKET_CHANNEL` with its lost oldest packet, and
`HandlePacket` is the handler outside of service mode, on bytes. Two things come
from outside: `Track`, valid packets, and `Noise`, what is received of others,
packets of seven and more bytes among it. `Garbled` is everything that may arrive
besides the packets of `Track`: noise, and what noise makes of a packet that an
overrun interrupted. `GarbledAssumption` says that the codec recognises it, which
is all that a checksum of eight bits can be asked for: the decoder has no means
to tell a garbled packet that passes it from one that was sent.

**`Delivery`** is the abstract specification of the reception: a queue of
packets in the order of the track, of which the oldest is handled or, when a
channel full of newer ones waits, lost. The queue is mapped to `PACKET_CHANNEL`
followed by the packets that the complete blocks in buffer, FIFO and shift
register stand for (`OnTheWay`). A packet that an overrun cut short never enters it.

**`AccelHelper`** is `accel_helper_task` with the helper it owns: `current`,
`target`, the timer, `previous_setpoint` and the signal. `AccelSetVelocity`,
`AccelTimerExpired` and `AccelReset` are the three arms of its `select`. Each is
the whole arm: the step, `maybe_send_to_channel` and the new timer. Its own
specification puts it under an environment that commands anything at any time.

**`Ramp`** is the abstract specification of that task: a walk along the line of
signed speeds to a goal, which knows no directions, turns, step kinds or timers.
CV3 and CV4 are its pace, away from 0 and back to it: gradual or at once. From
each position there is one next one (`Along`); besides, there are an immediate
`Halt` (an emergency stop or a reset) and the `Slip`, the step of `accel.rs:79`
that leaves the line at 0 (section 7). `AccelHelper` maps both velocities to their
signed speeds and both rates to the pace, whatever they are.

**`MotorPipeline`** composes that task with the other three:

| Action | Code |
|---|---|
| `HandleOp(op)` | `packet_handler` on a decoded operation, with `last_command` |
| `DispatchNext`, `DispatchSend` | `dispatcher`: receive; one `send().await` each |
| `AccelCommand`, `AccelTimer` | the arms of `accel_helper_task`; the channel is polled before the timer |
| `LevelArrives`, `LevelApplied` | a new level, before and after the 1 ms wait of `handler.rs:150` |
| `PidTimerExpires` | the PID sample timer |
| `MeasurementDone` | `measure()` returns, `compute()` and `set_output_level()` follow |
| `MotorCommand`, `AcknowledgeDone` | a command; the end of the 6 ms pulse |

`phase` is the await at which `motor_controller_task` is suspended. The speed
controller is abstracted to its outcomes here: an output, output 0, no output,
an error. `PacedSpec` is the same system when each operation is worked off
before the next.

**`FunctionHandler`** is `FunctionHandler` of `app/functions/handler.rs`: the
outputs each function drives (from the CVs), which of them are PWM outputs and
their duty cycles, the active functions, and the pins. A duty cycle above the
top of its slice is rejected and leaves the pin alone.

**`Locomotive`** composes it with the pipeline as `packet_handler` does: one
operation is passed on to the motor, to the functions, to both or to none
(`HandleAll`). It is the module to read for the whole of an operations packet.

**`SpeedControl`** opens what the pipeline leaves abstract: `measure()`, the
mode switch, the startup sweep with its ring of start levels, the gain schedule
and the handlers of `motor_controller_task` that drive them. `LevelArrives`,
`PidTimerComputes` and `PidTimerFails` are a level or the timer with its
measurement and computation; `StopAndReset`, `Reset` and `AcknowledgeCv` end
them. Of the PID sum only what is discrete is kept: its output is any level, and
`integral` is the set of directions of travel it was collected in. The awaits
inside one such step are the subject of `MotorPipeline`.

**`CvFlash`** is the flash sector, the store's cache and boot. An operation
leaves a list of `write_bytes` calls; each is skipped as redundant, or updates
the cache, erases and programs, one action each, so that power loss
(`PowerLoss`) and flash errors (`FlashError`) fall between any two. Boot reads,
repairs and calibrates the store with an offset that `EmfFilter` computes.

**`DurableStore`** is what the store promises: one configuration that changes a
CV at a time or goes back to its defaults, a change saved before the next is
made. A crash loses the change that is not saved yet or, while it is being saved,
everything. The erasing of the sector is mapped to the saving, since from there
on the old contents are gone.

**`ServiceMode`** is `Handler::handle` over that store. There is one action per
branch of `handle()` (`HandleReset`, `LatchPacket`, `ExecutePacket`,
`HandleCommand`, `IgnorePacket`), one operator per instruction and per guarded
CV under them, and the 20 ms that elapse. `executed`, `clean` and `armed` are
history variables, read by properties only. A packet is the number
`Packet::addr()` gives and what its handler reads, not its bytes. `is_broadcast`
never holds in the code (its address is 0xFFFF), so its branch has no action.

The `MC...` modules give the constants their values. Operators commented
"Mutant:" are variants of the definition below them with a plausible error;
`PROJECT.json` names the property that notices each.

## 3. Runs

| Run | Shows |
|---|---|
| `Locomotive` | operations worked off one at a time: the outputs follow the functions and lie on the side of travel, a reset leaves no ramp and no PID loop, the ramp timer is armed exactly while ramping, no ramp step leaves the way to its target (but for the one of section 7), reversals happen at standstill, targets are reached, and the helper implements `Ramp` with each of the four combinations of ramp and no ramp |
| `PipelineAll` | operations in bursts, with acknowledgements, resets, reversals and full channels at any moment: the bridge is never shorted, a driven pin is always supervised, the accel task's memory of its signals is right, the motor task ends with the level of the last velocity whatever the filters drop, a stop ends with the motor off for good, and full channels never block `packet_handler` for ever |
| `Reception` | packets of three to nine bytes in any order, with overruns and a full channel: blocks stay aligned, what is handled was sent, the newest packet survives and is handled, the receiver hears again after every packet, and the whole implements `Delivery`: no packet is repeated, reordered or lost while fewer than a channel full of newer ones wait |
| `SpeedControl` | levels, stops, reversals, failures and acknowledgements in any order, whatever is measured: a driven pin is supervised, the two controllers do not mix their states, what is handed over is the step after the one that drove the motor, the gain stays in its schedule, spikes do not end a sweep, and a motor that does not turn is pushed to the top again and again |
| `ServicePrograms` | with power lost at any step, on a programmed and on an erased chip: an acknowledged write is in flash, no order of byte writes makes the address 0, nothing is programmed while the decoder is being driven, and the store implements `DurableStore` |
| `ServiceFactoryReset` | with flash errors at any step: both factory reset instructions end with the defaults in flash and the decoder booted, or with an error |
| `AccelUnderflow`, `PipelineResume`, `SpeedReversal`, `ServiceTwoPackets`, `ServicePowerLoss`, `ServiceFlashError` | end in a counterexample; see section 7 |

Deadlock is checked in all runs but `ServiceFactoryReset` and
`ServiceFlashError`, in which a flash error at boot is unwrapped: the panic
halts the decoder.

The passing runs have between 89 000 (`SpeedControl`) and 932 000 (`PipelineAll`)
distinct states and end within two minutes each.

## 4. Bounds

* **`MaxStep`** is 1 to 3 instead of 126, and **`StepModulus`** the next few
  numbers instead of 256. Two steps leave room for a target passed, reversed or
  replaced in the middle of a ramp. The modulus only has to exceed `MaxStep`,
  so that a wrapped index is one no packet can command. `Reception`, which does
  not ramp, has the real 126 and 256. The proofs hold for every value.
* **`AccelRates`, `DecelRates`** are {0}, {1} or both: the code asks only
  whether a rate is 0; its size is the length of a delay.
* **`ChannelCapacity`** is 1 or 2 instead of 5. With 1, every send may suspend,
  which is what `HandlerNeverStuck` is about; with 2, two commands may overtake
  a third on its way. In `Reception` 2 is the least at which a full channel
  loses a packet and keeps another.
* **`Ops`** has the two directions, two speeds, stops of both kinds, an acknowledgement, a
  function group and a reset in the combinations each run needs, any number of
  times. **`FunctionGroups`** are four groups of two masks, **`BootStore`** of
  `Locomotive` has plain, dimmed and misconfigured outputs.
* **`FifoWords`** is 2 instead of 8 (one block), so that the FIFO is full within
  a packet. **`XModulus`** is 16 instead of 2^32: the wrapped loop of a packet
  of nine bytes is then 14 bytes long. The proof holds for every multiple of eight.
  **`Track`** has a velocity for this decoder, a packet whose extended address is
  the number of its short one, and an idle packet; **`Noise`** a wrong checksum,
  seven bytes (no padding) and nine (x has wrapped). TLC evaluates
  `GarbledAssumption` for them.
* **`Top`** is 5 instead of the top of the PWM counter (some thousands: the clock
  by the configured frequency), **`SweepSteps`** 4 instead of 250 and
  **`RingLength`** 2 instead of 16. The ring wraps around after two starts; the
  step of 1 keeps the difference between a sweep that ends below the top and one
  that passes it. **`SpeedSteps`** are no power, one step of the first gain range
  and step 63, which is above the last one with the `BootStore` of the run;
  **`Samples`** are one value at rest and one that means moving, three to a
  measurement, of which one is cut off at either end.
* **`CVs`** are those with a meaning plus CV3 for all others and CV31 for the
  two that are ignored. **`Packets`** hold the values at the boundaries of the
  guards (CV1 = 0, the first byte of the extended address 192 with the second
  0). CV numbers above 256 (the two low bits of the instruction byte) are not in
  the sets; nothing depends on them.
* **Timers** have no durations: armed ones may expire at once or late. This
  allows more than the code does (1 ms and 6 ms waits may be outlived by a ramp
  step), and every safety property holds all the same.
* **Power loss** leaves what the step before or after leaves, never a half
  erased sector.

## 5. Fairness

* Each task of the pipeline is weakly fair: an executor polls every woken task,
  and tasks are woken by channel, signal and timer. Packets are not fair: the
  track may fall silent.
* `AccelSpec` is weakly fair on `AccelTimerExpired`: the time driver wakes the
  task.
* `Reception` is weakly fair on the PIO program and the DMA, which are hardware,
  and on each of the two tasks. `PushCount` and `ReadByte` may wait for room in
  the FIFO; weak fairness is enough, because only the DMA changes that.
* `SpeedControl` is weakly fair on `PidTimerComputes`: the timer expires, and
  measurements may fail but do not always fail. Commands are not fair.
* `ServiceMode` is weakly fair on `Working` (writes and boot are straight code)
  and on `Rebooting`. Power losses are left out of the liveness run: they could
  come again and again. Flash errors are in it, and its property allows for
  them.

## 6. Proofs

All theorems hold for every value of the constants that satisfies the named
assumptions of the modules (`StepAssumption`, `AccelAssumption`,
`PipelineAssumption`, `StoreAssumption`, `PacketAssumption`,
`FunctionsAssumption`, `SpeedControlAssumption`, `ReceptionAssumption`,
`RegisterAssumption`, `GarbledAssumption`). They say how wide a byte is, that
queues have room for something, which CV contents the code accepts, and that
the codec recognises what is garbled. TLC evaluates each of them in some run.
Every safety property of the passing runs is the subject of a theorem.

`VelocityTheorems` collects facts about one step: the fields of setpoints, the
decrement modulo `StepModulus`, the type of the result.

`FilterTheorems` is about data of any length: sums of samples and their means,
the sorted buffer, the trimmed mean. This takes induction, which is done in terms
of sets: `LeastNumber` gives every non-empty set of natural numbers a least
element, hence a set that has 0 and with each number the next has all of them
(`SetInduction`). `SumsExist` builds the fold of the community modules for sets of
0, 1, 2, ... indices, after which its CHOOSE can be used.
* `SumBounded`, `QuotientBounded`: a mean lies within its samples.
* `SamplesSorted`: as many samples, each one that was measured, ascending.
* `TrimmedMeanReached`: if the mean of the kept samples reaches a level, so does
  one of them, and with it all that were cut off above.
* `CalibrationFits`: whatever is measured at boot, the offset is a sample's value
  and CV172 never gets the 255 that stands for no offset. `CvFlash` takes its
  `Offsets` from that range.

`AccelHelperProofs`. The theorems are about `AccelSteps`, the helper's steps
without its fairness, so that they carry over to whatever contains the helper.
* `AccelTypeCorrect`: types, the wrapped index included.
* `TimerRunsWhileRamping`: `TimerArmedIffRamping` is inductive as it stands.
* `TurnsAtStandstill`: an action property, from the types and the case split of
  `Helper::step()`.
* `ImplementsRamp`: every step maps to a step of `Ramp` or a stutter, for every
  pair of rates. The types are all it needs. `StepIsAlong` is the heart: one call
  of `Helper::step()`, with its turn, its comparison and its decrement modulo
  `StepModulus`, is one step of `Along`, an emergency stop or the wrap.
  `MovesTowardsTarget` follows from it, because `Along` never leaves the way.
  The liveness of `Ramp` is left to the run `Locomotive`.

`MotorPipelineProofs`
* `AccelTaskSteps` reduces every action of the pipeline to a step of the
  acceleration task or none, so that what is proved above carries over:
  `PipelineRamps`.
* `PipelineTypeCorrect`, in two halves: queues, and motor task.
* `BridgeIsSafe`: every step leaves the pins, stops some or leaves one driven.
* `OutputIsSupervised`: `SupervisedOutput` speaks of the select only. The
  inductive invariant `SupervisionInv` adds what holds at the other awaits: a
  measurement starts with both pins stopped, an acknowledgement leaves no pin
  but its own, the 1 ms wait changes nothing. Without the second of them the
  disarmed PID timer after a pulse could not be justified.
* `SignalIsCoherent`: inductive given the types. The accel task sets both
  sides of the equation at once and the motor task only moves the newest level.
* `CommandedLevelArrives`: when nothing is under way the motor task has the
  level of the last velocity. The invariant behind it follows that velocity from
  queue to queue (the newest one on its way is `last_command`, or the helper's
  target already is) and is joined to `SignalCoherent` at the end.
* `ResetLeavesMotorStopped`, for `PacedSpec`: a reset on its way is the only
  command on its way, so that nothing behind or beside it can start the motor.

`LocomotiveProofs`
* `ResetStopsLocomotive`: every step of the locomotive is one of the paced
  pipeline or leaves it alone, so its theorems carry over. `LocomotiveRamps` is
  the same for the helper and includes the safety part of `Ramp`.
* `LightsFollowMotor`: `LightsFaceTravel` compares the lights with the motor when
  everything has settled. In between, `FacingInv` says that every velocity on its
  way to the helper faces as the lights do, and that without one the target of
  the helper does so or the motor is off. A reset suspends it until it is
  worked off, because it turns the helper to forward and leaves the lights. The
  invariant needs the paced specification, in which one operation at most is
  under way, and `SignalCoherent` to get from the helper to the motor task.
* `LocomotiveTypeCorrect`, `PinsFollowFunctions`: the pins are a function of the
  CVs, the active functions and the direction. A rejected duty cycle is the case
  that needs the types.

`SpeedControlProofs`
* `DriveIsSupervised`, `TurnsAreTaken`: inductive as they stand, by what a handler
  does to pins and controllers.
* `NextStepIsHandedOver`, from `SweepInv`: while a sweep drives a pin, its output
  is the next step or the pin has the last one, because whatever clears the output
  stops the pins with it.
* `GainStaysInSchedule` is two lemmas about the interpolation in a range that may
  fall, rise or be empty.
* `ControllerTypeCorrect`: every output within the PWM counter. `InitialLevelType`
  is the step that is not obvious, two thirds of a mean over the entries of the
  ring that are in use (`SumBounded`), and sorting keeps the number of samples.
* `SpikesDoNotHandOver`: only a measurement whose trimmed mean has reached the
  level changes the mode (`HandoverMeasured`), and `TrimmedMeanReached` does the
  rest. No invariant is needed: the samples of the step decide.
* `CounterTopFits`: what `SpeedControlAssumption` says of `Top` and `SweepSteps`
  is true of the value that `main()` computes from any CVs.

`ReceptionProofs`
* `BlocksStayAligned`. `BlocksAligned` speaks of the preamble only. The inductive
  invariant adds that while a block is under way the bytes in flight and those
  that `x` has still to pad make 7 modulo 8, which the wrap of `x` keeps because
  its range is a multiple of eight.
* `HandledPacketsWereSent`, `NewestPacketSurvives`, `ReceptionTypeCorrect`. The
  bytes in the reader's buffer, the FIFO and the shift register are one stream
  (`StreamAt`); the DMA only moves its boundaries. `UnderWay` says what its end is
  made of: the bytes of the packet received so far, inverted, and its padding.
  `SentInv` says of each complete block, and of everything behind it in the
  channel and the handler, that it is a packet of the track or is not taken;
  `NewestInv` that the last packet taken, wherever it is, is the newest. A block
  is completed by `PushCount` or by the eighth byte of a long packet: the first
  case is the codec's length and checksum, the second is `GarbledAssumption`.
* `PacketsAreDelivered`: every step is one of `Delivery` or a stutter, from the
  same invariants. The byte that completes a block is a `Receive` if the codec
  takes the block, the reading of a block moves a packet from the stream to the
  channel and is a `Lose` if that is full, and all other bytes stutter. The
  packets of the stream are a `FlattenSeq`, a fold over a sequence of any length;
  its defining equation, the empty, appended and first sequences are derived by
  induction in terms of sets (`CountingUp`), as in `FilterTheorems`.

`ServiceModeProofs`
* `NothingIsProgrammedInOperations`, from `ArmedInv`: an open window was opened
  by a reset packet, and writes under way keep it so because no packet is handled
  before their end.
* `AddressStaysUsable`: the decoder never gets address 0 if it is delivered
  with usable addresses and nobody writes single bits of its address CVs. The
  inductive invariant says more than the property: both addresses stay usable,
  the one CV29 does not select too, and of the writes to come the first suits the
  cache at that moment and the others suit any.
* `ProgrammingTypeCorrect`: types; `BitWritten` shows bit by bit that a byte
  stays one.
* `AcknowledgedIsPersistent`, assuming that no flash call fails (with errors it is
  finding 5). `MirrorInv` says that the sector mirrors the cache whenever no write
  is under way; `WillHold` that no write to come gives a CV another value than the
  one promised, and that it has it already or gets it. A write skipped as
  redundant and one that was programmed keep both for the same reason: the cache
  equals what the write would make of it.
* `StoreIsDurable`, under the same assumption: every step of service mode, boot
  or a power loss is one of `DurableStore` or a stutter. `MirrorInv` says that a
  cache update starts from what is in flash; `DurableInv` adds that a sector being
  programmed is erased, which is why a power loss then costs everything. A write
  changes one CV or all (`OneChange`). With flash errors the theorem is false:
  the cache keeps what was not saved (finding 5), and the next change is made on
  top of it.

Model-checked only: everything under fairness (`TargetReached`, the liveness of
`Ramp`, `StopCommandStopsMotor`, `HandlerNeverStuck`, `NewestIsHandled`,
`HearsAgain`, `StuckMotorIsPushed`, `FactoryResetTakesEffect`), because liveness
is beyond the prover, and the expectations of the unit tests. The values of the
recursive definitions are used, as above, through bounds on sums; what
`filtered_mean` computes beyond its bounds is left to those expectations.

## 7. What the checks found

Each has a run that ends in a counterexample, and an entry in `PROJECT.json`
with the line of the code and the quotation it contradicts.

1. `AccelUnderflow`: a stop for the other direction, received at standstill
   with CV4 > 0, subtracts 1 from 0 (`accel.rs:79`). The locomotive is
   signalled full speed.
2. `PipelineResume`: after a reset, the velocity that was in force before is
   dropped as already signalled (`handler.rs:215`), without CV3.
3. `ServiceTwoPackets`: the first of two programming packets stays latched
   through resets, timeouts and operations packets.
4. `ServicePowerLoss`: an erased sector is taken for a populated one.
5. `ServiceFlashError`: a write that failed is acknowledged when retried.
6. `SpeedReversal`: without CV4 a reversal goes from one level to another
   without a `speed_control.reset()` (`app/motor/handler.rs:124`), and the PID
   controller drives the new direction with the integral of the old one.

The models show more that has no run of its own; most of it is listed with the
hazards in `PROJECT.json`:

* `ResetStopsMotor` holds for operations that are worked off one at a time. In
  a burst (packets buffered while a flash write blocks the executor) the motor
  task may take a reset while the accel task still has the velocity before it,
  whose level then starts the motor.
* `manipulate_bit()` writes CV1 without the guards of `write_byte()`
  (`handler.rs:250`), so that two bit writes give address 0. `AddressStaysUsable`
  has to assume that nobody does.
* A packet of eight or more bytes makes `x` wrap (`dcc_decoder.pio:62`). Blocks
  stay aligned, but the receiver pads for 2^32 bytes before it hears again.
* Short and extended addresses are compared as plain numbers: with address 3 in
  CV1 the decoder also obeys packets for the extended address 3.
* `BROADCAST_ADDRESS` is 0xFFFF (`dcc/src/lib.rs:17`), which no packet carries: a
  broadcast stop (address 0) is ignored.
* `HandoverFollowsDrive` has to except the last step of a sweep: a motor that
  moves only then is handed over with half of the initial level, 0 after no
  earlier start, and that is remembered (`startup.rs:78-80`), not "the output
  value at which the handover target was reached" (`startup.rs:24`). Elsewhere it is
  one step more than that.
* An acknowledgement stops the timer but does not reset the controller: the
  next level resumes the PID controller at standstill, without a sweep.

## 8. Not modelled

* **The C firmware** (`Software/`): a second implementation of the same decoder
  that shares no code with the Rust one. Its two cores, interrupt and ring buffer
  would need modules and runs of their own. The hazards that reading it showed
  are in `PROJECT.json`.
* **The arithmetic of the PID controller**: fixed- and floating-point sums and
  the low-pass filter. Its output is any level between its limits.
* **The duration of anything**: half bits on the rails, the watchdog, the
  loop delay (`rate * 4` and its saturation at `INSTANT_MAX_FIXED`). Armed timers
  expire at any time instead.
* **What the repository only uses**: the executor, channels and drivers of
  embassy, as far as the modules do not say otherwise. The `Signal`, the bounded
  channels and the publisher that drops its oldest message are modelled from how
  the code uses them.
* **Logging, device descriptions, test support, the Allium specifications,
  schematics, scripts**: no behaviour of the decoder depends on them. Properties
  quote the specifications where the code is to follow them.
