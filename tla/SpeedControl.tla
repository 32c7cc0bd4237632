---------------------------- MODULE SpeedControl ----------------------------
(***************************************************************************)
(* The speed controller at work in motor_controller_task: the startup sweep*)
(* (motor/src/speed/startup.rs), the PID wrapper (pid.rs), the switch      *)
(* between them (speed/mod.rs), the task's handlers (application/src/motor/*)
(* handler.rs) and the pins (motor/mod.rs). MotorPipeline leaves open what *)
(* the controller computes and abstracts a duty cycle to on or off; here   *)
(* both are computed, and what the other tasks send is left open.          *)
(*                                                                         *)
(* A handler of the task is one action: it suspends during a measurement,  *)
(* but no other task reads or writes what it works on.                     *)
(***************************************************************************)
EXTENDS CvAccess, SpeedTable, EmfFilter

CONSTANTS
    BootStore,    \* the CVs when main() builds the configurations
    Top,          \* output_max, the top of the PWM counter
    SweepSteps,   \* steps of a startup sweep, 250 in the code
    RingLength,   \* START_OUTPUT_ARR_LEN, 16 in the code
    SpeedSteps,   \* speed steps whose levels the accel task signals
    Samples       \* values of a back-EMF sample

ASSUME SpeedControlAssumption ==
    /\ BootStore \in [1 .. CV_SIZE -> Byte]
    /\ BootStore[PidSampleTime] > 0    \* main() unwraps SpeedController::new
    /\ Top \in Word
    /\ SweepSteps \in 1 .. Top
    /\ RingLength \in Nat \ {0}
    /\ SpeedSteps \subseteq 0 .. SpeedTableLast
    /\ Samples \subseteq AdcSample

Direction == {"Forward", "Reverse"}
Opposite(d) == IF d = "Forward" THEN "Reverse" ELSE "Forward"

table == BuildTable(TableConfig(BootStore))
emf   == MotorConfig(BootStore)
pid   == PidSettings(BootStore)

MaxSetpoint == table[SpeedTableLast]

Level == [dir : Direction, setpoint : {table[n] : n \in SpeedSteps}]

VARIABLES
    mode,                \* Controller.mode: "Startup" or "Pid"
    base,                \* the output that Mode::Pid's feed-forward scales
    output,              \* output of the startup controller
    prev_start_output,   \* outputs at which earlier sweeps ended
    buf_write_idx,       \* entry of it to be written next
    integral,            \* directions of travel the PID integral stems from
    last_output_level,   \* level the task works on
    pid_timer,           \* TRUE iff pid_sample_timer is armed
    duty,                \* duty cycle of the two motor pins
    dir,                 \* RpMotorController.dir: pin to be measured
    emf_buf              \* samples of the last measurement

startupVars == <<output, prev_start_output, buf_write_idx>>
vars        == <<mode, base, startupVars, integral, last_output_level,
                 pid_timer, duty, dir, emf_buf>>

Outputs == 0 .. Top
Ring    == 0 .. RingLength - 1
Buffers == [1 .. SampleCount(emf) -> Samples]

TypeOK ==
    /\ mode \in {"Startup", "Pid"}
    /\ base \in Outputs
    /\ output \in Outputs
    /\ prev_start_output \in [Ring -> Outputs]
    /\ buf_write_idx \in Ring
    /\ integral \subseteq Direction
    /\ last_output_level \in [dir : Direction, setpoint : Nat]
    /\ pid_timer \in BOOLEAN
    /\ duty \in [Direction -> Outputs]
    /\ dir \in Direction
    /\ Len(emf_buf) = SampleCount(emf)

PinsOff == [d \in Direction |-> 0]

Init ==
    /\ mode = "Startup"
    /\ base = 0
    /\ output = 0
    /\ prev_start_output = [i \in Ring |-> 0]
    /\ buf_write_idx = 0
    /\ integral = {}
    /\ last_output_level = [dir |-> "Forward", setpoint |-> 0]
    /\ pid_timer = FALSE
    /\ duty = PinsOff
    /\ dir = "Forward"
    /\ emf_buf = [i \in 1 .. SampleCount(emf) |-> 0]

-----------------------------------------------------------------------------
(* Startup controller                                                      *)

SweepStep == Top \div SweepSteps

InitialLevel ==
    LET used == {i \in Ring : prev_start_output[i] > 0}
    IN  IF used = {} THEN 0
        ELSE ((SumOf(prev_start_output, used) \div Cardinality(used)) * 2) \div 3

StartOutput == IF output = 0 THEN InitialLevel ELSE output

(* set_output_level(): the other pin is stopped before this one is driven. *)
Drive(d, level) ==
    /\ dir' = d
    /\ duty' = [PinsOff EXCEPT ![d] = level]

(* Mutant: the sweep starts over with every measurement.                   *)
SweepStartsOver(d) ==
    /\ Drive(d, StartOutput)
    /\ output' = 0
    /\ UNCHANGED <<mode, base, prev_start_output, buf_write_idx, integral>>

(* Mutant: the sweep runs past the top.                                    *)
SweepPastTop(d) ==
    /\ Drive(d, StartOutput)
    /\ output' = StartOutput + SweepStep
    /\ UNCHANGED <<mode, base, prev_start_output, buf_write_idx, integral>>

(* Mutant: the output is advanced before it is driven.                     *)
SweepAdvancesFirst(d) ==
    /\ output' = IF StartOutput + SweepStep > Top
                 THEN InitialLevel \div 2
                 ELSE StartOutput + SweepStep
    /\ Drive(d, output')
    /\ UNCHANGED <<mode, base, prev_start_output, buf_write_idx, integral>>

(* Below the handover level: drive, and sweep on or try again.             *)
Sweep(d) ==
    /\ Drive(d, StartOutput)
    /\ output' = IF StartOutput + SweepStep > Top
                 THEN InitialLevel \div 2
                 ELSE StartOutput + SweepStep
    /\ UNCHANGED <<mode, base, prev_start_output, buf_write_idx, integral>>

(* The motor moves: no pin is driven until the PID timer expires.          *)
Handover ==
    /\ mode' = "Pid"
    /\ base' = StartOutput
    /\ prev_start_output' = [prev_start_output EXCEPT ![buf_write_idx] = StartOutput]
    /\ buf_write_idx' = (buf_write_idx + 1) % RingLength
    /\ output' = 0
    /\ duty' = PinsOff
    /\ UNCHANGED <<integral, dir>>

-----------------------------------------------------------------------------
(* PID controller. Setpoints count in 255ths here, as the end of the first *)
(* gain range does, and kp is a fraction [num, den].                       *)

RangeEnd1 == MaxSetpoint * pid.kp_gain_range1_end
RangeEnd2 == MaxSetpoint * 255

(* GainRange::new and get_kp: an empty range has slope 1.                  *)
GetKp(start, end, kp_start, kp_end, at) ==
    IF end = start
    THEN [num |-> 255 * kp_start + 100 * (at - start), den |-> 255]
    ELSE [num |-> kp_start * (end - start) + (kp_end - kp_start) * (at - start),
          den |-> end - start]

Clamped(setpoint) == IF setpoint < MaxSetpoint THEN setpoint ELSE MaxSetpoint

(* Mutant: a setpoint above the last one of the table is not clamped.      *)
KpUnclamped(setpoint) ==
    LET at == 255 * setpoint
    IN  IF at < RangeEnd1
        THEN GetKp(0, RangeEnd1, pid.kp_y0, pid.kp_y1, at)
        ELSE GetKp(RangeEnd1, RangeEnd2, pid.kp_y1, pid.kp_y2, at)

(* kp_for_setpoint()                                                       *)
Kp(setpoint) ==
    LET at == 255 * Clamped(setpoint)
    IN  IF at < RangeEnd1
        THEN GetKp(0, RangeEnd1, pid.kp_y0, pid.kp_y1, at)
        ELSE GetKp(RangeEnd1, RangeEnd2, pid.kp_y1, pid.kp_y2, at)

(* set_kp() rejects a negative gain.                                       *)
KpAccepted(setpoint) == Kp(setpoint).num >= 0

(* The discrete_pid controller, with its output limits.                    *)
PidOutput == Outputs

PidCompute(lvl) ==
    /\ \E out \in PidOutput : Drive(lvl.dir, out)
    /\ integral' = integral \union {lvl.dir}
    /\ UNCHANGED <<mode, base, startupVars>>

-----------------------------------------------------------------------------
(* motor_controller_task                                                   *)

(* The measured voltage, corrected by the offset, has reached 7.5.         *)
OffsetAt(o) == IF o = None THEN 0 ELSE CHOOSE x \in o : TRUE

Moving(mean) == 2 * mean.sum >= mean.cnt * (2 * OffsetAt(AdcOffset(BootStore)) + 15)

(* Mutant: the integral survives.                                          *)
ResetStartupOnly ==
    /\ output' = 0
    /\ mode' = "Startup"
    /\ UNCHANGED <<base, prev_start_output, buf_write_idx, integral>>

(* Controller::reset()                                                     *)
ResetController ==
    /\ output' = 0
    /\ integral' = {}
    /\ mode' = "Startup"
    /\ UNCHANGED <<base, prev_start_output, buf_write_idx>>

Compute(lvl, mean) ==
    \/ mode = "Startup" /\ ~ Moving(mean) /\ Sweep(lvl.dir)
    \/ mode = "Startup" /\ Moving(mean) /\ Handover
    \/ mode = "Pid" /\ KpAccepted(lvl.setpoint) /\ PidCompute(lvl)

(* Mutant: the samples are not sorted before both ends are cut off.        *)
MeasureUnsorted(buf) == emf_buf' = buf

Measure(buf) == emf_buf' = SortSamples(buf)

(* set_output() for a level that is not zero; measure() stops both pins    *)
(* first, and the timer is armed whatever came of it.                      *)
ComputeAndSetOutput(lvl) ==
    /\ lvl.setpoint # 0
    /\ \E buf \in Buffers : Measure(buf)
    /\ Compute(lvl, TrimmedMean(emf, emf_buf'))
    /\ last_output_level' = lvl
    /\ pid_timer' = TRUE

(* Mutant: the pins are stopped only when there is a new output.           *)
FailureKeepsPins(lvl) ==
    /\ lvl.setpoint # 0
    /\ \E buf \in Buffers : emf_buf' = buf
    /\ last_output_level' = lvl
    /\ pid_timer' = TRUE
    /\ UNCHANGED <<mode, base, startupVars, integral, duty, dir>>

(* The measurement, or setting the gain, failed: the pins stay off.        *)
MeasurementFails(lvl) ==
    /\ lvl.setpoint # 0
    /\ \E buf \in Buffers : emf_buf' = buf
    /\ duty' = PinsOff
    /\ last_output_level' = lvl
    /\ pid_timer' = TRUE
    /\ UNCHANGED <<mode, base, startupVars, integral, dir>>

StopAndReset(lvl) ==
    /\ lvl.setpoint = 0
    /\ ResetController
    /\ duty' = PinsOff
    /\ last_output_level' = lvl
    /\ pid_timer' = FALSE
    /\ UNCHANGED <<dir, emf_buf>>

LevelArrives(lvl) ==
    ComputeAndSetOutput(lvl) \/ MeasurementFails(lvl) \/ StopAndReset(lvl)

PidTimerComputes == pid_timer /\ ComputeAndSetOutput(last_output_level)

PidTimerFails == pid_timer /\ MeasurementFails(last_output_level)

(* Command::AcknowledgeCv: the pulse ends with the pin off.                *)
AcknowledgeCv ==
    /\ duty' = PinsOff
    /\ pid_timer' = FALSE
    /\ UNCHANGED <<mode, base, startupVars, integral, last_output_level, dir, emf_buf>>

(* Command::Reset                                                          *)
Reset ==
    /\ duty' = PinsOff
    /\ ResetController
    /\ pid_timer' = FALSE
    /\ UNCHANGED <<last_output_level, dir, emf_buf>>

Next ==
    \/ \E lvl \in Level : LevelArrives(lvl)
    \/ PidTimerComputes
    \/ PidTimerFails
    \/ AcknowledgeCv
    \/ Reset

(* The timer expires and the task is polled; measurements may fail, but do *)
(* not always fail.                                                        *)
Spec == Init /\ [][Next]_vars /\ WF_vars(PidTimerComputes)

-----------------------------------------------------------------------------
(* Whatever is measured, fails, stops or is acknowledged in whatever order:*)
(* a driven pin is that of the last level, that level is not zero, and the *)
(* timer is armed to correct it. A failed measurement and a handover leave *)
(* the pins as measure() left them, off (motor/mod.rs:112, handler.rs:96). *)
SupervisedDrive ==
    \A d \in Direction : duty[d] # 0 =>
        pid_timer /\ last_output_level.setpoint # 0 /\ last_output_level.dir = d

(* The two controllers take turns: what the startup controller swept to is *)
(* gone while the PID controller works, and the PID integral is empty      *)
(* whenever a sweep starts, however the motor got there (speed/mod.rs:72). *)
ControllersTakeTurns ==
    /\ mode = "Pid" => output = 0
    /\ mode = "Startup" => integral = {}

(* A motor found moving while it is driven is handed over with the step of *)
(* the sweep after the one that drives it, whatever failed, was reversed or*)
(* acknowledged since: compute() has advanced the output before it knows   *)
(* whether this one moves the motor (startup.rs:72-80). After the last step*)
(* below the top it hands over, and remembers, half the initial level.     *)
HandoverFollowsDrive ==
    [][ mode = "Startup" /\ mode' = "Pid" =>
            \A d \in Direction : duty[d] # 0 =>
                base' = duty[d] + SweepStep \/ duty[d] + SweepStep > Top ]_vars

Within(k, a, b) == a * k.den <= k.num /\ k.num <= b * k.den

(* The proportional gain lies between the configured ones of its range for *)
(* every level of the speed table, those above its last entry included, so *)
(* that set_kp() never rejects it (pid.rs:170, 197).                       *)
GainInSchedule ==
    last_output_level.setpoint # 0 =>
        LET k == Kp(last_output_level.setpoint)
        IN  \/ Within(k, pid.kp_y0, pid.kp_y1) \/ Within(k, pid.kp_y1, pid.kp_y0)
            \/ Within(k, pid.kp_y1, pid.kp_y2) \/ Within(k, pid.kp_y2, pid.kp_y1)

MovingSamples == {i \in DOMAIN emf_buf : Moving([sum |-> emf_buf[i], cnt |-> 1])}

(* Interference does not end a startup sweep: the samples at the handover  *)
(* level outnumber those discarded at the high end (motor/mod.rs:141-153). *)
HandoverNotBySpikes ==
    [][ mode = "Startup" /\ mode' = "Pid" =>
        Cardinality(MovingSamples') > Cutoffs(emf).r ]_vars

(* A motor that does not start is pushed to the last step below the top    *)
(* again and again, from wherever earlier starts let the sweep begin       *)
(* (startup.rs:77-80).                                                     *)
StuckMotorIsPushed ==
    <>[](mode = "Startup" /\ pid_timer)
        => []<>(duty[last_output_level.dir] + SweepStep > Top)

(* "Resets the controller. Eg: when stopping / changing directions" (speed/*)
(* mod.rs:71): the integral never mixes two directions of travel.          *)
IntegralOfOneDirection == integral # Direction

=============================================================================
