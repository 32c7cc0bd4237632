---------------------------- MODULE AccelHelper ----------------------------
(***************************************************************************)
(* accel_helper_task (application/src/motor/handler.rs) with the           *)
(* accel::Helper it owns (motor/src/speed/accel.rs): the task that walks   *)
(* the current velocity towards the commanded one, step by step, and       *)
(* signals every new output level to the motor task.                       *)
(*                                                                         *)
(* The three handlers of the task are operators over its own variables, so *)
(* that MotorPipeline composes them with the command channel; the Spec of  *)
(* this module runs them under an environment that commands any velocity   *)
(* at any time and takes the signalled level at any time.                  *)
(***************************************************************************)
EXTENDS Velocity

CONSTANTS
    AccelRates,   \* values of CV3 to consider
    DecelRates,   \* values of CV4 to consider
    SpeedTable    \* output level of every speed step; step 0 is no power

ASSUME AccelAssumption ==
    /\ AccelRates \subseteq Nat
    /\ DecelRates \subseteq Nat
    /\ SpeedTable \in [0 .. MaxStep -> Nat]
    /\ SpeedTable[0] = 0

VARIABLES
    config,               \* Helper.config, read from CV3 and CV4 at boot
    current,              \* Helper.current
    target,               \* Helper.target
    accel_timer,          \* TRUE iff the timer is armed with a finite delay
    previous_setpoint,    \* last velocity signalled: {} or {v}
    MOTOR_SPEED_CHANNEL   \* Signal to the motor task: {} or {level}

accelVars == <<config, current, target, accel_timer, previous_setpoint,
               MOTOR_SPEED_CHANNEL>>

Option(S) == {{}} \union {{x} : x \in S}

OutputLevel ==
    [dir : Direction, setpoint : {SpeedTable[n] : n \in 0 .. MaxStep}]

Config == [accel_rate : AccelRates, decel_rate : DecelRates]

AccelTypeOK ==
    /\ config \in Config
    /\ current \in VelocitySetpoint
    /\ target \in Commandable
    /\ accel_timer \in BOOLEAN
    /\ previous_setpoint \in Option(VelocitySetpoint)
    /\ MOTOR_SPEED_CHANNEL \in Option(OutputLevel)

AccelInit ==
    /\ config \in Config
    /\ current = DefaultVelocity
    /\ target = DefaultVelocity
    /\ accel_timer = FALSE
    /\ previous_setpoint = {}
    /\ MOTOR_SPEED_CHANNEL = {}

-----------------------------------------------------------------------------

ToOutputLevel(v) ==
    [dir      |-> v.direction,
     setpoint |-> SpeedTable[IF Idx(v) < MaxStep THEN Idx(v) ELSE MaxStep]]

(* Mutant: a level the motor has not taken is kept, as a bounded channel   *)
(* would keep it.                                                          *)
MaybeSendKeepsOldest(setpoint) ==
    IF previous_setpoint = {setpoint}
    THEN UNCHANGED <<previous_setpoint, MOTOR_SPEED_CHANNEL>>
    ELSE /\ previous_setpoint' = {setpoint}
         /\ MOTOR_SPEED_CHANNEL' = IF MOTOR_SPEED_CHANNEL = {}
                                   THEN {ToOutputLevel(setpoint)}
                                   ELSE MOTOR_SPEED_CHANNEL

(* maybe_send_to_channel: a signal replaces one the motor has not taken.   *)
MaybeSend(setpoint) ==
    IF previous_setpoint = {setpoint}
    THEN UNCHANGED <<previous_setpoint, MOTOR_SPEED_CHANNEL>>
    ELSE /\ previous_setpoint' = {setpoint}
         /\ MOTOR_SPEED_CHANNEL' = {ToOutputLevel(setpoint)}

(* Mutant: steps once and never re-arms the timer.                         *)
StepOnce(t) ==
    /\ current' = StepCurrent(config, current, t)
    /\ MaybeSend(StepSetpoint(current', t))
    /\ accel_timer' = FALSE

(* accel_helper.step() towards t, then the send and the new timer.         *)
StepAndSend(t) ==
    /\ current' = StepCurrent(config, current, t)
    /\ MaybeSend(StepSetpoint(current', t))
    /\ accel_timer' = StepDelayFinite(current', t)

AccelSetVelocity(v) ==
    /\ target' = v
    /\ StepAndSend(v)
    /\ UNCHANGED config

AccelTimerExpired ==
    /\ accel_timer
    /\ StepAndSend(target)
    /\ UNCHANGED <<config, target>>

(* Mutant: the timer of an interrupted ramp stays armed.                   *)
AccelResetKeepsTimer ==
    /\ current' = DefaultVelocity
    /\ target' = DefaultVelocity
    /\ UNCHANGED <<config, accel_timer, previous_setpoint, MOTOR_SPEED_CHANNEL>>

AccelReset ==
    /\ current' = DefaultVelocity
    /\ target' = DefaultVelocity
    /\ accel_timer' = FALSE
    /\ UNCHANGED <<config, previous_setpoint, MOTOR_SPEED_CHANNEL>>

(* The motor task takes the pending level (Signal::wait).                  *)
TakeLevel ==
    /\ MOTOR_SPEED_CHANNEL # {}
    /\ MOTOR_SPEED_CHANNEL' = {}
    /\ UNCHANGED <<config, current, target, accel_timer, previous_setpoint>>

AccelNext ==
    \/ \E v \in Commandable : AccelSetVelocity(v)
    \/ AccelTimerExpired
    \/ AccelReset
    \/ TakeLevel

(* The time driver wakes the task when its timer expires, and the executor *)
(* polls every woken task.                                                 *)
AccelSpec == AccelInit /\ [][AccelNext]_accelVars /\ WF_accelVars(AccelTimerExpired)

-----------------------------------------------------------------------------
(* Position on a line: forward steps are positive, reverse ones negative.  *)
SignedSpeed(v) == IF v.direction = "Forward" THEN Idx(v) ELSE - Idx(v)

Between(a, x, b) == (a <= x /\ x <= b) \/ (b <= x /\ x <= a)

(* The helper ramps unless a timer is running it: the task re-arms its     *)
(* timer as long as the target is not reached and sleeps only once it is   *)
(* (handler.rs:233-236 and 241-244 use the delay step() returned). A ramp  *)
(* that loses its timer strands the locomotive at an intermediate speed.   *)
TimerArmedIffRamping == accel_timer <=> ~ Equivalent(current, target)

(* Direction changes at standstill (accel.rs:50-58: "We decelerate to zero,*)
(* then switch direction"): with a deceleration rate no step reverses a    *)
(* helper that is still moving, however commands and timer steps mix. Only *)
(* a Reset, which stops it in the same step, may.                          *)
TurnsOnlyAtStandstill ==
    [][ current'.direction # current.direction /\ config.decel_rate > 0
            => Idx(current) = 0 \/ Idx(current') = 0 ]_accelVars

(* A stop that is not an emergency stop, received at standstill while      *)
(* facing the other way, with a deceleration rate configured. accel.rs:79  *)
(* then computes 0 - 1 on a u8.                                            *)
ReversedStopUnderflow ==
    /\ config.decel_rate > 0
    /\ Idx(current) = 0
    /\ current.direction # target'.direction
    /\ Idx(target') = 0
    /\ target'.speed_step # EmergencyStop

(* No step of the helper moves away from its target or past it: between    *)
(* the speed before and the target, for every mix of commands, timer steps *)
(* and resets. ReversedStopUnderflow names the one step that escapes.      *)
RampsTowardsTarget ==
    [][ ReversedStopUnderflow
        \/ Between(SignedSpeed(current), SignedSpeed(current'),
                   SignedSpeed(target')) ]_accelVars

(* The same without the exception: "We decelerate to zero, then switch     *)
(* direction, and start accelerating normally" (accel.rs:50-51).           *)
DeceleratesToZeroThenTurns ==
    [][ Between(SignedSpeed(current), SignedSpeed(current'),
                SignedSpeed(target')) ]_accelVars

(* A commanded velocity is reached unless another one (or a reset)         *)
(* replaces it, for any interleaving of repeated commands and timer steps. *)
TargetReached ==
    \A v \in Commandable :
        (target = v) ~> (Equivalent(current, v) \/ target # v)

(* What the helper implements, for every CV3 and CV4: a walk along the line*)
(* of signed speeds, a unit at a time where a CV asks for it. A turn at    *)
(* standstill, an emergency stop in the other direction and a level that is*)
(* taken do not show there; the wrapped step is Ramp's Slip.               *)
RampPace ==
    [up   |-> IF config.accel_rate > 0 THEN "gradual" ELSE "at once",
     down |-> IF config.decel_rate > 0 THEN "gradual" ELSE "at once"]

Ramp == INSTANCE Ramp WITH Goals    <- -MaxStep .. MaxStep,
                           Highest  <- StepModulus - 1,
                           position <- SignedSpeed(current),
                           goal     <- SignedSpeed(target),
                           pace     <- RampPace
RampSpec == Ramp!Spec

=============================================================================
