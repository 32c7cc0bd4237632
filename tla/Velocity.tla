------------------------------ MODULE Velocity ------------------------------
(***************************************************************************)
(* Velocity setpoints of the motor crate and the arithmetic of one step    *)
(* of its acceleration helper (motor/src/lib.rs, motor/src/speed/accel.rs).*)
(* Speed step indices are u8 values: the subtraction of accel.rs:79 is     *)
(* taken modulo StepModulus, which is what the release profile compiles    *)
(* (overflow-checks = false).                                              *)
(***************************************************************************)
EXTENDS Integers

CONSTANTS
    MaxStep,      \* highest speed step a packet carries: 126 in the code
    StepModulus   \* number of values of the step index type: 2^8 in the code

ASSUME StepAssumption ==
    /\ MaxStep \in Nat \ {0}
    /\ StepModulus \in Nat
    /\ MaxStep < StepModulus

Direction == {"Forward", "Reverse"}

(* SpeedStep: Num(0) and Stop have the same index but are different values,*)
(* which the setpoint comparison of the accel task can tell apart.         *)
Num(n)        == [kind |-> "Num", n |-> n]
Stop          == [kind |-> "Stop", n |-> 0]
EmergencyStop == [kind |-> "EmergencyStop", n |-> 0]

SpeedStep == {Stop, EmergencyStop} \union {Num(n) : n \in 0 .. StepModulus - 1}

VelocitySetpoint == [speed_step : SpeedStep, direction : Direction]

DefaultVelocity == [speed_step |-> Stop, direction |-> "Forward"]

Idx(v) == v.speed_step.n

Equivalent(v, w) == Idx(v) = Idx(w) /\ v.direction = w.direction

(* What a 128 speed step packet can command: the wire value 0 is Stop, 1   *)
(* is EmergencyStop and w >= 2 is Num(w - 1).                              *)
Commandable ==
    [speed_step : {Stop, EmergencyStop} \union {Num(n) : n \in 1 .. MaxStep},
     direction  : Direction]

-----------------------------------------------------------------------------
(* One call of Helper::step with current velocity c and target t; cfg      *)
(* holds the accel_rate (CV3) and decel_rate (CV4).                        *)

(* Mutant: reverses at any speed.                                          *)
TurnsNowAnySpeed(cfg, c, t) == c.direction # t.direction

TurnsNow(cfg, c, t) ==
    /\ c.direction # t.direction
    /\ cfg.decel_rate = 0 \/ Idx(c) = 0

AfterTurn(cfg, c, t) ==
    IF TurnsNow(cfg, c, t)
    THEN [speed_step |-> Stop, direction |-> t.direction]
    ELSE c

(* Mutant: compares the speeds without the directions.                     *)
AcceleratingEitherWay(c, t) == Idx(c) < Idx(t)

Accelerating(c, t) == Idx(c) < Idx(t) /\ c.direction = t.direction

(* Mutant: acceleration follows the deceleration rate.                     *)
FasterStepByDecelRate(cfg, c, t) ==
    Num(IF cfg.decel_rate > 0 THEN Idx(c) + 1 ELSE Idx(t))

FasterStep(cfg, c, t) == Num(IF cfg.accel_rate > 0 THEN Idx(c) + 1 ELSE Idx(t))

(* Mutant: the step index is twice as wide.                                *)
SlowerStepWide(cfg, c, t) ==
    Num(IF cfg.decel_rate > 0 THEN (Idx(c) - 1) % (StepModulus * StepModulus)
        ELSE Idx(t))

SlowerStep(cfg, c, t) ==
    Num(IF cfg.decel_rate > 0 THEN (Idx(c) - 1) % StepModulus ELSE Idx(t))

NextSpeedStep(cfg, c, t) ==
    IF t.speed_step = EmergencyStop THEN EmergencyStop
    ELSE IF Accelerating(c, t)      THEN FasterStep(cfg, c, t)
    ELSE                                 SlowerStep(cfg, c, t)

(* self.current after the call.                                            *)
StepCurrent(cfg, c, t) ==
    IF Equivalent(c, t) THEN c
    ELSE LET turned == AfterTurn(cfg, c, t)
         IN  [turned EXCEPT !.speed_step = NextSpeedStep(cfg, turned, t)]

(* The setpoint the call returns, given self.current after it: the target  *)
(* itself once it is reached.                                              *)
StepSetpoint(after, t) == IF Equivalent(after, t) THEN t ELSE after

(* Whether the returned delay is finite. The delay is Duration::MAX once   *)
(* the target is reached and rate * loop_delay before.                     *)
StepDelayFinite(after, t) == ~ Equivalent(after, t)

=============================================================================
