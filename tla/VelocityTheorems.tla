-------------------------- MODULE VelocityTheorems --------------------------
(***************************************************************************)
(* What one step of the acceleration helper returns, for every speed range *)
(* and every width of the step index.                                      *)
(***************************************************************************)
EXTENDS Velocity, TLAPS

(* The fields of a setpoint, and the range of its index.                   *)
LEMMA SetpointFields ==
    ASSUME NEW v \in VelocitySetpoint
    PROVE  /\ Idx(v) \in 0 .. StepModulus - 1
           /\ v.speed_step \in SpeedStep
           /\ v.direction \in Direction
BY StepAssumption DEF VelocitySetpoint, SpeedStep, Idx, Num, Stop, EmergencyStop

(* A setpoint is put together from a speed step and a direction.           *)
LEMMA SetpointFromFields ==
    ASSUME NEW s \in SpeedStep, NEW d \in Direction
    PROVE  [speed_step |-> s, direction |-> d] \in VelocitySetpoint
BY DEF VelocitySetpoint

LEMMA NumIsSpeedStep ==
    ASSUME NEW n \in 0 .. StepModulus - 1
    PROVE  Num(n) \in SpeedStep
BY DEF SpeedStep

(* What a packet commands is a setpoint within the speed table.            *)
LEMMA CommandableFields ==
    ASSUME NEW t \in Commandable
    PROVE  /\ t \in VelocitySetpoint
           /\ Idx(t) \in 0 .. MaxStep
           /\ t.speed_step = EmergencyStop => Idx(t) = 0
BY StepAssumption
   DEF Commandable, VelocitySetpoint, SpeedStep, Idx, Num, Stop, EmergencyStop

LEMMA DefaultIsCommandable ==
    /\ DefaultVelocity \in Commandable
    /\ DefaultVelocity \in VelocitySetpoint
    /\ Idx(DefaultVelocity) = 0
BY DEF DefaultVelocity, Commandable, VelocitySetpoint, SpeedStep, Direction,
       Idx, Stop

LEMMA DecrementWraps ==
    ASSUME NEW n \in 0 .. StepModulus - 1
    PROVE  /\ (n - 1) % StepModulus \in 0 .. StepModulus - 1
           /\ n > 0 => (n - 1) % StepModulus = n - 1
BY StepAssumption

(* Turning keeps a setpoint a setpoint; a turn stops it.                   *)
LEMMA AfterTurnFields ==
    ASSUME NEW cfg, NEW c \in VelocitySetpoint, NEW t \in Commandable
    PROVE  /\ AfterTurn(cfg, c, t) \in VelocitySetpoint
           /\ TurnsNow(cfg, c, t) =>
                 Idx(AfterTurn(cfg, c, t)) = 0
                 /\ AfterTurn(cfg, c, t).direction = t.direction
           /\ ~ TurnsNow(cfg, c, t) => AfterTurn(cfg, c, t) = c
<1>1. t.direction \in Direction
  BY CommandableFields, SetpointFields
<1>2. Stop \in SpeedStep
  BY DEF SpeedStep
<1> QED
  BY <1>1, <1>2, SetpointFromFields DEF AfterTurn, Idx, Stop

(* The new speed step is in the range of its type: it exceeds neither the  *)
(* target when accelerating nor, by wrapping, the width of the index.      *)
LEMMA NextSpeedStepType ==
    ASSUME NEW cfg, NEW c \in VelocitySetpoint, NEW t \in Commandable
    PROVE  NextSpeedStep(cfg, c, t) \in SpeedStep
<1>1. Idx(c) \in 0 .. StepModulus - 1 /\ Idx(t) \in 0 .. MaxStep
  BY SetpointFields, CommandableFields
<1>2. CASE t.speed_step = EmergencyStop
  BY <1>2 DEF NextSpeedStep, SpeedStep
<1>3. CASE t.speed_step # EmergencyStop /\ Accelerating(c, t)
  <2>1. Idx(c) + 1 \in 0 .. StepModulus - 1 /\ Idx(t) \in 0 .. StepModulus - 1
    BY <1>1, <1>3, StepAssumption DEF Accelerating
  <2> QED
    BY <2>1, <1>3, NumIsSpeedStep DEF NextSpeedStep, FasterStep
<1>4. CASE t.speed_step # EmergencyStop /\ ~ Accelerating(c, t)
  <2>1. /\ (Idx(c) - 1) % StepModulus \in 0 .. StepModulus - 1
        /\ Idx(t) \in 0 .. StepModulus - 1
    BY <1>1, DecrementWraps, StepAssumption
  <2> QED
    BY <2>1, <1>4, NumIsSpeedStep DEF NextSpeedStep, SlowerStep
<1> QED
  BY <1>2, <1>3, <1>4

(* One step as its direction and its speed step.                           *)
LEMMA StepCurrentFields ==
    ASSUME NEW cfg, NEW c \in VelocitySetpoint, NEW t \in Commandable
    PROVE  LET turned == AfterTurn(cfg, c, t)
               after  == StepCurrent(cfg, c, t)
           IN  /\ after \in VelocitySetpoint
               /\ Equivalent(c, t) => after = c
               /\ ~ Equivalent(c, t) =>
                     /\ after.direction = turned.direction
                     /\ after.speed_step = NextSpeedStep(cfg, turned, t)
<1> DEFINE turned == AfterTurn(cfg, c, t)
<1> DEFINE step == NextSpeedStep(cfg, turned, t)
<1>1. turned \in VelocitySetpoint
  BY AfterTurnFields
<1>2. step \in SpeedStep
  BY <1>1, NextSpeedStepType
<1>3. CASE Equivalent(c, t)
  BY <1>3 DEF StepCurrent
<1>4. CASE ~ Equivalent(c, t)
  <2>1. StepCurrent(cfg, c, t) = [turned EXCEPT !.speed_step = step]
    BY <1>4 DEF StepCurrent
  <2> HIDE DEF turned, step
  <2>2. [turned EXCEPT !.speed_step = step] =
            [speed_step |-> step, direction |-> turned.direction]
    BY <1>1 DEF VelocitySetpoint
  <2>3. turned.direction \in Direction
    BY <1>1, SetpointFields
  <2>4. StepCurrent(cfg, c, t) \in VelocitySetpoint
    BY <2>1, <2>2, <2>3, <1>2, SetpointFromFields
  <2> QED
    BY <2>1, <2>2, <2>4, <1>4 DEF turned, step
<1> QED
  BY <1>3, <1>4

=============================================================================
