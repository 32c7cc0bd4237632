-------------------------- MODULE AccelHelperProofs --------------------------
(***************************************************************************)
(* The safety of the acceleration task, for every speed range, width of    *)
(* the step index, speed table and choice of CV3 and CV4.                  *)
(***************************************************************************)
EXTENDS AccelHelper, VelocityTheorems

(* A velocity maps to a level of the speed table, also when a wrapped      *)
(* index is beyond its end.                                                *)
LEMMA LevelType ==
    ASSUME NEW v \in VelocitySetpoint
    PROVE  ToOutputLevel(v) \in OutputLevel
<1> DEFINE n == IF Idx(v) < MaxStep THEN Idx(v) ELSE MaxStep
<1>1. n \in 0 .. MaxStep
  BY SetpointFields, StepAssumption
<1>2. v.direction \in Direction
  BY SetpointFields
<1>3. SpeedTable[n] \in {SpeedTable[m] : m \in 0 .. MaxStep}
  BY <1>1
<1> QED
  BY <1>2, <1>3 DEF ToOutputLevel, OutputLevel

LEMMA OptionSingleton ==
    ASSUME NEW S, NEW x \in S
    PROVE  {x} \in Option(S) /\ {} \in Option(S)
BY DEF Option

(* What one step towards a commandable target does to the typed state.     *)
LEMMA StepAndSendType ==
    ASSUME AccelTypeOK, NEW t \in Commandable, StepAndSend(t)
    PROVE  /\ current' \in VelocitySetpoint
           /\ accel_timer' \in BOOLEAN
           /\ previous_setpoint' \in Option(VelocitySetpoint)
           /\ MOTOR_SPEED_CHANNEL' \in Option(OutputLevel)
<1> DEFINE sent == StepSetpoint(current', t)
<1>1. current' = StepCurrent(config, current, t) /\ MaybeSend(sent)
  BY DEF StepAndSend
<1>2. current' \in VelocitySetpoint
  BY <1>1, StepCurrentFields DEF AccelTypeOK
<1>3. accel_timer' \in BOOLEAN
  BY DEF StepAndSend, StepDelayFinite
<1>4. sent \in VelocitySetpoint
  BY <1>2, CommandableFields DEF StepSetpoint
<1> HIDE DEF sent
<1>5. CASE previous_setpoint = {sent}
  BY <1>1, <1>2, <1>3, <1>5 DEF MaybeSend, AccelTypeOK
<1>6. CASE previous_setpoint # {sent}
  <2>1. previous_setpoint' = {sent} /\ MOTOR_SPEED_CHANNEL' = {ToOutputLevel(sent)}
    BY <1>1, <1>6 DEF MaybeSend
  <2>2. ToOutputLevel(sent) \in OutputLevel
    BY <1>4, LevelType
  <2> QED
    BY <1>2, <1>3, <1>4, <2>1, <2>2, OptionSingleton
<1> QED
  BY <1>5, <1>6

LEMMA SetVelocityType ==
    ASSUME AccelTypeOK, NEW v \in Commandable, AccelSetVelocity(v)
    PROVE  AccelTypeOK'
BY StepAndSendType DEF AccelSetVelocity, AccelTypeOK

LEMMA TimerExpiredType ==
    ASSUME AccelTypeOK, AccelTimerExpired
    PROVE  AccelTypeOK'
BY StepAndSendType DEF AccelTimerExpired, AccelTypeOK

LEMMA ResetType ==
    ASSUME AccelTypeOK, AccelReset
    PROVE  AccelTypeOK'
BY DefaultIsCommandable DEF AccelReset, AccelTypeOK

LEMMA AccelInitType == AccelInit => AccelTypeOK
BY DefaultIsCommandable DEF AccelInit, AccelTypeOK, Option

LEMMA AccelTypeStep == AccelTypeOK /\ [AccelNext]_accelVars => AccelTypeOK'
<1> SUFFICES ASSUME AccelTypeOK, [AccelNext]_accelVars
             PROVE  AccelTypeOK'
  OBVIOUS
<1>1. ASSUME NEW v \in Commandable, AccelSetVelocity(v) PROVE AccelTypeOK'
  BY <1>1, SetVelocityType
<1>2. CASE AccelTimerExpired
  BY <1>2, TimerExpiredType
<1>3. CASE AccelReset
  BY <1>3, ResetType
<1>4. CASE TakeLevel
  BY <1>4 DEF TakeLevel, AccelTypeOK, Option
<1>5. CASE UNCHANGED accelVars
  BY <1>5 DEF accelVars, AccelTypeOK
<1> QED
  BY <1>1, <1>2, <1>3, <1>4, <1>5 DEF AccelNext

(* The steps of the helper, without the fairness: what a composition with   *)
(* other tasks leaves of AccelSpec.                                        *)
AccelSteps == AccelInit /\ [][AccelNext]_accelVars

LEMMA AccelSpecSteps == AccelSpec => AccelSteps
BY PTL DEF AccelSpec, AccelSteps

(* Types of the acceleration task: the step index in the range of its type,*)
(* the target within the speed table, every level one of the table.        *)
THEOREM AccelTypeCorrect == AccelSteps => []AccelTypeOK
BY AccelInitType, AccelTypeStep, PTL DEF AccelSteps

-----------------------------------------------------------------------------
(* The timer runs exactly as long as the target is not reached: an         *)
(* interrupted ramp never strands the locomotive at an intermediate speed. *)
THEOREM TimerRunsWhileRamping == AccelSteps => []TimerArmedIffRamping
<1>1. AccelInit => TimerArmedIffRamping
  BY DEF AccelInit, TimerArmedIffRamping, Equivalent
<1>2. TimerArmedIffRamping /\ [AccelNext]_accelVars => TimerArmedIffRamping'
  <2> SUFFICES ASSUME TimerArmedIffRamping, [AccelNext]_accelVars
               PROVE  TimerArmedIffRamping'
    OBVIOUS
  <2>1. ASSUME NEW v \in Commandable, AccelSetVelocity(v)
        PROVE  TimerArmedIffRamping'
    BY <2>1 DEF AccelSetVelocity, StepAndSend, StepDelayFinite, TimerArmedIffRamping
  <2>2. CASE AccelTimerExpired
    BY <2>2 DEF AccelTimerExpired, StepAndSend, StepDelayFinite, TimerArmedIffRamping
  <2>3. CASE AccelReset
    BY <2>3 DEF AccelReset, TimerArmedIffRamping, Equivalent
  <2>4. CASE TakeLevel
    BY <2>4 DEF TakeLevel, TimerArmedIffRamping
  <2>5. CASE UNCHANGED accelVars
    BY <2>5 DEF accelVars, TimerArmedIffRamping
  <2> QED
    BY <2>1, <2>2, <2>3, <2>4, <2>5 DEF AccelNext
<1> QED
  BY <1>1, <1>2, PTL DEF AccelSteps

-----------------------------------------------------------------------------
(* Every action either steps towards the target it sets or keeps, resets,  *)
(* or leaves the velocity alone.                                           *)
LEMMA HowVelocityChanges ==
    ASSUME [AccelNext]_accelVars, AccelTypeOK
    PROVE  \/ target' \in Commandable /\ current' = StepCurrent(config, current, target')
           \/ current' = DefaultVelocity /\ target' = DefaultVelocity
           \/ current' = current /\ target' = target
<1>1. ASSUME NEW v \in Commandable, AccelSetVelocity(v)
      PROVE  target' \in Commandable /\ current' = StepCurrent(config, current, target')
  BY <1>1 DEF AccelSetVelocity, StepAndSend
<1>2. CASE AccelTimerExpired
  BY <1>2 DEF AccelTimerExpired, StepAndSend, AccelTypeOK
<1>3. CASE AccelReset
  BY <1>3 DEF AccelReset
<1>4. CASE TakeLevel \/ UNCHANGED accelVars
  BY <1>4 DEF TakeLevel, accelVars
<1> QED
  BY <1>1, <1>2, <1>3, <1>4 DEF AccelNext

(* With a deceleration rate the direction changes at standstill only.      *)
LEMMA StepTurnsAtStandstill ==
    ASSUME NEW cfg, NEW c \in VelocitySetpoint, NEW t \in Commandable,
           StepCurrent(cfg, c, t).direction # c.direction
    PROVE  cfg.decel_rate = 0 \/ Idx(c) = 0
BY StepCurrentFields, AfterTurnFields DEF TurnsNow

THEOREM TurnsAtStandstill == AccelSteps => TurnsOnlyAtStandstill
<1> DEFINE Turn == current'.direction # current.direction /\ config.decel_rate > 0
                       => Idx(current) = 0 \/ Idx(current') = 0
<1>1. AccelTypeOK /\ [AccelNext]_accelVars => [Turn]_accelVars
  <2> SUFFICES ASSUME AccelTypeOK, [AccelNext]_accelVars PROVE Turn
    OBVIOUS
  <2>1. CASE target' \in Commandable /\ current' = StepCurrent(config, current, target')
    BY <2>1, StepTurnsAtStandstill DEF AccelTypeOK, Config
  <2>2. CASE current' = DefaultVelocity \/ current' = current
    BY <2>2, DefaultIsCommandable
  <2> QED
    BY <2>1, <2>2, HowVelocityChanges
<1> QED
  BY <1>1, AccelTypeCorrect, PTL DEF AccelSteps, TurnsOnlyAtStandstill

-----------------------------------------------------------------------------
(* The walk along the line, with the rates for its pace.                   *)
LEMMA AlongTheLine ==
    ASSUME NEW p \in Int, NEW g \in Int
    PROVE  /\ p = g => Ramp!Along(p, g) = p
           /\ p # g /\ Between(0, p, g) => Ramp!Along(p, g) = Ramp!Away(p, g)
           /\ ~ Between(0, p, g) /\ config.decel_rate > 0
                 => Ramp!Along(p, g) = p - Ramp!Sign(p)
           /\ ~ Between(0, p, g) /\ ~ config.decel_rate > 0 /\ Between(0, g, p)
                 => Ramp!Along(p, g) = g
           /\ ~ Between(0, p, g) /\ ~ config.decel_rate > 0 /\ ~ Between(0, g, p)
                 => Ramp!Along(p, g) = Ramp!Away(0, g)
<1>1. RampPace.down = "gradual" <=> config.decel_rate > 0
  BY DEF RampPace
<1>2. \A a, x, b : Ramp!Between(a, x, b) <=> Between(a, x, b)
  BY DEF Ramp!Between, Between
<1>3. p = g => Between(0, p, g)
  BY DEF Between
<1> QED
  BY <1>1, <1>2, <1>3 DEF Ramp!Along

LEMMA AwayFromZero ==
    ASSUME NEW p, NEW g
    PROVE  Ramp!Away(p, g) = IF config.accel_rate > 0 THEN p + Ramp!Sign(g) ELSE g
BY DEF Ramp!Away, RampPace

(* It never leaves the way from p to g.                                    *)
LEMMA AlongIsBetween ==
    ASSUME NEW p \in Int, NEW g \in Int
    PROVE  Between(p, Ramp!Along(p, g), g)
<1>1. \A x \in Int : Between(0, x, g) /\ x # g => Between(x, Ramp!Away(x, g), g)
  BY AwayFromZero DEF Between, Ramp!Sign
<1>2. CASE p = g
  BY <1>2, AlongTheLine DEF Between
<1>3. CASE p # g /\ Between(0, p, g)
  BY <1>1, <1>3, AlongTheLine
<1>4. CASE ~ Between(0, p, g) /\ config.decel_rate > 0
  BY <1>4, AlongTheLine DEF Between, Ramp!Sign
<1>5. CASE ~ Between(0, p, g) /\ ~ config.decel_rate > 0
  <2>1. CASE Between(0, g, p)
    BY <1>5, <2>1, AlongTheLine DEF Between
  <2>2. CASE ~ Between(0, g, p)
    <3>1. Between(0, 0, g) /\ 0 # g
      BY <1>5, <2>2 DEF Between
    <3>2. Between(0, Ramp!Away(0, g), g)
      BY <1>1, <3>1
    <3>3. Ramp!Along(p, g) = Ramp!Away(0, g)
      BY <1>5, <2>2, AlongTheLine
    <3>4. Ramp!Away(0, g) \in Int
      BY AwayFromZero DEF Ramp!Sign
    <3> QED
      BY <1>5, <2>2, <3>2, <3>3, <3>4 DEF Between
  <2> QED
    BY <2>1, <2>2
<1> QED
  BY <1>2, <1>3, <1>4, <1>5

(* The signed speeds that a step can start from and be on the way to.      *)
LEMMA OnTheLine ==
    ASSUME NEW v \in VelocitySetpoint
    PROVE  /\ SignedSpeed(v) \in Int /\ Idx(v) \in Nat /\ Idx(v) < StepModulus
           /\ \/ v.direction = "Forward" /\ SignedSpeed(v) = Idx(v)
              \/ v.direction = "Reverse" /\ SignedSpeed(v) = - Idx(v)
BY SetpointFields, StepAssumption DEF SignedSpeed, Direction

LEMMA ZeroSpeed ==
    ASSUME NEW v, Idx(v) = 0
    PROVE  SignedSpeed(v) = 0
<1>1. SignedSpeed(v) = Idx(v) \/ SignedSpeed(v) = - Idx(v)
  BY DEF SignedSpeed
<1>2. \A n \in Int : n <= 0 /\ n >= 0 => - n = 0
  OBVIOUS
<1> QED
  BY <1>1, <1>2

(* The stop at standstill, in the other direction, that wraps the index.   *)
Wraps(c, t) ==
    /\ config.decel_rate > 0
    /\ Idx(c) = 0 /\ c.direction # t.direction
    /\ Idx(t) = 0 /\ t.speed_step # EmergencyStop

LEMMA AcceleratesAlong ==
    ASSUME NEW c \in VelocitySetpoint, NEW t \in Commandable,
           config.decel_rate \in Nat,
           ~ Equivalent(c, t), t.speed_step # EmergencyStop,
           Accelerating(AfterTurn(config, c, t), t)
    PROVE  SignedSpeed(StepCurrent(config, c, t))
              = Ramp!Along(SignedSpeed(c), SignedSpeed(t))
<1> DEFINE turned == AfterTurn(config, c, t)
           after  == StepCurrent(config, c, t)
           p      == SignedSpeed(c)
           g      == SignedSpeed(t)
<1>1. t \in VelocitySetpoint
  BY CommandableFields
<1>2. after.direction = t.direction /\ after.speed_step = FasterStep(config, turned, t)
  BY StepCurrentFields DEF Accelerating, NextSpeedStep
<1>3. Idx(after) = IF config.accel_rate > 0 THEN Idx(turned) + 1 ELSE Idx(t)
  BY <1>2 DEF FasterStep, Idx, Num
<1>4. Idx(turned) < Idx(t)
  BY DEF Accelerating
<1>5. SignedSpeed(after) =
         IF t.direction = "Forward" THEN Idx(after) ELSE - Idx(after)
  BY <1>2 DEF SignedSpeed
<1>6. CASE turned = c /\ c.direction = t.direction
  <2>1. p # g /\ Between(0, p, g)
    BY <1>1, <1>4, <1>6, OnTheLine DEF Between
  <2>2. Ramp!Along(p, g) = IF config.accel_rate > 0 THEN p + Ramp!Sign(g) ELSE g
    BY <1>1, <2>1, AlongTheLine, AwayFromZero, OnTheLine
  <2> QED
    BY <1>1, <1>3, <1>4, <1>5, <1>6, <2>2, OnTheLine DEF Ramp!Sign
<1>7. CASE TurnsNow(config, c, t)
  <2>1. Idx(turned) = 0 /\ c.direction # t.direction
    BY <1>7, AfterTurnFields DEF TurnsNow
  <2>2. Ramp!Along(p, g) = Ramp!Away(0, g)
    <3>1. CASE Idx(c) = 0
      <4>1. p = 0 /\ p # g /\ Between(0, p, g)
        BY <1>1, <1>4, <2>1, <3>1, OnTheLine DEF Between
      <4> QED
        BY <1>1, <4>1, AlongTheLine, OnTheLine
    <3>2. CASE Idx(c) # 0
      <4>1. ~ config.decel_rate > 0
        BY <1>7, <3>2 DEF TurnsNow
      <4>2. ~ Between(0, p, g) /\ ~ Between(0, g, p)
        BY <1>1, <1>4, <2>1, <3>2, OnTheLine DEF Between
      <4> QED
        BY <1>1, <4>1, <4>2, AlongTheLine, OnTheLine
    <3> QED
      BY <3>1, <3>2
  <2>3. Ramp!Along(p, g) = IF config.accel_rate > 0 THEN 0 + Ramp!Sign(g) ELSE g
    BY <2>2, AwayFromZero
  <2> QED
    BY <1>1, <1>3, <1>4, <1>5, <2>1, <2>3, OnTheLine DEF Ramp!Sign
<1>8. (turned = c /\ c.direction = t.direction) \/ TurnsNow(config, c, t)
  BY DEF AfterTurn, Accelerating
<1> QED
  BY <1>6, <1>7, <1>8

LEMMA DeceleratesAlong ==
    ASSUME NEW c \in VelocitySetpoint, NEW t \in Commandable,
           config.decel_rate \in Nat,
           ~ Equivalent(c, t), t.speed_step # EmergencyStop,
           ~ Accelerating(AfterTurn(config, c, t), t)
    PROVE  LET q == SignedSpeed(StepCurrent(config, c, t))
           IN  \/ q = Ramp!Along(SignedSpeed(c), SignedSpeed(t))
               \/ Wraps(c, t) /\ q \in {- (StepModulus - 1), StepModulus - 1}
<1> DEFINE turned == AfterTurn(config, c, t)
           after  == StepCurrent(config, c, t)
           p      == SignedSpeed(c)
           g      == SignedSpeed(t)
<1>1. t \in VelocitySetpoint
  BY CommandableFields
<1>2. /\ after.direction = turned.direction
      /\ after.speed_step = SlowerStep(config, turned, t)
  BY StepCurrentFields DEF NextSpeedStep
<1>3. Idx(after) = IF config.decel_rate > 0 THEN (Idx(turned) - 1) % StepModulus
                   ELSE Idx(t)
  BY <1>2 DEF SlowerStep, Idx, Num
<1>4. SignedSpeed(after) =
         IF turned.direction = "Forward" THEN Idx(after) ELSE - Idx(after)
  BY <1>2 DEF SignedSpeed
<1>5. CASE TurnsNow(config, c, t)
  <2>1. Idx(turned) = 0 /\ turned.direction = t.direction
    BY <1>5, AfterTurnFields
  <2>2. Idx(t) = 0 /\ g = 0
    BY <1>1, <2>1, OnTheLine DEF Accelerating
  <2>3. CASE config.decel_rate > 0
    <3>1. Wraps(c, t)
      BY <1>5, <2>2, <2>3 DEF TurnsNow, Wraps
    <3>2. Idx(after) = StepModulus - 1
      BY <1>3, <2>1, <2>3, DecrementWraps, StepAssumption
    <3> QED
      BY <1>4, <3>1, <3>2
  <2>4. CASE ~ config.decel_rate > 0
    <3>1. SignedSpeed(after) = 0
      BY <1>3, <2>2, <2>4, ZeroSpeed
    <3>2. CASE p = 0
      BY <1>1, <2>2, <3>1, <3>2, AlongTheLine, OnTheLine
    <3>3. CASE p # 0
      <4>1. ~ Between(0, p, g) /\ Between(0, g, p)
        BY <2>2, <3>3, OnTheLine DEF Between
      <4> QED
        BY <1>1, <2>2, <2>4, <3>1, <4>1, AlongTheLine, OnTheLine
    <3> QED
      BY <3>2, <3>3
  <2> QED
    BY <2>3, <2>4
<1>6. CASE ~ TurnsNow(config, c, t)
  <2>1. turned = c
    BY <1>6, AfterTurnFields
  <2>2. CASE ~ config.decel_rate > 0
    <3>1. c.direction = t.direction /\ Idx(t) < Idx(c)
      BY <1>1, <1>6, <2>1, <2>2, OnTheLine DEF TurnsNow, Accelerating, Equivalent
    <3>2. ~ Between(0, p, g) /\ Between(0, g, p)
      BY <1>1, <3>1, OnTheLine DEF Between
    <3>3. SignedSpeed(after) = g
      BY <1>3, <1>4, <2>1, <2>2, <3>1 DEF SignedSpeed
    <3> QED
      BY <1>1, <2>2, <3>2, <3>3, AlongTheLine, OnTheLine
  <2>3. CASE config.decel_rate > 0
    <3>1. Idx(c) > 0 /\ (c.direction = t.direction => Idx(t) < Idx(c))
      BY <1>1, <1>6, <2>1, <2>3, OnTheLine DEF TurnsNow, Accelerating, Equivalent
    <3>2. Idx(after) = Idx(c) - 1
      BY <1>3, <2>1, <2>3, <3>1, OnTheLine, DecrementWraps, StepAssumption
    <3>3. ~ Between(0, p, g)
      BY <1>1, <3>1, OnTheLine DEF Between
    <3>4. SignedSpeed(after) = p - Ramp!Sign(p)
      BY <1>4, <2>1, <3>1, <3>2, OnTheLine DEF Ramp!Sign
    <3> QED
      BY <1>1, <2>3, <3>3, <3>4, AlongTheLine, OnTheLine
  <2> QED
    BY <2>2, <2>3
<1> QED
  BY <1>5, <1>6

(* A step of the helper is one along the line, an emergency stop or the    *)
(* stop that wraps.                                                        *)
LEMMA StepIsAlong ==
    ASSUME NEW c \in VelocitySetpoint, NEW t \in Commandable,
           config.decel_rate \in Nat
    PROVE  LET q == SignedSpeed(StepCurrent(config, c, t))
           IN  \/ q = Ramp!Along(SignedSpeed(c), SignedSpeed(t))
               \/ t.speed_step = EmergencyStop /\ q = 0 /\ SignedSpeed(t) = 0
               \/ Wraps(c, t) /\ q \in {- (StepModulus - 1), StepModulus - 1}
<1> DEFINE after == StepCurrent(config, c, t)
<1>1. t \in VelocitySetpoint
  BY CommandableFields
<1>2. CASE Equivalent(c, t)
  <2>1. after = c /\ SignedSpeed(c) = SignedSpeed(t)
    BY <1>2, StepCurrentFields DEF Equivalent, SignedSpeed
  <2> QED
    BY <1>1, <2>1, AlongTheLine, OnTheLine
<1>3. CASE ~ Equivalent(c, t) /\ t.speed_step = EmergencyStop
  <2>1. Idx(after) = 0
    BY <1>3, StepCurrentFields DEF NextSpeedStep, Idx, EmergencyStop
  <2>2. Idx(t) = 0
    BY <1>3, CommandableFields
  <2> QED
    BY <1>3, <2>1, <2>2, ZeroSpeed
<1>4. CASE ~ Equivalent(c, t) /\ t.speed_step # EmergencyStop
  BY <1>4, AcceleratesAlong, DeceleratesAlong
<1> QED
  BY <1>2, <1>3, <1>4

(* The helper never moves away from its target nor past it.                *)
THEOREM MovesTowardsTarget == AccelSteps => RampsTowardsTarget
<1> DEFINE Towards ==
        \/ ReversedStopUnderflow
        \/ Between(SignedSpeed(current), SignedSpeed(current'), SignedSpeed(target'))
<1>1. AccelTypeOK /\ [AccelNext]_accelVars => [Towards]_accelVars
  <2> SUFFICES ASSUME AccelTypeOK, [AccelNext]_accelVars, ~ ReversedStopUnderflow
               PROVE  Between(SignedSpeed(current), SignedSpeed(current'),
                              SignedSpeed(target'))
    OBVIOUS
  <2>1. Idx(current) \in Nat
    BY SetpointFields, StepAssumption DEF AccelTypeOK
  <2>2. CASE target' \in Commandable /\ current' = StepCurrent(config, current, target')
    <3>1. config.decel_rate \in Nat
      BY AccelAssumption DEF AccelTypeOK, Config
    <3>2. ~ Wraps(current, target')
      BY DEF Wraps, ReversedStopUnderflow
    <3>3. SignedSpeed(current) \in Int /\ SignedSpeed(target') \in Int
      BY <2>2, OnTheLine, CommandableFields DEF AccelTypeOK
    <3>4. \/ SignedSpeed(current') = Ramp!Along(SignedSpeed(current), SignedSpeed(target'))
          \/ SignedSpeed(current') = 0 /\ SignedSpeed(target') = 0
      BY <2>2, <3>1, <3>2, StepIsAlong DEF AccelTypeOK
    <3> QED
      BY <3>3, <3>4, AlongIsBetween DEF Between
  <2>3. CASE current' = DefaultVelocity /\ target' = DefaultVelocity
    <3>1. SignedSpeed(current') = 0 /\ SignedSpeed(target') = 0
      BY <2>3 DEF SignedSpeed, Idx, DefaultVelocity, Stop
    <3> QED
      BY <2>1, <3>1 DEF Between, SignedSpeed
  <2>4. CASE current' = current /\ target' = target
    <3>1. Idx(target) \in Nat
      BY CommandableFields, StepAssumption DEF AccelTypeOK
    <3> QED
      BY <2>1, <2>4, <3>1 DEF Between, SignedSpeed
  <2> QED
    BY <2>2, <2>3, <2>4, HowVelocityChanges
<1> QED
  BY <1>1, AccelTypeCorrect, PTL DEF AccelSteps, RampsTowardsTarget

-----------------------------------------------------------------------------
LEMMA ConfigStays ==
    ASSUME [AccelNext]_accelVars
    PROVE  config' = config
BY DEF AccelNext, AccelSetVelocity, AccelTimerExpired, AccelReset, TakeLevel, accelVars

(* A step towards the target it sets or keeps, on the line.                *)
LEMMA StepOnRamp ==
    ASSUME AccelTypeOK, config' = config,
           target' \in Commandable, current' = StepCurrent(config, current, target')
    PROVE  \/ SignedSpeed(current') = Ramp!Along(SignedSpeed(current), SignedSpeed(target'))
           \/ Ramp!Halt
           \/ Ramp!Slip
<1>1. config.decel_rate \in Nat
  BY AccelAssumption DEF AccelTypeOK, Config
<1>2. RampPace' = RampPace
  BY DEF RampPace
<1>3. SignedSpeed(current)' = SignedSpeed(current') /\ SignedSpeed(target)' = SignedSpeed(target')
  BY DEF SignedSpeed, Idx
<1>4. CASE /\ target'.speed_step = EmergencyStop
           /\ SignedSpeed(current') = 0 /\ SignedSpeed(target') = 0
  BY <1>2, <1>3, <1>4 DEF Ramp!Halt
<1>5. CASE /\ Wraps(current, target')
           /\ SignedSpeed(current') \in {- (StepModulus - 1), StepModulus - 1}
  <2>1. SignedSpeed(current) = 0 /\ SignedSpeed(target') = 0
    BY <1>5, ZeroSpeed DEF Wraps
  <2>2. RampPace.down = "gradual"
    BY <1>5 DEF Wraps, RampPace
  <2> QED
    BY <1>2, <1>3, <1>5, <2>1, <2>2 DEF Ramp!Slip
<1> QED
  BY <1>1, <1>4, <1>5, StepIsAlong DEF AccelTypeOK

(* The helper implements the ramp: with every CV3 and CV4 each of its steps*)
(* is one along the line of signed speeds at their pace, a halt, the slip  *)
(* of accel.rs:79, or does not show.                                       *)
THEOREM ImplementsRamp == AccelSteps => Ramp!Init /\ [][Ramp!Next]_(Ramp!vars)
<1>1. AccelInit => Ramp!Init
  BY DEF AccelInit, Ramp!Init, Ramp!Pace, RampPace, SignedSpeed, Idx, DefaultVelocity, Stop
<1>2. AccelTypeOK /\ [AccelNext]_accelVars => [Ramp!Next]_(Ramp!vars)
  <2> SUFFICES ASSUME AccelTypeOK, [AccelNext]_accelVars
               PROVE  Ramp!Next \/ UNCHANGED Ramp!vars
    OBVIOUS
  <2>1. /\ RampPace' = RampPace
        /\ SignedSpeed(current)' = SignedSpeed(current')
        /\ SignedSpeed(target)' = SignedSpeed(target')
    BY ConfigStays DEF RampPace, SignedSpeed, Idx
  <2>2. ASSUME NEW v \in Commandable, AccelSetVelocity(v)
        PROVE  Ramp!Next
    <3>1. target' = v /\ current' = StepCurrent(config, current, v)
      BY <2>2 DEF AccelSetVelocity, StepAndSend
    <3>2. SignedSpeed(v) \in -MaxStep .. MaxStep
      BY CommandableFields, StepAssumption DEF SignedSpeed
    <3>3. CASE SignedSpeed(current')
                 = Ramp!Along(SignedSpeed(current), SignedSpeed(target'))
      BY <2>1, <3>1, <3>2, <3>3 DEF Ramp!Next, Ramp!Command
    <3> QED
      BY <3>1, <3>3, StepOnRamp, ConfigStays DEF Ramp!Next
  <2>3. CASE AccelTimerExpired
    <3>1. target' = target /\ current' = StepCurrent(config, current, target)
      BY <2>3 DEF AccelTimerExpired, StepAndSend
    <3>2. CASE SignedSpeed(current')
                 = Ramp!Along(SignedSpeed(current), SignedSpeed(target'))
      <4>1. CASE SignedSpeed(current) = SignedSpeed(target)
        <5>1. SignedSpeed(current) \in Int /\ SignedSpeed(target) \in Int
          BY OnTheLine, CommandableFields DEF AccelTypeOK
        <5>2. SignedSpeed(current') = SignedSpeed(current)
          BY <3>1, <3>2, <4>1, <5>1, AlongTheLine
        <5> QED
          BY <2>1, <3>1, <5>2 DEF Ramp!vars
      <4>2. CASE SignedSpeed(current) # SignedSpeed(target)
        BY <2>1, <3>1, <3>2, <4>2 DEF Ramp!Next, Ramp!Move
      <4> QED
        BY <4>1, <4>2
    <3> QED
      BY <3>1, <3>2, StepOnRamp, ConfigStays DEF AccelTypeOK, Ramp!Next
  <2>4. CASE AccelReset
    <3>1. current' = DefaultVelocity /\ target' = DefaultVelocity
      BY <2>4 DEF AccelReset
    <3>2. SignedSpeed(current') = 0 /\ SignedSpeed(target') = 0
      BY <3>1 DEF SignedSpeed, Idx, DefaultVelocity, Stop
    <3> QED
      BY <2>1, <3>2 DEF Ramp!Next, Ramp!Halt
  <2>5. CASE TakeLevel \/ UNCHANGED accelVars
    BY <2>1, <2>5 DEF TakeLevel, accelVars, Ramp!vars, SignedSpeed
  <2> QED
    BY <2>2, <2>3, <2>4, <2>5 DEF AccelNext
<1> QED
  BY <1>1, <1>2, AccelTypeCorrect, PTL DEF AccelSteps

=============================================================================
