-------------------------- MODULE LocomotiveProofs --------------------------
(***************************************************************************)
(* The locomotive: what the pipeline guarantees carries over, and the      *)
(* output pins follow the functions, for every content of the CVs and every*)
(* set of function groups.                                                 *)
(***************************************************************************)
EXTENDS Locomotive, MotorPipelineProofs

(* Seen without the function handler, the locomotive is the paced pipeline.*)
LEMMA LocoStepIsPaced == [LocoPacedNext]_locoVars => [PacedNext]_vars
BY DEF LocoPacedNext, HandleAll, LocoTasks, PacedNext, locoVars, vars

(* Every step is one of the function handler or leaves it alone.           *)
FunctionsStep ==
    \/ \E fg \in FunctionGroups : HandleGroup(fg)
    \/ \E d \in Direction : SetDirection(d)
    \/ UNCHANGED functionVars

LEMMA FunctionsSteps ==
    ASSUME [LocoPacedNext]_locoVars
    PROVE  FunctionsStep
<1>1. ASSUME NEW op \in Ops, HandleAll(op) PROVE FunctionsStep
  <2>1. FunctionPart(op)
    BY <1>1 DEF HandleAll
  <2>2. CASE op \in Velocities /\ SetDirection(op.velocity.direction)
    <3>1. PICK v \in Commandable : op = SetVelocity(v)
      BY <2>2 DEF Velocities
    <3>2. op.velocity.direction \in Direction
      BY <3>1 DEF SetVelocity, Commandable
    <3> QED
      BY <2>2, <3>2 DEF FunctionsStep
  <2> QED
    BY <2>1, <2>2 DEF FunctionPart, FunctionsStep
<1> QED
  BY <1>1 DEF LocoPacedNext, LocoTasks, locoVars, FunctionsStep

-----------------------------------------------------------------------------
LEMMA WordRange ==
    ASSUME NEW x \in Nat, x <= 65535
    PROVE  x \in Word
<1>1. U16_MAX \in Nat /\ x <= U16_MAX
  BY DEF U16_MAX
<1> QED
  BY <1>1 DEF Word

(* A level is a number of sixteen bits.                                    *)
LEMMA PwmLevelType ==
    ASSUME NEW pin \in Pins
    PROVE  PwmLevel(pin) \in Word
<1> DEFINE slice == (pin \div 2) % 8
           base  == PwmSliceBase(slice)
<1>1. slice \in 0 .. 7
  BY DEF Pins
<1>2. base \in 116 .. 165
  BY <1>1 DEF PwmSliceBase
<1> HIDE DEF slice, base
<1>3. \A cv \in 1 .. CV_SIZE : BootStore[cv] \in Nat /\ BootStore[cv] <= 255
  <2>1. BootStore \in [1 .. CV_SIZE -> Byte]
    BY FunctionsAssumption
  <2>2. \A b \in Byte : b \in Nat /\ b <= 255
    BY DEF Byte
  <2> QED
    BY <2>1, <2>2
<1>4. ASSUME NEW cv \in 1 .. CV_SIZE, cv + 1 \in 1 .. CV_SIZE
      PROVE  ReadU16(BootStore, cv) \in Nat /\ ReadU16(BootStore, cv) <= 65535
  BY <1>3, <1>4 DEF ReadU16
<1>5. /\ base + 3 \in 1 .. CV_SIZE /\ base + 4 \in 1 .. CV_SIZE
      /\ base + 5 \in 1 .. CV_SIZE /\ base + 6 \in 1 .. CV_SIZE
  BY <1>2 DEF CV_SIZE
<1>11. ReadU16(BootStore, base + 3) \in Nat /\ ReadU16(BootStore, base + 3) <= 65535
  BY <1>2, <1>4, <1>5
<1>12. ReadU16(BootStore, base + 5) \in Nat /\ ReadU16(BootStore, base + 5) <= 65535
  BY <1>2, <1>4, <1>5
<1> DEFINE c == [wrap    |-> ReadU16(BootStore, base),
                 divider |-> PwmDivider(BootStore[base + 2]),
                 level   |-> [a |-> ReadU16(BootStore, base + 3),
                              b |-> ReadU16(BootStore, base + 5)]]
<1>6. PwmConfiguration(BootStore, slice) = {c}
  BY <1>1 DEF PwmConfiguration, Some, base
<1>7. PwmConfig(pin) = CHOOSE x \in {c} : TRUE
  BY <1>6 DEF PwmConfig, Slice, slice
<1> HIDE DEF c
<1>8. PwmConfig(pin) = c
  BY <1>7
<1>9. /\ c.level["a"] \in Nat /\ c.level["a"] <= 65535
      /\ c.level["b"] \in Nat /\ c.level["b"] <= 65535
  BY <1>11, <1>12 DEF c
<1>10. PwmLevel(pin) \in Nat /\ PwmLevel(pin) <= 65535
  BY <1>8, <1>9 DEF PwmLevel
<1> QED
  BY <1>10, WordRange

LEMMA FunctionsTypeStep ==
    ASSUME FunctionsTypeOK, [LocoPacedNext]_locoVars
    PROVE  FunctionsTypeOK'
<1>0. 0 \in Word /\ 1 \in Word
  BY WordRange
<1>1. \A pin \in Pins : SetOn(pin) \in Word
  BY <1>0, PwmLevelType DEF SetOn, FunctionsTypeOK
<1>2. ASSUME NEW on, NEW d, UpdateOutputs(on, d)
      PROVE  outputs' \in [Pins -> Word]
  BY <1>0, <1>1, <1>2 DEF UpdateOutputs
<1>3. ASSUME NEW fg \in FunctionGroups, HandleGroup(fg) PROVE FunctionsTypeOK'
  <2>1. fg.flags \subseteq fg.group_mask /\ fg.group_mask \in GroupMasks
    BY FunctionsAssumption
  <2>2. fg.group_mask \subseteq FunctionIndex
    BY <2>1
       DEF GroupMasks, FunctionIndex, FG_1, FG_2_1, FG_2_0, FG_FEATURE_13_20,
           FG_FEATURE_21_28, FG_FEATURE_29_31
  <2>3. flags' \subseteq FunctionIndex
    BY <1>3, <2>1, <2>2 DEF HandleGroup, UnionWithMask, FunctionsTypeOK
  <2>4. CASE flags' # flags
    BY <1>2, <1>3, <2>3, <2>4 DEF HandleGroup, FunctionsTypeOK
  <2>5. CASE flags' = flags
    BY <1>3, <2>3, <2>5 DEF HandleGroup, FunctionsTypeOK
  <2> QED
    BY <2>4, <2>5
<1>4. ASSUME NEW d \in Direction, SetDirection(d) PROVE FunctionsTypeOK'
  <2>1. CASE d # direction
    BY <1>2, <1>4, <2>1 DEF SetDirection, FunctionsTypeOK
  <2>2. CASE d = direction
    BY <1>4, <2>2 DEF SetDirection, FunctionsTypeOK
  <2> QED
    BY <2>1, <2>2
<1> QED
  BY <1>3, <1>4, FunctionsSteps DEF FunctionsStep, functionVars, FunctionsTypeOK

(* The pipeline and the function handler keep their types when             *)
(* packet_handler drives both (main.rs:160-193).                           *)
THEOREM LocomotiveTypeCorrect == LocoPacedSpec => []LocoTypeOK
<1>1. LocoInit => TypeOK /\ FunctionsTypeOK
  <2>1. 0 \in Word
    BY WordRange
  <2> QED
    BY <2>1, TypeInit DEF LocoInit, FunctionsInit, FunctionsTypeOK, Direction
<1>2. TypeOK /\ [LocoPacedNext]_locoVars => TypeOK'
  BY TypeStep, LocoStepIsPaced, PacedStepIsStep
<1>3. FunctionsTypeOK /\ [LocoPacedNext]_locoVars => FunctionsTypeOK'
  BY FunctionsTypeStep
<1>4. TypeOK /\ FunctionsTypeOK => LocoTypeOK
  BY DEF LocoTypeOK
<1> QED
  BY <1>1, <1>2, <1>3, <1>4, PTL DEF LocoPacedSpec

-----------------------------------------------------------------------------
(* OutputsFollowFunctions, pin by pin.                                     *)
Called(pin, on, d) ==
    IF pin \in OutputMask(on, d) /\ (IsPwm(pin) => PwmLevel(pin) <= PwmConfig(pin).wrap)
    THEN IF IsPwm(pin) THEN PwmLevel(pin) ELSE 1
    ELSE 0

LEMMA OutputsAsCalled ==
    OutputsFollowFunctions <=> outputs = [pin \in Pins |-> Called(pin, flags, direction)]
BY DEF OutputsFollowFunctions, Called

(* A pin whose level is rejected was never driven: it keeps a 0.           *)
LEMMA UpdateFollows ==
    ASSUME OutputsFollowFunctions, NEW on, NEW d, UpdateOutputs(on, d)
    PROVE  outputs' = [pin \in Pins |-> Called(pin, on, d)]
<1>1. ASSUME NEW pin \in Pins, IsPwm(pin), ~ (PwmLevel(pin) <= PwmConfig(pin).wrap)
      PROVE  outputs[pin] = 0
  BY <1>1, OutputsAsCalled DEF Called
<1>2. \A pin \in Pins :
          (IF pin \in OutputMask(on, d) THEN SetOn(pin) ELSE 0) = Called(pin, on, d)
  BY <1>1 DEF SetOn, Called
<1> QED
  BY <1>2 DEF UpdateOutputs

LEMMA FollowsStep ==
    ASSUME OutputsFollowFunctions, [LocoPacedNext]_locoVars
    PROVE  OutputsFollowFunctions'
<1>1. ASSUME outputs' = [pin \in Pins |-> Called(pin, flags', direction')]
      PROVE  OutputsFollowFunctions'
  BY <1>1 DEF OutputsFollowFunctions, Called, OutputMask, PwmLevel, IsPwm, PwmConfig
<1>2. CASE UNCHANGED functionVars
  BY <1>1, <1>2, OutputsAsCalled DEF functionVars
<1>3. ASSUME UpdateOutputs(flags', direction') PROVE OutputsFollowFunctions'
  BY <1>1, <1>3, UpdateFollows
<1>4. ASSUME NEW fg \in FunctionGroups, HandleGroup(fg) PROVE OutputsFollowFunctions'
  BY <1>2, <1>3, <1>4 DEF HandleGroup, functionVars, UpdateOutputs
<1>5. ASSUME NEW d \in Direction, SetDirection(d) PROVE OutputsFollowFunctions'
  BY <1>2, <1>3, <1>5 DEF SetDirection, functionVars, UpdateOutputs
<1> QED
  BY <1>2, <1>4, <1>5, FunctionsSteps DEF FunctionsStep

(* Every pin is what the functions and the direction call for, for every   *)
(* map of functions to pins, duty cycles above the top included            *)
(* (functions/handler.rs:100, 106, 266).                                   *)
THEOREM PinsFollowFunctions == LocoPacedSpec => []OutputsFollowFunctions
<1>1. LocoInit => OutputsFollowFunctions
  BY DEF LocoInit, FunctionsInit, OutputsFollowFunctions, OutputMask
<1> QED
  BY <1>1, FollowsStep, PTL DEF LocoPacedSpec

-----------------------------------------------------------------------------
(* A Reset stops the motor of the locomotive, too (handler.rs:60).         *)
THEOREM ResetStopsLocomotive == LocoPacedSpec => []ResetStopsMotor
<1>1. LocoInit => TypeOK /\ LevelTaken /\ ResetInv
  BY TypeInit DEF LocoInit, Init, LevelTaken, ResetInv
<1>2. TypeOK /\ [LocoPacedNext]_locoVars => TypeOK'
  BY TypeStep, LocoStepIsPaced, PacedStepIsStep
<1>3. LevelTaken /\ [LocoPacedNext]_locoVars => LevelTaken'
  BY LevelTakenStep, LocoStepIsPaced, PacedStepIsStep
<1>4. TypeOK /\ LevelTaken /\ ResetInv /\ [LocoPacedNext]_locoVars => ResetInv'
  BY TypeParts, ResetStep, LocoStepIsPaced
<1> QED
  BY <1>1, <1>2, <1>3, <1>4, ResetInvStops, PTL DEF LocoPacedSpec

-----------------------------------------------------------------------------
(* What is proved of the helper carries over as it does to the pipeline.   *)
LEMMA LocomotiveRunsHelper == LocoPacedSpec => AccelSteps
<1>1. LocoInit => AccelInit
  BY DEF LocoInit, Init
<1>2. [LocoPacedNext]_locoVars => [AccelNext]_accelVars
  BY LocoStepIsPaced, PacedStepIsStep, AccelTaskSteps
<1> QED
  BY <1>1, <1>2, PTL DEF LocoPacedSpec, AccelSteps

(* The helper in its locomotive: its timer runs exactly while the target is*)
(* not reached, it reverses at standstill, it stays on the way to its      *)
(* target, and it is the abstract ramp at the pace of CV3 and CV4          *)
(* (handler.rs:205-246, accel.rs:49-97).                                   *)
THEOREM LocomotiveRamps ==
    LocoPacedSpec => /\ []TimerArmedIffRamping
                     /\ TurnsOnlyAtStandstill
                     /\ RampsTowardsTarget
                     /\ Ramp!Init /\ [][Ramp!Next]_(Ramp!vars)
BY LocomotiveRunsHelper, TimerRunsWhileRamping, TurnsAtStandstill, MovesTowardsTarget,
   ImplementsRamp, PTL

-----------------------------------------------------------------------------
(* LightsFaceTravel. A command that the accel task has still to receive:   *)
Occurs(c, s) == \E i \in 1 .. Len(s) : s[i] = c

InTransit(c) ==
    \/ Occurs(c, MOTOR_CHANNEL)
    \/ Occurs([to |-> "accel", command |-> c], dispatching)
    \/ Occurs(c, channel["accel"])

(* The motor is off and nothing but a velocity can start it.               *)
Off ==
    /\ ~ pid_timer /\ ~ accel_timer
    /\ MOTOR_SPEED_CHANNEL = {} /\ level = {}
    /\ phase \in {"select", "acknowledging"}

(* The helper is on its way to a velocity that faces as the lights do, and *)
(* has signalled one that faces as it does itself.                         *)
Engaged ==
    /\ target.direction = direction
    /\ \E w \in previous_setpoint : w.direction = current.direction

(* Every velocity in transit faces as the lights do; without one the helper*)
(* is engaged or the motor is off. A Reset takes the helper out of this    *)
(* until it is worked off: it turns the helper to forward, not the lights. *)
Facing ==
    /\ ~ InTransit(Reset)
    /\ \A v \in Commandable : InTransit(SetVelocity(v)) => v.direction = direction
    /\ \/ \E v \in Commandable : InTransit(SetVelocity(v))
       \/ Engaged
       \/ Off

FacingInv == last_command = {Reset} \/ Facing

LEMMA OccursTail ==
    ASSUME NEW S, NEW s \in Seq(S), s # <<>>, NEW c
    PROVE  Occurs(c, s) <=> c = Head(s) \/ Occurs(c, Tail(s))
<1>1. /\ Len(s) \in Nat /\ Len(s) > 0 /\ Len(Tail(s)) = Len(s) - 1 /\ s[1] = Head(s)
      /\ \A i \in 1 .. Len(Tail(s)) : Tail(s)[i] = s[i + 1]
  OBVIOUS
<1>2. \A i \in 1 .. Len(s) :
         i = 1 \/ (i - 1 \in 1 .. Len(Tail(s)) /\ Tail(s)[i - 1] = s[i])
  BY <1>1
<1>3. Occurs(c, s) => c = Head(s) \/ Occurs(c, Tail(s))
  BY <1>1, <1>2 DEF Occurs
<1>4. c = Head(s) => Occurs(c, s)
  BY <1>1 DEF Occurs
<1>5. \A i \in 1 .. Len(Tail(s)) : i + 1 \in 1 .. Len(s) /\ Tail(s)[i] = s[i + 1]
  BY <1>1
<1>6. Occurs(c, Tail(s)) => Occurs(c, s)
  BY <1>5 DEF Occurs
<1> QED
  BY <1>3, <1>4, <1>6

LEMMA OccursAppend ==
    ASSUME NEW S, NEW s \in Seq(S), NEW d \in S, NEW c
    PROVE  Occurs(c, Append(s, d)) <=> c = d \/ Occurs(c, s)
<1>1. /\ Len(s) \in Nat /\ Len(Append(s, d)) = Len(s) + 1
      /\ Append(s, d)[Len(s) + 1] = d
      /\ \A i \in 1 .. Len(s) : Append(s, d)[i] = s[i]
  OBVIOUS
<1> QED
  BY <1>1 DEF Occurs

LEMMA OccursNowhere ==
    ASSUME NEW c, NEW d
    PROVE  ~ Occurs(c, <<>>) /\ (Occurs(c, <<d>>) <=> c = d)
BY DEF Occurs

LEMMA HandledFaces ==
    ASSUME QueueTypeOK, LevelTaken, ResetInv, FacingInv,
           NEW op \in Ops, Drained, HandleAll(op)
    PROVE  FacingInv'
<1>1. /\ MOTOR_CHANNEL = <<>> /\ dispatching = <<>> /\ channel["accel"] = <<>>
      /\ phase = "select" /\ MOTOR_SPEED_CHANNEL = {} /\ level = {}
  BY DEF Drained, Task, LevelTaken
<1>2. Engaged \/ Off
  <2>1. CASE last_command = {Reset}
    BY <1>1, <2>1, Singletons
       DEF ResetInv, Drained, Task, ResetQueued, ResetSends, ResetHalfSent, ResetSent,
           Stopped, Off
  <2>2. CASE Facing
    BY <1>1, <2>2, OccursNowhere DEF Facing, InTransit
  <2> QED
    BY <2>1, <2>2 DEF FacingInv
<1>3. /\ UNCHANGED <<accelVars, dispatcherVars, motorVars>>
      /\ last_command' = {op} /\ FunctionPart(op)
      /\ MOTOR_CHANNEL' = <<>> \/ MOTOR_CHANNEL' = <<op>>
  BY <1>1, Singletons DEF HandleAll, HandleOp
<1>4. \A c : InTransit(c)' => c = op
  <2>1. UNCHANGED <<dispatching, channel>>
    BY <1>3 DEF dispatcherVars
  <2>2. \A c : ~ Occurs([to |-> "accel", command |-> c], dispatching)
                /\ ~ Occurs(c, channel["accel"])
    BY <1>1, OccursNowhere DEF InTransit
  <2>3. \A c : Occurs(c, MOTOR_CHANNEL') => c = op
    <3>1. CASE MOTOR_CHANNEL' = <<>>
      BY <3>1, OccursNowhere, Zenon
    <3>2. CASE MOTOR_CHANNEL' = <<op>>
      BY <3>2, OccursNowhere, Zenon
    <3> QED
      BY <1>3, <3>1, <3>2
  <2> QED
    BY <2>1, <2>2, <2>3 DEF InTransit
<1>5. CASE op = Reset
  BY <1>3, <1>5 DEF FacingInv, Reset
<1>6. ASSUME op # Reset, UNCHANGED direction, op \notin Velocities
      PROVE  FacingInv'
  <2>1. (Engaged \/ Off)'
    BY <1>2, <1>3, <1>6 DEF Engaged, Off, accelVars, motorVars
  <2>2. \A v \in Commandable : ~ InTransit(SetVelocity(v))'
    BY <1>4, <1>6 DEF Velocities
  <2>3. ~ InTransit(Reset)'
    BY <1>4, <1>6
  <2> QED
    BY <2>1, <2>2, <2>3 DEF FacingInv, Facing, SetVelocity, Reset
<1>7. CASE op \in Velocities
  <2>1. PICK v \in Commandable : op = SetVelocity(v)
    BY <1>7 DEF Velocities
  <2>2. /\ op \notin {AcknowledgeCv, Reset, SetFunctions} /\ op.velocity = v
        /\ \A w : SetVelocity(w) = op => w = v
    BY <2>1, VelocityCommands
  <2>3. ~ InTransit(Reset)'
    BY <1>4, <2>2
  <2>4. CASE last_command = {op}
    <3>1. UNCHANGED <<direction, MOTOR_CHANNEL>>
      BY <1>3, <1>7, <2>2, <2>4
         DEF FunctionPart, PassesOn, functionVars, HandleAll, HandleOp
    <3>2. \A w \in Commandable : ~ InTransit(SetVelocity(w))'
      BY <1>1, <1>3, <3>1, OccursNowhere DEF InTransit, dispatcherVars
    <3>3. (Engaged \/ Off)'
      BY <1>2, <1>3, <3>1 DEF Engaged, Off, accelVars, motorVars
    <3> QED
      BY <2>3, <3>2, <3>3 DEF FacingInv, Facing, SetVelocity, Reset
  <2>5. CASE last_command # {op}
    <3>1. direction' = v.direction
      BY <1>3, <1>7, <2>2, <2>5 DEF FunctionPart, PassesOn, SetDirection
    <3>2. MOTOR_CHANNEL' = <<op>>
      BY <1>1, <2>2, <2>5, Singletons DEF HandleAll, HandleOp
    <3>3. InTransit(SetVelocity(v))'
      BY <2>1, <3>2, OccursNowhere DEF InTransit
    <3>4. \A w \in Commandable : InTransit(SetVelocity(w))' => w.direction = direction'
      BY <1>4, <2>2, <3>1
    <3> QED
      BY <2>3, <3>3, <3>4 DEF FacingInv, Facing, SetVelocity, Reset
  <2> QED
    BY <2>4, <2>5
<1> QED
  BY <1>3, <1>5, <1>6, <1>7 DEF FunctionPart, functionVars, HandleGroup

(* The dispatcher moves what is in transit and adds nothing to it.         *)
(* The dispatcher moves what is in transit and adds nothing to it.         *)
LEMMA DispatchKeepsTransit ==
    ASSUME QueueTypeOK, DispatchNext \/ DispatchSend
    PROVE  /\ \A c : InTransit(c)' => InTransit(c)
           /\ \A v \in Commandable :
                  InTransit(SetVelocity(v)) => InTransit(SetVelocity(v))'
<1>1. CASE DispatchNext
  <2> DEFINE h == Head(MOTOR_CHANNEL)
             n == Len(Route(h))
  <2>1. /\ dispatching = <<>> /\ UNCHANGED channel
        /\ MOTOR_CHANNEL \in Seq(Command) /\ MOTOR_CHANNEL # <<>>
        /\ MOTOR_CHANNEL' = Tail(MOTOR_CHANNEL)
        /\ dispatching' = [i \in 1 .. n |-> [to |-> Route(h)[i], command |-> h]]
    BY <1>1 DEF DispatchNext, QueueTypeOK
  <2>2. \A c : Occurs(c, MOTOR_CHANNEL) <=> c = h \/ Occurs(c, MOTOR_CHANNEL')
    BY <2>1, OccursTail
  <2>3. n \in Nat /\ Len(dispatching') = n
    BY <2>1, RouteType
  <2>4. \A i \in 1 .. n : dispatching'[i] = [to |-> Route(h)[i], command |-> h]
    BY <2>1
  <2> HIDE DEF h, n
  <2>5. \A c : Occurs([to |-> "accel", command |-> c], dispatching') => c = h
    BY <2>3, <2>4 DEF Occurs
  <2>6. ASSUME NEW v \in Commandable, h = SetVelocity(v)
        PROVE  Occurs([to |-> "accel", command |-> h], dispatching')
    <3>1. Route(h) = <<"accel">>
      BY <2>6, VelocityCommands DEF Route
    <3>2. n = 1 /\ Route(h)[1] = "accel"
      BY <3>1 DEF n
    <3> QED
      BY <2>3, <2>4, <3>2 DEF Occurs
  <2> QED
    BY <2>1, <2>2, <2>5, <2>6, OccursNowhere DEF InTransit
<1>2. CASE DispatchSend
  <2> DEFINE send == Head(dispatching)
  <2>1. /\ dispatching \in Seq(Send) /\ dispatching # <<>>
        /\ UNCHANGED MOTOR_CHANNEL
        /\ dispatching' = Tail(dispatching)
        /\ channel \in [Task -> Seq(Command)]
        /\ channel' = [channel EXCEPT ![send.to] = Append(@, send.command)]
    BY <1>2 DEF DispatchSend, QueueTypeOK, handlerVars
  <2>2. send \in Send
    BY <2>1
  <2>3. \A c : Occurs(c, dispatching) <=> c = send \/ Occurs(c, dispatching')
    BY <2>1, OccursTail
  <2> HIDE DEF send
  <2>4. /\ send.to \in Task /\ send.command \in Command
        /\ \A c : send = [to |-> "accel", command |-> c]
                  <=> send.to = "accel" /\ send.command = c
    BY <2>2 DEF Send
  <2>5. CASE send.to = "accel"
    <3>1. /\ channel["accel"] \in Seq(Command)
          /\ channel'["accel"] = Append(channel["accel"], send.command)
      BY <2>1, <2>5 DEF Task
    <3>2. \A c : Occurs(c, channel'["accel"])
                <=> c = send.command \/ Occurs(c, channel["accel"])
      BY <2>4, <3>1, OccursAppend
    <3> QED
      BY <2>1, <2>3, <2>4, <2>5, <3>2 DEF InTransit
  <2>6. CASE send.to # "accel"
    <3>1. channel'["accel"] = channel["accel"]
      BY <2>1, <2>4, <2>6 DEF Task
    <3> QED
      BY <2>1, <2>3, <2>4, <2>6, <3>1 DEF InTransit
  <2> QED
    BY <2>5, <2>6
<1> QED
  BY <1>1, <1>2

(* A step of the helper signals a velocity that faces as the helper does.  *)
LEMMA StepEngages ==
    ASSUME NEW t, t.direction = direction, target' = t, StepAndSend(t), UNCHANGED direction
    PROVE  Engaged'
<1>1. StepSetpoint(current', t).direction = current'.direction
  BY DEF StepSetpoint, Equivalent
<1>2. previous_setpoint' = {StepSetpoint(current', t)}
  BY DEF StepAndSend, MaybeSend
<1> QED
  BY <1>1, <1>2 DEF Engaged

LEMMA AccelFaces ==
    ASSUME QueueTypeOK, Facing, AccelTask, UNCHANGED direction
    PROVE  Facing'
<1>1. UNCHANGED <<last_command, MOTOR_CHANNEL, dispatching, pid_timer, level, phase>>
  BY DEF AccelTask, AccelCommand, AccelTimer, handlerVars, dispatcherVars, motorVars
<1>2. CASE AccelCommand
  <2>1. PICK c \in Command : /\ Receives("accel", c)
                             /\ \/ c = Reset /\ AccelReset
                                \/ c \in Velocities /\ AccelSetVelocity(c.velocity)
    BY <1>2 DEF AccelCommand
  <2>2. /\ channel["accel"] \in Seq(Command) /\ channel["accel"] # <<>>
        /\ c = Head(channel["accel"]) /\ channel'["accel"] = Tail(channel["accel"])
    BY <2>1 DEF Receives, QueueTypeOK, Task
  <2>3. \A d : Occurs(d, channel["accel"]) <=> d = c \/ Occurs(d, channel'["accel"])
    BY <2>2, OccursTail
  <2>4. InTransit(c) /\ \A d : InTransit(d)' => InTransit(d)
    BY <1>1, <2>3 DEF InTransit
  <2>5. PICK v \in Commandable : c = SetVelocity(v)
    BY <2>1, <2>4 DEF Facing, Velocities
  <2>6. AccelSetVelocity(v) /\ v.direction = direction
    BY <2>1, <2>4, <2>5, VelocityCommands DEF Facing
  <2>7. Engaged'
    BY <2>6, StepEngages DEF AccelSetVelocity
  <2> QED
    BY <2>4, <2>7 DEF Facing, SetVelocity, Reset
<1>3. CASE AccelTimer
  <2>1. AccelTimerExpired /\ UNCHANGED channel
    BY <1>3 DEF AccelTimer, dispatcherVars
  <2>2. \A c : InTransit(c)' <=> InTransit(c)
    BY <1>1, <2>1 DEF InTransit
  <2>3. Engaged => Engaged'
    BY <2>1, StepEngages DEF Engaged, AccelTimerExpired
  <2>4. ~ Off
    BY <2>1 DEF Off, AccelTimerExpired
  <2> QED
    BY <2>2, <2>3, <2>4 DEF Facing, SetVelocity, Reset
<1> QED
  BY <1>2, <1>3 DEF AccelTask

LEMMA MotorFaces ==
    ASSUME QueueTypeOK, Facing, MotorTask, UNCHANGED direction
    PROVE  Facing'
<1>1. /\ UNCHANGED <<MOTOR_CHANNEL, dispatching, channel["accel"]>>
      /\ UNCHANGED <<target, accel_timer, previous_setpoint, current>>
  BY MotorTaskAside
     DEF MotorTask, LevelArrives, LevelApplied, PidTimerExpires, MeasurementDone,
         MotorCommand, AcknowledgeDone, AccelAside, accelVars
<1>2. \A c : InTransit(c)' <=> InTransit(c)
  BY <1>1 DEF InTransit
<1>3. Engaged => Engaged'
  BY <1>1 DEF Engaged
<1>4. Off => Off'
  BY DEF Off, MotorTask, LevelArrives, LevelApplied, PidTimerExpires, MeasurementDone,
         MotorCommand, StartAcknowledge, StopMotor, AcknowledgeDone, accelVars
<1> QED
  BY <1>2, <1>3, <1>4 DEF Facing, SetVelocity, Reset

LEMMA FacingStep ==
    ASSUME QueueTypeOK, LevelTaken, ResetInv, FacingInv, [LocoPacedNext]_locoVars
    PROVE  FacingInv'
<1>1. CASE \E op \in Ops : Drained /\ HandleAll(op)
  BY <1>1, HandledFaces
<1>2. CASE LocoTasks
  <2>1. UNCHANGED <<direction, last_command>>
    BY <1>2, MotorTaskAside
       DEF LocoTasks, functionVars, Tasks, DispatchNext, DispatchSend, AccelTask,
           AccelCommand, AccelTimer, handlerVars
  <2>2. CASE last_command = {Reset}
    BY <2>1, <2>2 DEF FacingInv, Reset
  <2>3. ASSUME Facing PROVE Facing'
    <3>1. CASE DispatchNext \/ DispatchSend
      <4>1. UNCHANGED <<accelVars, motorVars>>
        BY <3>1 DEF DispatchNext, DispatchSend
      <4>2. (Engaged => Engaged') /\ (Off => Off')
        BY <2>1, <4>1 DEF Engaged, Off, accelVars, motorVars
      <4> QED
        BY <2>1, <2>3, <3>1, <4>2, DispatchKeepsTransit DEF Facing, SetVelocity, Reset
    <3> QED
      BY <1>2, <2>1, <2>3, <3>1, AccelFaces, MotorFaces DEF LocoTasks, Tasks
  <2> QED
    BY <2>2, <2>3 DEF FacingInv
<1>3. CASE UNCHANGED locoVars
  BY <1>3
     DEF locoVars, vars, accelVars, handlerVars, dispatcherVars, motorVars,
         functionVars, FacingInv, Facing, InTransit, Engaged, Off, SetVelocity, Reset
<1> QED
  BY <1>1, <1>2, <1>3 DEF LocoPacedNext

(* Once everything has settled and the PID loop runs, the lights and the   *)
(* motor agree on the direction, although a Reset turns the helper to      *)
(* forward and leaves the lights (main.rs:169), and the two follow         *)
(* different filters (main.rs:171, handler.rs:215).                        *)
THEOREM LightsFollowMotor == LocoPacedSpec => []LightsFaceTravel
<1> DEFINE Inv == TypeOK /\ LevelTaken /\ ResetInv /\ SignalCoherent /\ FacingInv
<1>1. LocoInit => Inv
  <2> SUFFICES ASSUME LocoInit PROVE Inv
    OBVIOUS
  <2>1. Init
    BY DEF LocoInit
  <2>2. TypeOK /\ LevelTaken /\ ResetInv /\ SignalCoherent
    BY <2>1, TypeInit
       DEF Init, AccelInit, LevelTaken, ResetInv, SignalCoherent, NewestLevel
  <2>3. Off /\ \A c : ~ InTransit(c)
    BY <2>1, OccursNowhere DEF Init, AccelInit, Off, InTransit, Task
  <2> QED
    BY <2>2, <2>3 DEF FacingInv, Facing
<1>2. Inv /\ [LocoPacedNext]_locoVars => Inv'
  BY TypeStep, TypeParts, LevelTakenStep, ResetStep, CoherentStep, FacingStep,
     LocoStepIsPaced, PacedStepIsStep
<1>3. Inv /\ TimerArmedIffRamping => LightsFaceTravel
  <2> SUFFICES ASSUME Inv, TimerArmedIffRamping, Quiescent, pid_timer
               PROVE  direction = last_output_level.dir
    BY DEF LightsFaceTravel
  <2>1. last_command # {Reset}
    BY ResetInvStops DEF ResetStopsMotor, Quiescent, Stopped
  <2>2. \A c : ~ InTransit(c)
    BY OccursNowhere DEF InTransit, Quiescent, Drained, Task
  <2>3. Engaged
    BY <2>1, <2>2 DEF FacingInv, Facing, Off
  <2>4. current.direction = direction
    BY <2>3 DEF Engaged, Quiescent, TimerArmedIffRamping, Equivalent
  <2>5. PICK w \in VelocitySetpoint :
                previous_setpoint = {w} /\ w.direction = current.direction
    BY <2>3 DEF Engaged, TypeOK, AccelTypeOK, Option
  <2>6. {ToOutputLevel(v) : v \in previous_setpoint} = {ToOutputLevel(w)}
    BY <2>5
  <2>7. {last_output_level} = {ToOutputLevel(w)}
    BY <2>5, <2>6 DEF SignalCoherent, NewestLevel, LevelTaken, Quiescent, Drained
  <2> QED
    BY <2>4, <2>5, <2>7 DEF ToOutputLevel
<1> QED
  BY <1>1, <1>2, <1>3, LocomotiveRamps, PTL DEF LocoPacedSpec

=============================================================================
