------------------------- MODULE MotorPipelineProofs -------------------------
(***************************************************************************)
(* The safety of the motor pipeline, for every set of operations, channel  *)
(* capacity, speed range, speed table and choice of CV3 and CV4.           *)
(***************************************************************************)
EXTENDS MotorPipeline, AccelHelperProofs

(* What every action of the pipeline does to the acceleration task: one of *)
(* its own steps or nothing.                                               *)
LEMMA AccelTaskSteps ==
    ASSUME [Next]_vars
    PROVE  [AccelNext]_accelVars
<1>1. ASSUME NEW op \in Ops, HandleOp(op) PROVE UNCHANGED accelVars
  BY <1>1 DEF HandleOp
<1>2. CASE DispatchNext \/ DispatchSend
  BY <1>2 DEF DispatchNext, DispatchSend
<1>3. CASE AccelCommand
  <2>1. PICK c \in Command : \/ c = Reset /\ AccelReset
                             \/ c \in Velocities /\ AccelSetVelocity(c.velocity)
    BY <1>3 DEF AccelCommand
  <2>2. CASE AccelReset
    BY <2>2 DEF AccelNext
  <2>3. CASE c \in Velocities /\ AccelSetVelocity(c.velocity)
    <3>1. PICK v \in Commandable : c = SetVelocity(v)
      BY <2>3 DEF Velocities
    <3>2. AccelSetVelocity(v)
      BY <2>3, <3>1 DEF SetVelocity
    <3> QED
      BY <3>2 DEF AccelNext
  <2> QED
    BY <2>1, <2>2, <2>3
<1>4. CASE AccelTimer
  BY <1>4 DEF AccelTimer, AccelNext
<1>5. CASE LevelArrives
  BY <1>5 DEF LevelArrives, AccelAside, TakeLevel, AccelNext
<1>6. CASE LevelApplied \/ PidTimerExpires \/ MeasurementDone
  BY <1>6 DEF LevelApplied, PidTimerExpires, MeasurementDone
<1>7. CASE MotorCommand \/ AcknowledgeDone
  BY <1>7 DEF MotorCommand, AcknowledgeDone
<1>8. CASE UNCHANGED vars
  BY <1>8 DEF vars
<1> QED
  BY <1>1, <1>2, <1>3, <1>4, <1>5, <1>6, <1>7, <1>8
     DEF Next, Tasks, AccelTask, MotorTask

(* A pipeline is a helper at work: what is proved of it carries over, under*)
(* bursts of operations and full channels, too.                            *)
LEMMA PipelineRunsHelper == Spec => AccelSteps
<1>1. Init => AccelInit
  BY DEF Init
<1> QED
  BY <1>1, AccelTaskSteps, PTL DEF Spec, AccelSteps

(* In the whole pipeline the timer runs exactly while the target is not    *)
(* reached, a reversal happens at standstill, and no step leaves the way to*)
(* the target, but for the stop that wraps (handler.rs:205-246).           *)
THEOREM PipelineRamps ==
    Spec => []TimerArmedIffRamping /\ TurnsOnlyAtStandstill /\ RampsTowardsTarget
BY PipelineRunsHelper, TimerRunsWhileRamping, TurnsAtStandstill, MovesTowardsTarget, PTL

-----------------------------------------------------------------------------
(* The types of the queues and of the motor task.                          *)
Send == [to : Task, command : Command]

QueueTypeOK ==
    /\ last_command \in Option(Ops)
    /\ MOTOR_CHANNEL \in Seq(Command)
    /\ dispatching \in Seq(Send)
    /\ channel \in [Task -> Seq(Command)]

MotorTypeOK ==
    /\ phase \in {"select", "settling", "measuring", "acknowledging"}
    /\ level \in Option(OutputLevel)
    /\ last_output_level \in OutputLevel
    /\ pid_timer \in BOOLEAN
    /\ pwm \in SUBSET Direction
    /\ dir \in Direction
    /\ ack_dir \in Direction

LEMMA TypeParts == TypeOK <=> AccelTypeOK /\ QueueTypeOK /\ MotorTypeOK
BY DEF TypeOK, QueueTypeOK, MotorTypeOK, Send

LEMMA HandleOpQueues ==
    ASSUME QueueTypeOK, NEW op \in Ops, HandleOp(op)
    PROVE  QueueTypeOK'
<1>1. last_command' \in Option(Ops)
  BY OptionSingleton DEF HandleOp
<1>2. CASE UNCHANGED MOTOR_CHANNEL
  BY <1>1, <1>2 DEF HandleOp, QueueTypeOK, dispatcherVars
<1>3. CASE op # SetFunctions /\ MOTOR_CHANNEL' = Append(MOTOR_CHANNEL, op)
  <2>1. op \in Command
    BY <1>3, PipelineAssumption DEF Command
  <2> QED
    BY <1>1, <1>3, <2>1 DEF HandleOp, QueueTypeOK, dispatcherVars
<1> QED
  BY <1>2, <1>3 DEF HandleOp

LEMMA RouteType ==
    ASSUME NEW c PROVE Route(c) \in Seq(Task)
BY DEF Route, Task

LEMMA DispatchNextQueues ==
    ASSUME QueueTypeOK, DispatchNext
    PROVE  QueueTypeOK'
<1> DEFINE c == Head(MOTOR_CHANNEL)
<1>1. c \in Command /\ Tail(MOTOR_CHANNEL) \in Seq(Command)
  BY DEF DispatchNext, QueueTypeOK
<1>2. dispatching' \in Seq(Send)
  <2>1. Len(Route(c)) \in Nat
    BY RouteType
  <2>2. \A i \in 1 .. Len(Route(c)) : Route(c)[i] \in Task
    BY RouteType
  <2> DEFINE n == Len(Route(c))
             sends == [i \in 1 .. n |-> [to |-> Route(c)[i], command |-> c]]
  <2>3. \A i \in 1 .. n : [to |-> Route(c)[i], command |-> c] \in Send
    BY <1>1, <2>2 DEF Send
  <2>4. sends \in [1 .. n -> Send]
    BY <2>3
  <2>5. dispatching' = sends
    BY DEF DispatchNext
  <2> HIDE DEF sends, n
  <2>6. sends \in Seq(Send)
    BY <2>1, <2>4 DEF n
  <2> QED
    BY <2>5, <2>6
<1> QED
  BY <1>1, <1>2 DEF DispatchNext, QueueTypeOK

LEMMA DispatchSendQueues ==
    ASSUME QueueTypeOK, DispatchSend
    PROVE  QueueTypeOK'
<1> DEFINE send == Head(dispatching)
<1>1. send \in Send /\ Tail(dispatching) \in Seq(Send)
  BY DEF DispatchSend, QueueTypeOK
<1>2. send.to \in Task /\ send.command \in Command
  BY <1>1 DEF Send
<1>3. Append(channel[send.to], send.command) \in Seq(Command)
  BY <1>2 DEF QueueTypeOK
<1>4. channel' = [channel EXCEPT ![send.to] = Append(@, send.command)]
  BY DEF DispatchSend
<1> HIDE DEF send
<1>5. channel' \in [Task -> Seq(Command)]
  BY <1>3, <1>4 DEF QueueTypeOK
<1> QED
  BY <1>1, <1>5 DEF DispatchSend, QueueTypeOK, handlerVars, send

LEMMA ReceivesType ==
    ASSUME QueueTypeOK, NEW t \in Task, NEW c, Receives(t, c)
    PROVE  channel' \in [Task -> Seq(Command)]
<1>1. Tail(channel[t]) \in Seq(Command)
  BY DEF Receives, QueueTypeOK
<1> QED
  BY <1>1 DEF Receives, QueueTypeOK

LEMMA QueueTypeStep ==
    ASSUME QueueTypeOK, [Next]_vars
    PROVE  QueueTypeOK'
<1>1. ASSUME NEW op \in Ops, HandleOp(op) PROVE QueueTypeOK'
  BY <1>1, HandleOpQueues
<1>2. CASE DispatchNext \/ DispatchSend
  BY <1>2, DispatchNextQueues, DispatchSendQueues
<1>3. CASE AccelCommand
  BY <1>3, ReceivesType DEF AccelCommand, QueueTypeOK, handlerVars, Task
<1>4. CASE MotorCommand
  BY <1>4, ReceivesType DEF MotorCommand, QueueTypeOK, handlerVars, Task
<1>5. CASE AccelTimer \/ LevelArrives \/ LevelApplied
  BY <1>5 DEF AccelTimer, LevelArrives, LevelApplied, QueueTypeOK,
              handlerVars, dispatcherVars
<1>6. CASE PidTimerExpires \/ MeasurementDone \/ AcknowledgeDone
  BY <1>6 DEF PidTimerExpires, MeasurementDone, AcknowledgeDone, QueueTypeOK,
              handlerVars, dispatcherVars
<1>7. CASE UNCHANGED vars
  BY <1>7 DEF vars, handlerVars, dispatcherVars, QueueTypeOK
<1> QED
  BY <1>1, <1>2, <1>3, <1>4, <1>5, <1>6, <1>7
     DEF Next, Tasks, AccelTask, MotorTask

-----------------------------------------------------------------------------
LEMMA SetOutputType ==
    ASSUME MotorTypeOK, NEW lvl \in OutputLevel, SetOutput(lvl)
    PROVE  /\ phase' \in {"select", "measuring"}
           /\ last_output_level' \in OutputLevel
           /\ pid_timer' \in BOOLEAN
           /\ pwm' \in SUBSET Direction
           /\ dir' \in Direction
           /\ ack_dir' \in Direction
BY DEF SetOutput, MotorTypeOK

LEMMA DriveType ==
    ASSUME MotorTypeOK, NEW on \in BOOLEAN, Drive(on)
    PROVE  dir' \in Direction /\ pwm' \in SUBSET Direction
<1>1. last_output_level.dir \in Direction
  BY DEF MotorTypeOK, OutputLevel
<1> QED
  BY <1>1 DEF Drive

LEMMA MeasurementDoneType ==
    ASSUME MotorTypeOK, MeasurementDone
    PROVE  MotorTypeOK'
<1>1. last_output_level.dir \in Direction
  BY DEF MotorTypeOK, OutputLevel
<1>2. dir' \in Direction /\ pwm' \in SUBSET Direction
  BY DriveType DEF MeasurementDone, MotorTypeOK
<1> QED
  BY <1>2 DEF MeasurementDone, MotorTypeOK

LEMMA MotorTypeStep ==
    ASSUME AccelTypeOK, MotorTypeOK, [Next]_vars
    PROVE  MotorTypeOK'
<1>1. CASE UNCHANGED motorVars
  BY <1>1 DEF motorVars, MotorTypeOK
<1>2. CASE LevelArrives
  BY <1>2 DEF LevelArrives, AccelTypeOK, MotorTypeOK
<1>3. CASE LevelApplied
  <2>1. PICK lvl \in level : SetOutput(lvl)
    BY <1>3 DEF LevelApplied
  <2>2. lvl \in OutputLevel
    BY <2>1 DEF MotorTypeOK, Option
  <2>3. level' \in Option(OutputLevel)
    BY <1>3 DEF LevelApplied, Option
  <2> QED
    BY <2>1, <2>2, <2>3, SetOutputType DEF MotorTypeOK
<1>4. CASE PidTimerExpires
  <2>1. last_output_level \in OutputLevel /\ level' \in Option(OutputLevel)
    BY <1>4 DEF PidTimerExpires, MotorTypeOK
  <2> QED
    BY <1>4, <2>1, SetOutputType DEF PidTimerExpires, MotorTypeOK
<1>5. CASE MeasurementDone
  BY <1>5, MeasurementDoneType
<1>6. CASE MotorCommand
  BY <1>6 DEF MotorCommand, StartAcknowledge, StopMotor, Opposite, Direction,
              MotorTypeOK
<1>7. CASE AcknowledgeDone
  BY <1>7 DEF AcknowledgeDone, MotorTypeOK
<1> QED
  BY <1>1, <1>2, <1>3, <1>4, <1>5, <1>6, <1>7
     DEF Next, Tasks, AccelTask, MotorTask, HandleOp, DispatchNext,
         DispatchSend, AccelCommand, AccelTimer, vars

LEMMA TypeInit == Init => TypeOK
<1> SUFFICES ASSUME Init PROVE TypeOK
  OBVIOUS
<1>1. AccelTypeOK
  BY AccelInitType DEF Init
<1>2. [dir |-> "Forward", setpoint |-> 0] \in OutputLevel
  BY StepAssumption, AccelAssumption DEF OutputLevel, Direction
<1>3. QueueTypeOK
  BY DEF Init, QueueTypeOK, Option
<1>4. MotorTypeOK
  BY <1>2 DEF Init, MotorTypeOK, Option, Direction
<1> QED
  BY <1>1, <1>3, <1>4, TypeParts

LEMMA TypeStep == TypeOK /\ [Next]_vars => TypeOK'
<1> SUFFICES ASSUME TypeOK, [Next]_vars PROVE TypeOK'
  OBVIOUS
<1>1. AccelTypeOK /\ QueueTypeOK /\ MotorTypeOK
  BY TypeParts
<1>2. AccelTypeOK'
  BY <1>1, AccelTaskSteps, AccelTypeStep
<1>3. QueueTypeOK'
  BY <1>1, QueueTypeStep
<1>4. MotorTypeOK'
  BY <1>1, MotorTypeStep
<1> QED
  BY <1>2, <1>3, <1>4 DEF TypeOK, QueueTypeOK, MotorTypeOK, Send

(* Every queue holds commands, every level is one of the speed table and   *)
(* the pins are always in one of their four states, whatever the tasks do. *)
THEOREM PipelineTypeCorrect == Spec => []TypeOK
BY TypeInit, TypeStep, PTL DEF Spec

-----------------------------------------------------------------------------
(* Every step leaves the pins alone, stops some of them or leaves exactly  *)
(* one of them driven.                                                     *)
LEMMA PinsStep ==
    ASSUME [Next]_vars, NoShootThrough, pwm \in SUBSET Direction
    PROVE  NoShootThrough'
<1>1. CASE pwm' \subseteq pwm
  BY <1>1 DEF NoShootThrough
<1>2. ASSUME NEW d, pwm' = {d} PROVE NoShootThrough'
  BY <1>2 DEF NoShootThrough, Direction
<1>3. CASE MeasurementDone
  BY <1>1, <1>2, <1>3 DEF MeasurementDone, Drive
<1>4. CASE MotorCommand
  BY <1>1, <1>2, <1>4 DEF MotorCommand, StartAcknowledge, StopMotor
<1>5. CASE LevelApplied \/ PidTimerExpires
  BY <1>1, <1>5 DEF LevelApplied, PidTimerExpires, SetOutput
<1>6. CASE AcknowledgeDone \/ LevelArrives
  BY <1>1, <1>6 DEF AcknowledgeDone, LevelArrives
<1>7. CASE UNCHANGED pwm
  BY <1>1, <1>7
<1> QED
  BY <1>3, <1>4, <1>5, <1>6, <1>7
     DEF Next, Tasks, AccelTask, MotorTask, HandleOp, DispatchNext,
         DispatchSend, AccelCommand, AccelTimer, vars, motorVars

(* The two sides of the H-bridge are never driven together                 *)
(* (motor/mod.rs:189-226), however the tasks interleave.                   *)
THEOREM BridgeIsSafe == Spec => []NoShootThrough
<1>1. Init => NoShootThrough
  BY DEF Init, NoShootThrough, Direction
<1>2. TypeOK /\ NoShootThrough /\ [Next]_vars => NoShootThrough'
  BY PinsStep DEF TypeOK
<1> QED
  BY <1>1, <1>2, PipelineTypeCorrect, PTL DEF Spec

-----------------------------------------------------------------------------
(* SupervisedOutput speaks of the select only. What makes it inductive is  *)
(* what holds at the other awaits: a measurement starts with both pins     *)
(* stopped and a level to correct, an acknowledgement leaves no pin but    *)
(* its own, and the 1 ms wait for a new level changes nothing.             *)
SupervisionInv ==
    /\ phase \in {"select", "settling"} /\ pwm # {} =>
           /\ pid_timer
           /\ last_output_level.setpoint # 0
           /\ pwm = {last_output_level.dir}
    /\ phase = "measuring" =>
           /\ pwm = {}
           /\ last_output_level.setpoint # 0
    /\ phase = "acknowledging" => pwm \subseteq {Opposite(ack_dir)}

LEMMA SetOutputSupervised ==
    ASSUME NEW lvl, SetOutput(lvl)
    PROVE  SupervisionInv'
BY DEF SetOutput, SupervisionInv

LEMMA SupervisionStep ==
    ASSUME TypeOK, SupervisionInv, [Next]_vars
    PROVE  SupervisionInv'
<1>1. CASE UNCHANGED motorVars
  BY <1>1 DEF motorVars, SupervisionInv, Opposite
<1>2. CASE LevelArrives
  BY <1>2 DEF LevelArrives, SupervisionInv
<1>3. CASE LevelApplied \/ PidTimerExpires
  BY <1>3, SetOutputSupervised DEF LevelApplied, PidTimerExpires
<1>4. CASE MeasurementDone
  BY <1>4 DEF MeasurementDone, Drive, SupervisionInv
<1>5. CASE MotorCommand
  <2>1. CASE StartAcknowledge
    <3>1. pwm' = {ack_dir} /\ ack_dir' = Opposite(ack_dir)
      BY <2>1 DEF StartAcknowledge
    <3>2. Opposite(ack_dir') = ack_dir
      BY <3>1 DEF Opposite, TypeOK, Direction
    <3> QED
      BY <2>1, <3>1, <3>2 DEF StartAcknowledge, SupervisionInv
  <2>2. CASE StopMotor
    BY <1>5, <2>2 DEF MotorCommand, StopMotor, SupervisionInv
  <2> QED
    BY <1>5, <2>1, <2>2 DEF MotorCommand
<1>6. CASE AcknowledgeDone
  BY <1>6 DEF AcknowledgeDone, SupervisionInv
<1> QED
  BY <1>1, <1>2, <1>3, <1>4, <1>5, <1>6
     DEF Next, Tasks, AccelTask, MotorTask, HandleOp, DispatchNext,
         DispatchSend, AccelCommand, AccelTimer, vars

(* No open-loop motor: whenever the motor task waits, a driven pin is the  *)
(* one of a non-zero level and the PID timer is armed, although            *)
(* AcknowledgeCv and Reset disarm that timer (handler.rs:169, 178).        *)
THEOREM OutputIsSupervised == Spec => []SupervisedOutput
<1>1. Init => SupervisionInv
  BY DEF Init, SupervisionInv
<1>2. TypeOK /\ SupervisionInv /\ [Next]_vars => SupervisionInv'
  BY SupervisionStep
<1>3. SupervisionInv => SupervisedOutput
  BY DEF SupervisionInv, SupervisedOutput
<1> QED
  BY <1>1, <1>2, <1>3, PipelineTypeCorrect, PTL DEF Spec

-----------------------------------------------------------------------------
(* SignalCoherent is inductive as it stands, given the types: the accel    *)
(* task sets both sides at once, the motor task only moves the newest      *)
(* level from the signal to level and on to last_output_level.             *)

LEMMA MaybeSendCoherent ==
    ASSUME SignalCoherent, NEW setpoint, MaybeSend(setpoint),
           UNCHANGED <<level, last_output_level>>
    PROVE  SignalCoherent'
<1>1. CASE UNCHANGED <<previous_setpoint, MOTOR_SPEED_CHANNEL>>
  BY <1>1 DEF SignalCoherent, NewestLevel, ToOutputLevel, Idx
<1>2. CASE /\ previous_setpoint' = {setpoint}
           /\ MOTOR_SPEED_CHANNEL' = {ToOutputLevel(setpoint)}
  <2>1. NewestLevel' = {ToOutputLevel(setpoint)}
    BY <1>2 DEF NewestLevel
  <2>2. {ToOutputLevel(v) : v \in previous_setpoint'} = {ToOutputLevel(setpoint)}
    BY <1>2
  <2>3. previous_setpoint' # {}
    BY <1>2
  <2> QED
    BY <2>1, <2>2, <2>3 DEF SignalCoherent, ToOutputLevel, Idx
<1> QED
  BY <1>1, <1>2 DEF MaybeSend

LEMMA AccelStepCoherent ==
    ASSUME SignalCoherent, AccelTask
    PROVE  SignalCoherent'
<1>1. UNCHANGED <<level, last_output_level>>
  BY DEF AccelTask, AccelCommand, AccelTimer, motorVars
<1>2. ASSUME NEW t, StepAndSend(t) PROVE SignalCoherent'
  BY <1>1, <1>2, MaybeSendCoherent DEF StepAndSend
<1>3. CASE AccelReset
  BY <1>1, <1>3 DEF AccelReset, SignalCoherent, NewestLevel, ToOutputLevel, Idx
<1> QED
  BY <1>2, <1>3
     DEF AccelTask, AccelCommand, AccelTimer, AccelSetVelocity, AccelTimerExpired

LEMMA CoherentStep ==
    ASSUME TypeOK, SignalCoherent, [Next]_vars
    PROVE  SignalCoherent'
<1>1. CASE UNCHANGED <<previous_setpoint, NewestLevel>>
  BY <1>1 DEF SignalCoherent, ToOutputLevel, Idx
<1>2. CASE AccelTask
  BY <1>2, AccelStepCoherent
<1>3. CASE LevelArrives
  BY <1>1, <1>3 DEF LevelArrives, AccelAside, NewestLevel
<1>4. CASE LevelApplied
  <2>1. PICK lvl \in level : last_output_level' = lvl
    BY <1>4 DEF LevelApplied, SetOutput
  <2>2. level = {lvl}
    BY <2>1 DEF TypeOK, Option
  <2> QED
    BY <1>1, <1>4, <2>1, <2>2 DEF LevelApplied, NewestLevel, accelVars
<1>5. CASE PidTimerExpires
  BY <1>1, <1>5 DEF PidTimerExpires, SetOutput, NewestLevel, accelVars
<1>6. CASE MeasurementDone \/ MotorCommand \/ AcknowledgeDone
  BY <1>1, <1>6 DEF MeasurementDone, MotorCommand, AcknowledgeDone, NewestLevel,
                    accelVars
<1>7. CASE UNCHANGED <<accelVars, motorVars>>
  BY <1>1, <1>7 DEF NewestLevel, accelVars, motorVars
<1> QED
  BY <1>2, <1>3, <1>4, <1>5, <1>6, <1>7
     DEF Next, Tasks, MotorTask, HandleOp, DispatchNext, DispatchSend, vars

(* The accel task's memory of what it signalled always is what the motor   *)
(* task has or gets next, so the signals it skips (handler.rs:214-219)     *)
(* never leave the motor task with an older level.                         *)
THEOREM SignalIsCoherent == Spec => []SignalCoherent
<1>1. Init => SignalCoherent
  BY DEF Init, AccelInit, SignalCoherent, NewestLevel
<1>2. TypeOK /\ SignalCoherent /\ [Next]_vars => SignalCoherent'
  BY CoherentStep
<1> QED
  BY <1>1, <1>2, PipelineTypeCorrect, PTL DEF Spec

-----------------------------------------------------------------------------
(* A level is taken and not yet applied only during the 1 ms wait for it.  *)
LevelTaken == phase = "settling" \/ level = {}

LEMMA LevelTakenStep ==
    ASSUME LevelTaken, [Next]_vars
    PROVE  LevelTaken'
BY DEF LevelTaken, Next, Tasks, AccelTask, MotorTask, HandleOp, DispatchNext,
       DispatchSend, AccelCommand, AccelTimer, LevelArrives, LevelApplied,
       PidTimerExpires, MeasurementDone, MotorCommand, AcknowledgeDone, vars,
       motorVars

-----------------------------------------------------------------------------
(* Queues: what is last stays last until it is the only one left.          *)

LastOf(s) == s[Len(s)]

LEMMA LastOfAppend ==
    ASSUME NEW S, NEW s \in Seq(S), NEW c \in S
    PROVE  Append(s, c) # <<>> /\ LastOf(Append(s, c)) = c
BY DEF LastOf

LEMMA LastOfTail ==
    ASSUME NEW S, NEW s \in Seq(S), s # <<>>
    PROVE  IF Tail(s) # <<>> THEN LastOf(Tail(s)) = LastOf(s) ELSE Head(s) = LastOf(s)
<1> DEFINE t == Tail(s)
<1>1. Len(s) \in Nat /\ Len(s) > 0 /\ t \in Seq(S) /\ Len(t) = Len(s) - 1
  OBVIOUS
<1>2. \A i \in 1 .. Len(t) : t[i] = s[i + 1]
  BY <1>1
<1>3. Head(s) = s[1]
  OBVIOUS
<1> HIDE DEF t
<1>4. CASE t # <<>>
  <2>1. Len(t) \in 1 .. Len(t)
    BY <1>1, <1>4
  <2> QED
    BY <1>1, <1>2, <1>4, <2>1 DEF LastOf, t
<1>5. CASE t = <<>>
  <2>1. Len(t) = 0
    BY <1>5
  <2>2. Len(s) = 1
    BY <1>1, <2>1
  <2> QED
    BY <1>3, <1>5, <2>2 DEF LastOf, t
<1> QED
  BY <1>4, <1>5

LEMMA VelocityCommands ==
    ASSUME NEW v \in Commandable
    PROVE  /\ SetVelocity(v) \in Velocities
           /\ SetVelocity(v) \notin {AcknowledgeCv, Reset, SetFunctions}
           /\ SetVelocity(v).velocity = v
           /\ \A w : SetVelocity(w) = SetVelocity(v) => w = v
BY DEF Velocities, SetVelocity, AcknowledgeCv, Reset, SetFunctions

(* Where a velocity is on its way to the accel task: last in the first     *)
(* queue that is not empty, and once it is taken it is the target, with the*)
(* timer running or the velocity signalled.                                *)
VelocityOnItsWay(v) ==
    IF MOTOR_CHANNEL # <<>> THEN LastOf(MOTOR_CHANNEL) = SetVelocity(v)
    ELSE IF dispatching # <<>>
    THEN dispatching = <<[to |-> "accel", command |-> SetVelocity(v)]>>
    ELSE IF channel["accel"] # <<>> THEN LastOf(channel["accel"]) = SetVelocity(v)
    ELSE target = v /\ (accel_timer \/ previous_setpoint = {v})

CommandInv ==
    \A v \in Commandable : last_command = {SetVelocity(v)} => VelocityOnItsWay(v)

(* The accel task runs its timer until it has signalled the target itself. *)
LEMMA StepAndSendReaches ==
    ASSUME NEW t, StepAndSend(t)
    PROVE  accel_timer' \/ previous_setpoint' = {t}
<1>1. CASE Equivalent(current', t)
  <2>1. StepSetpoint(current', t) = t
    BY <1>1 DEF StepSetpoint
  <2>2. MaybeSend(t)
    BY <2>1 DEF StepAndSend
  <2> QED
    BY <2>2 DEF MaybeSend
<1>2. CASE ~ Equivalent(current', t)
  BY <1>2 DEF StepAndSend, StepDelayFinite
<1> QED
  BY <1>1, <1>2

LEMMA CommandHandled ==
    ASSUME QueueTypeOK, CommandInv, NEW op \in Ops, HandleOp(op)
    PROVE  CommandInv'
<1> SUFFICES ASSUME NEW v \in Commandable, last_command' = {SetVelocity(v)}
             PROVE  VelocityOnItsWay(v)'
  BY DEF CommandInv
<1>1. op = SetVelocity(v)
  BY DEF HandleOp
<1>2. op \in Velocities /\ op # SetFunctions
  BY <1>1, VelocityCommands
<1>3. CASE last_command = {op}
  <2>1. UNCHANGED <<MOTOR_CHANNEL, accelVars, dispatcherVars>>
    BY <1>2, <1>3 DEF HandleOp
  <2>2. VelocityOnItsWay(v)
    BY <1>1, <1>3 DEF CommandInv
  <2> QED
    BY <2>1, <2>2
       DEF VelocityOnItsWay, accelVars, dispatcherVars, LastOf, SetVelocity
<1>4. CASE last_command # {op}
  <2>1. MOTOR_CHANNEL' = Append(MOTOR_CHANNEL, op)
    BY <1>2, <1>4 DEF HandleOp
  <2>2. MOTOR_CHANNEL \in Seq(Command) /\ op \in Command
    BY <1>2 DEF QueueTypeOK, Command, AllOps
  <2>3. MOTOR_CHANNEL' # <<>> /\ LastOf(MOTOR_CHANNEL') = op
    BY <2>1, <2>2, LastOfAppend
  <2> QED
    BY <1>1, <2>3 DEF VelocityOnItsWay, LastOf, SetVelocity
<1> QED
  BY <1>3, <1>4

LEMMA CommandDispatched ==
    ASSUME QueueTypeOK, NEW v \in Commandable, VelocityOnItsWay(v),
           DispatchNext \/ DispatchSend
    PROVE  VelocityOnItsWay(v)'
<1>1. CASE DispatchNext
  <2>1. MOTOR_CHANNEL \in Seq(Command) /\ MOTOR_CHANNEL # <<>>
    BY <1>1 DEF DispatchNext, QueueTypeOK
  <2>2. LastOf(MOTOR_CHANNEL) = SetVelocity(v) /\ MOTOR_CHANNEL' = Tail(MOTOR_CHANNEL)
    BY <1>1, <2>1 DEF VelocityOnItsWay, DispatchNext
  <2>3. CASE Tail(MOTOR_CHANNEL) # <<>>
    <3>1. LastOf(MOTOR_CHANNEL') = SetVelocity(v)
      BY <2>1, <2>2, <2>3, LastOfTail
    <3> QED
      BY <2>2, <2>3, <3>1 DEF VelocityOnItsWay, LastOf, SetVelocity
  <2>4. CASE Tail(MOTOR_CHANNEL) = <<>>
    <3>1. Head(MOTOR_CHANNEL) = SetVelocity(v)
      BY <2>1, <2>2, <2>4, LastOfTail
    <3>2. Route(SetVelocity(v)) = <<"accel">>
      BY VelocityCommands DEF Route
    <3> DEFINE send == [to |-> "accel", command |-> SetVelocity(v)]
    <3>3. dispatching' = [i \in 1 .. 1 |-> [to |-> <<"accel">>[i], command |-> SetVelocity(v)]]
      <4>1. Len(<<"accel">>) = 1
        OBVIOUS
      <4> QED
        BY <1>1, <3>1, <3>2, <4>1 DEF DispatchNext
    <3>4. \A i \in 1 .. 1 : <<"accel">>[i] = "accel"
      OBVIOUS
    <3>5. dispatching' = [i \in 1 .. 1 |-> send]
      BY <3>3, <3>4
    <3>6. dispatching' = <<send>>
      BY <3>5
    <3> QED
      BY <2>2, <2>4, <3>6 DEF VelocityOnItsWay, SetVelocity
  <2> QED
    BY <2>3, <2>4
<1>2. CASE DispatchSend
  <2>1. CASE MOTOR_CHANNEL # <<>>
    BY <1>2, <2>1 DEF DispatchSend, handlerVars, VelocityOnItsWay, LastOf, SetVelocity
  <2>2. CASE MOTOR_CHANNEL = <<>>
    <3>1. dispatching = <<[to |-> "accel", command |-> SetVelocity(v)]>>
      BY <1>2, <2>2 DEF DispatchSend, VelocityOnItsWay
    <3>2. MOTOR_CHANNEL' = <<>> /\ dispatching' = <<>>
      BY <1>2, <2>2, <3>1 DEF DispatchSend, handlerVars
    <3>3. channel["accel"] \in Seq(Command) /\ SetVelocity(v) \in Command
      BY VelocityCommands DEF QueueTypeOK, Task, Command, AllOps
    <3>4. channel'["accel"] = Append(channel["accel"], SetVelocity(v))
      BY <1>2, <3>1 DEF DispatchSend, QueueTypeOK, Task
    <3>5. channel'["accel"] # <<>> /\ LastOf(channel'["accel"]) = SetVelocity(v)
      BY <3>3, <3>4, LastOfAppend
    <3> QED
      BY <3>2, <3>5 DEF VelocityOnItsWay, LastOf, SetVelocity
  <2> QED
    BY <2>1, <2>2
<1> QED
  BY <1>1, <1>2

LEMMA CommandTaken ==
    ASSUME QueueTypeOK, NEW v \in Commandable, VelocityOnItsWay(v), AccelTask
    PROVE  VelocityOnItsWay(v)'
<1>1. UNCHANGED <<MOTOR_CHANNEL, dispatching>>
  BY DEF AccelTask, AccelCommand, AccelTimer, handlerVars, dispatcherVars
<1>2. CASE MOTOR_CHANNEL # <<>> \/ dispatching # <<>>
  BY <1>1, <1>2 DEF VelocityOnItsWay, LastOf, SetVelocity
<1>3. CASE MOTOR_CHANNEL = <<>> /\ dispatching = <<>> /\ AccelCommand
  <2>1. PICK c \in Command : /\ Receives("accel", c)
                             /\ \/ c = Reset /\ AccelReset
                                \/ c \in Velocities /\ AccelSetVelocity(c.velocity)
    BY <1>3 DEF AccelCommand
  <2>2. /\ channel["accel"] \in Seq(Command) /\ channel["accel"] # <<>>
        /\ c = Head(channel["accel"])
        /\ channel'["accel"] = Tail(channel["accel"])
    BY <2>1 DEF Receives, QueueTypeOK, Task
  <2>3. LastOf(channel["accel"]) = SetVelocity(v)
    BY <1>3, <2>2 DEF VelocityOnItsWay
  <2>4. CASE Tail(channel["accel"]) # <<>>
    <3>1. LastOf(channel'["accel"]) = SetVelocity(v)
      BY <2>2, <2>3, <2>4, LastOfTail
    <3> QED
      BY <1>1, <1>3, <2>2, <2>4, <3>1 DEF VelocityOnItsWay, LastOf, SetVelocity
  <2>5. CASE Tail(channel["accel"]) = <<>>
    <3>1. c = SetVelocity(v)
      BY <2>2, <2>3, <2>5, LastOfTail
    <3>2. AccelSetVelocity(v)
      BY <2>1, <3>1, VelocityCommands
    <3>3. target' = v /\ (accel_timer' \/ previous_setpoint' = {v})
      BY <3>2, StepAndSendReaches DEF AccelSetVelocity
    <3> QED
      BY <1>1, <1>3, <2>2, <2>5, <3>3 DEF VelocityOnItsWay
  <2> QED
    BY <2>4, <2>5
<1>4. CASE MOTOR_CHANNEL = <<>> /\ dispatching = <<>> /\ AccelTimer
  <2>1. /\ channel["accel"] = <<>> /\ UNCHANGED channel
        /\ AccelTimerExpired
    BY <1>4 DEF AccelTimer, dispatcherVars
  <2>2. target = v
    BY <1>4, <2>1 DEF VelocityOnItsWay
  <2>3. target' = v /\ (accel_timer' \/ previous_setpoint' = {v})
    BY <2>1, <2>2, StepAndSendReaches DEF AccelTimerExpired
  <2> QED
    BY <1>1, <1>4, <2>1, <2>3 DEF VelocityOnItsWay
<1> QED
  BY <1>2, <1>3, <1>4 DEF AccelTask

LEMMA MotorTaskAside ==
    ASSUME QueueTypeOK, MotorTask
    PROVE  /\ UNCHANGED <<last_command, MOTOR_CHANNEL, dispatching, channel["accel"]>>
           /\ UNCHANGED <<target, accel_timer, previous_setpoint>>
BY DEF MotorTask, LevelArrives, LevelApplied, PidTimerExpires, MeasurementDone,
       MotorCommand, AcknowledgeDone, AccelAside, accelVars, handlerVars,
       dispatcherVars, Receives, QueueTypeOK, Task

LEMMA CommandStep ==
    ASSUME QueueTypeOK, CommandInv, [Next]_vars
    PROVE  CommandInv'
<1>1. CASE \E op \in Ops : HandleOp(op)
  BY <1>1, CommandHandled
<1>2. ASSUME UNCHANGED last_command,
             \A v \in Commandable : VelocityOnItsWay(v) => VelocityOnItsWay(v)'
      PROVE  CommandInv'
  BY <1>2 DEF CommandInv, SetVelocity
<1>3. CASE DispatchNext \/ DispatchSend
  BY <1>2, <1>3, CommandDispatched DEF DispatchNext, DispatchSend, handlerVars
<1>4. CASE AccelTask
  BY <1>2, <1>4, CommandTaken DEF AccelTask, AccelCommand, AccelTimer, handlerVars
<1>5. CASE MotorTask
  BY <1>2, <1>5, MotorTaskAside DEF VelocityOnItsWay, LastOf, SetVelocity
<1>6. CASE UNCHANGED vars
  BY <1>2, <1>6
     DEF vars, accelVars, handlerVars, dispatcherVars, VelocityOnItsWay, LastOf,
         SetVelocity
<1> QED
  BY <1>1, <1>3, <1>4, <1>5, <1>6 DEF Next, Tasks

(* Once everything has settled, the motor task holds the level that was    *)
(* commanded last, whatever the filters on the way dropped (main.rs:171,   *)
(* handler.rs:215), for every capacity of the channels.                    *)
THEOREM CommandedLevelArrives == Spec => []CommandedLevelReachesMotor
<1>1. Init => CommandInv /\ LevelTaken /\ SignalCoherent
  BY DEF Init, AccelInit, CommandInv, LevelTaken, SignalCoherent, NewestLevel
<1>2. TypeOK /\ CommandInv /\ [Next]_vars => CommandInv'
  BY TypeParts, CommandStep
<1>3. CommandInv /\ LevelTaken /\ SignalCoherent => CommandedLevelReachesMotor
  <2> SUFFICES ASSUME CommandInv, LevelTaken, SignalCoherent,
                      NEW v \in Commandable, Quiescent, last_command = {SetVelocity(v)}
               PROVE  last_output_level = ToOutputLevel(v)
    BY DEF CommandedLevelReachesMotor
  <2>1. previous_setpoint = {v}
    BY DEF CommandInv, VelocityOnItsWay, Quiescent, Drained, Task
  <2>2. NewestLevel = {last_output_level}
    BY DEF Quiescent, Drained, LevelTaken, NewestLevel
  <2>3. {ToOutputLevel(w) : w \in previous_setpoint} = {ToOutputLevel(v)}
    BY <2>1
  <2> QED
    BY <2>1, <2>2, <2>3 DEF SignalCoherent
<1> QED
  BY <1>1, <1>2, <1>3, LevelTakenStep, SignalIsCoherent, PipelineTypeCorrect, PTL
     DEF Spec

-----------------------------------------------------------------------------
(* How far a Reset is, when operations are paced: in one queue, between    *)
(* its two sends, or at the two tasks.                                     *)

ResetSend(t) == [to |-> t, command |-> Reset]

ResetQueued ==
    /\ MOTOR_CHANNEL = <<Reset>> /\ dispatching = <<>>
    /\ channel["accel"] = <<>> /\ channel["motor"] = <<>>

ResetSends ==
    /\ MOTOR_CHANNEL = <<>>
    /\ dispatching = <<ResetSend("accel"), ResetSend("motor")>>
    /\ channel["accel"] = <<>> /\ channel["motor"] = <<>>

ResetHalfSent ==
    /\ MOTOR_CHANNEL = <<>> /\ dispatching = <<ResetSend("motor")>>
    /\ channel["accel"] \in {<<>>, <<Reset>>} /\ channel["motor"] = <<>>
    /\ channel["accel"] = <<>> => ~ accel_timer

ResetSent ==
    /\ MOTOR_CHANNEL = <<>> /\ dispatching = <<>>
    /\ channel["accel"] \in {<<>>, <<Reset>>}
    /\ channel["motor"] \in {<<>>, <<Reset>>}
    /\ channel["accel"] = <<>> => ~ accel_timer

(* Once the motor task has taken its Reset nothing can start the motor: no *)
(* level is signalled or taken, and the ramp timer of the accel task is not*)
(* served before the Reset in its channel.                                 *)
ResetInv ==
    last_command = {Reset} =>
        /\ ResetQueued \/ ResetSends \/ ResetHalfSent \/ ResetSent
        /\ ResetSent /\ channel["motor"] = <<>> =>
               /\ Stopped
               /\ phase = "select"
               /\ level = {}
               /\ MOTOR_SPEED_CHANNEL = {}

LEMMA Singletons ==
    ASSUME NEW c, NEW d
    PROVE  /\ <<c>> # <<>> /\ Tail(<<c>>) = <<>> /\ Head(<<c>>) = c
           /\ Append(<<>>, c) = <<c>>
           /\ <<c, d>> # <<>> /\ Tail(<<c, d>>) = <<d>> /\ Head(<<c, d>>) = c
           /\ <<c, d>> # <<d>>
OBVIOUS

LEMMA ResetHandled ==
    ASSUME Drained, NEW op \in Ops, HandleOp(op)
    PROVE  ResetInv'
<1> SUFFICES ASSUME last_command' = {Reset} PROVE ResetQueued'
  BY Singletons DEF ResetInv, ResetQueued, ResetSent, Reset
<1>1. op = Reset
  BY DEF HandleOp
<1>2. op # SetFunctions /\ op \notin Velocities
  BY <1>1 DEF Reset, SetFunctions, Velocities, SetVelocity
<1>3. MOTOR_CHANNEL' = <<Reset>>
  BY <1>1, <1>2, Singletons DEF HandleOp, Drained
<1>4. dispatching' = <<>> /\ channel'["accel"] = <<>> /\ channel'["motor"] = <<>>
  BY DEF HandleOp, dispatcherVars, Drained, Task
<1> QED
  BY <1>3, <1>4 DEF ResetQueued, Reset

LEMMA ResetRouted ==
    ASSUME last_command = {Reset}, ResetInv, DispatchNext
    PROVE  ResetSends'
<1>1. ResetQueued
  BY DEF ResetInv, ResetSends, ResetHalfSent, ResetSent, DispatchNext
<1>2. Head(MOTOR_CHANNEL) = Reset /\ Tail(MOTOR_CHANNEL) = <<>>
  BY <1>1, Singletons DEF ResetQueued
<1>3. Route(Reset) = <<"accel", "motor">>
  BY DEF Route, Reset, AcknowledgeCv
<1>4. dispatching' = [i \in 1 .. 2 |-> [to |-> <<"accel", "motor">>[i], command |-> Reset]]
  <2>1. Len(<<"accel", "motor">>) = 2
    OBVIOUS
  <2> QED
    BY <1>2, <1>3, <2>1 DEF DispatchNext
<1>5. dispatching' = [i \in 1 .. 2 |->
                          IF i = 1 THEN ResetSend("accel") ELSE ResetSend("motor")]
  <2>1. \A i \in 1 .. 2 : <<"accel", "motor">>[i] = IF i = 1 THEN "accel" ELSE "motor"
    OBVIOUS
  <2> QED
    BY <1>4, <2>1 DEF ResetSend
<1>6. dispatching' = <<ResetSend("accel"), ResetSend("motor")>>
  BY <1>5
<1>7. MOTOR_CHANNEL' = <<>> /\ UNCHANGED channel
  BY <1>2 DEF DispatchNext
<1> QED
  BY <1>1, <1>6, <1>7 DEF ResetSends, ResetQueued, ResetSend, Reset

LEMMA ResetDispatched ==
    ASSUME QueueTypeOK, last_command = {Reset}, ResetInv, DispatchSend
    PROVE  ResetHalfSent' \/ (ResetSent /\ channel["motor"] # <<>>)'
<1>1. ResetSends \/ ResetHalfSent
  BY DEF ResetInv, ResetQueued, ResetSent, DispatchSend
<1>2. UNCHANGED <<MOTOR_CHANNEL, accel_timer>>
  BY DEF DispatchSend, handlerVars, accelVars
<1>3. CASE ResetSends
  <2>1. Head(dispatching) = ResetSend("accel") /\ Tail(dispatching) = <<ResetSend("motor")>>
    BY <1>3, Singletons DEF ResetSends
  <2>2. /\ channel' = [channel EXCEPT !["accel"] = Append(@, Reset)]
        /\ dispatching' = <<ResetSend("motor")>>
    <3>1. ResetSend("accel").to = "accel" /\ ResetSend("accel").command = Reset
      BY DEF ResetSend
    <3> QED
      BY <2>1, <3>1 DEF DispatchSend
  <2>3. channel'["accel"] = <<Reset>> /\ channel'["motor"] = <<>>
    BY <1>3, <2>2, Singletons DEF ResetSends, QueueTypeOK, Task
  <2> QED
    BY <1>2, <1>3, <2>2, <2>3, Singletons
       DEF ResetSends, ResetHalfSent, ResetSend, Reset
<1>4. CASE ResetHalfSent
  <2>1. Head(dispatching) = ResetSend("motor") /\ Tail(dispatching) = <<>>
    BY <1>4, Singletons DEF ResetHalfSent
  <2>2. /\ channel' = [channel EXCEPT !["motor"] = Append(@, Reset)]
        /\ dispatching' = <<>>
    <3>1. ResetSend("motor").to = "motor" /\ ResetSend("motor").command = Reset
      BY DEF ResetSend
    <3> QED
      BY <2>1, <3>1 DEF DispatchSend
  <2>3. channel'["motor"] = <<Reset>> /\ channel'["accel"] = channel["accel"]
    BY <1>4, <2>2, Singletons DEF ResetHalfSent, QueueTypeOK, Task
  <2> QED
    BY <1>2, <1>4, <2>2, <2>3, Singletons
       DEF ResetHalfSent, ResetSent, ResetSend, Reset
<1> QED
  BY <1>1, <1>3, <1>4

(* The accel task resets, or its timer fires before the Reset has come.    *)
LEMMA ResetTakenByAccel ==
    ASSUME QueueTypeOK, last_command = {Reset}, ResetInv, AccelTask
    PROVE  ResetInv'
<1>1. /\ UNCHANGED <<last_command, MOTOR_CHANNEL, dispatching>>
      /\ UNCHANGED <<channel["motor"], phase, level, pwm, pid_timer>>
  BY DEF AccelTask, AccelCommand, AccelTimer, Receives, handlerVars, dispatcherVars,
         motorVars, QueueTypeOK, Task
<1>2. CASE AccelCommand
  <2>1. PICK c \in Command : /\ Receives("accel", c)
                             /\ \/ c = Reset /\ AccelReset
                                \/ c \in Velocities /\ AccelSetVelocity(c.velocity)
    BY <1>2 DEF AccelCommand
  <2>2. channel["accel"] = <<Reset>> /\ (ResetHalfSent \/ ResetSent)
    BY <2>1 DEF Receives, ResetInv, ResetQueued, ResetSends, ResetHalfSent, ResetSent
  <2>3. c = Reset /\ c \notin Velocities
    <3>1. c = Reset
      BY <2>1, <2>2, Singletons DEF Receives
    <3> QED
      BY <3>1, VelocityCommands DEF Velocities
  <2>4. ~ accel_timer' /\ UNCHANGED MOTOR_SPEED_CHANNEL
    BY <2>1, <2>3 DEF AccelReset
  <2>5. channel'["accel"] = <<>>
    BY <2>1, <2>2, Singletons DEF Receives, QueueTypeOK, Task
  <2> QED
    BY <1>1, <2>2, <2>4, <2>5
       DEF ResetInv, ResetHalfSent, ResetSent, ResetSend, Reset, Stopped
<1>3. CASE AccelTimer
  <2>1. channel["accel"] = <<>> /\ accel_timer /\ UNCHANGED channel
    BY <1>3 DEF AccelTimer, AccelTimerExpired, dispatcherVars
  <2>2. ResetQueued \/ ResetSends
    BY <2>1 DEF ResetInv, ResetHalfSent, ResetSent
  <2>3. (ResetQueued \/ ResetSends)'
    BY <1>1, <2>1, <2>2 DEF ResetQueued, ResetSends, ResetSend, Reset
  <2>4. ~ ResetSent'
    BY <2>3, Singletons DEF ResetQueued, ResetSends, ResetSent, ResetSend, Reset
  <2> QED
    BY <2>3, <2>4 DEF ResetInv
<1> QED
  BY <1>2, <1>3 DEF AccelTask

LEMMA ResetTakenByMotor ==
    ASSUME QueueTypeOK, LevelTaken, last_command = {Reset}, ResetInv, MotorTask
    PROVE  ResetInv'
<1>1. /\ UNCHANGED <<last_command, MOTOR_CHANNEL, dispatching, channel["accel"]>>
      /\ UNCHANGED accel_timer
  BY MotorTaskAside
<1>2. CASE MotorCommand
  <2>1. PICK c \in Command : /\ Receives("motor", c)
                             /\ \/ c = AcknowledgeCv /\ StartAcknowledge
                                \/ c = Reset /\ StopMotor
    BY <1>2 DEF MotorCommand
  <2>2. channel["motor"] = <<Reset>> /\ ResetSent
    BY <2>1 DEF Receives, ResetInv, ResetQueued, ResetSends, ResetHalfSent, ResetSent
  <2>3. c = Reset /\ c # AcknowledgeCv
    BY <2>1, <2>2, Singletons DEF Receives, Reset, AcknowledgeCv
  <2>4. channel'["motor"] = <<>>
    BY <2>1, <2>2, Singletons DEF Receives, QueueTypeOK, Task
  <2>5. Stopped' /\ phase' = "select" /\ level' = {} /\ MOTOR_SPEED_CHANNEL' = {}
    BY <1>2, <2>1, <2>3 DEF MotorCommand, StopMotor, Stopped, LevelTaken, accelVars
  <2> QED
    BY <1>1, <2>2, <2>4, <2>5 DEF ResetInv, ResetSent, Reset
<1>3. CASE ~ MotorCommand
  <2>1. UNCHANGED channel
    BY <1>3 DEF MotorTask, LevelArrives, LevelApplied, PidTimerExpires,
                MeasurementDone, AcknowledgeDone, dispatcherVars
  <2>2. ~ (ResetSent /\ channel["motor"] = <<>>)
    BY <1>3 DEF MotorTask, LevelArrives, LevelApplied, PidTimerExpires,
                MeasurementDone, AcknowledgeDone, ResetInv, Stopped
  <2> QED
    BY <1>1, <2>1, <2>2
       DEF ResetInv, ResetQueued, ResetSends, ResetHalfSent, ResetSent, ResetSend, Reset
<1> QED
  BY <1>2, <1>3

LEMMA ResetStep ==
    ASSUME QueueTypeOK, LevelTaken, ResetInv, [PacedNext]_vars
    PROVE  ResetInv'
<1>1. CASE \E op \in Ops : Drained /\ HandleOp(op)
  BY <1>1, ResetHandled
<1>2. CASE Tasks /\ last_command # {Reset}
  <2>1. UNCHANGED last_command
    BY <1>2, MotorTaskAside
       DEF Tasks, DispatchNext, DispatchSend, AccelTask, AccelCommand, AccelTimer,
           handlerVars
  <2> QED
    BY <1>2, <2>1 DEF ResetInv, Reset
<1>3. CASE DispatchNext /\ last_command = {Reset}
  <2>1. ResetSends'
    BY <1>3, ResetRouted
  <2> QED
    BY <2>1, Singletons DEF ResetInv, ResetSends, ResetSent
<1>4. CASE DispatchSend /\ last_command = {Reset}
  <2>1. ResetHalfSent' \/ (ResetSent /\ channel["motor"] # <<>>)'
    BY <1>4, ResetDispatched
  <2>2. ResetHalfSent' => ~ ResetSent'
    BY Singletons DEF ResetHalfSent, ResetSent
  <2> QED
    BY <2>1, <2>2 DEF ResetInv
<1>5. CASE (AccelTask \/ MotorTask) /\ last_command = {Reset}
  BY <1>5, ResetTakenByAccel, ResetTakenByMotor
<1>6. CASE UNCHANGED vars
  BY <1>6 DEF vars, accelVars, handlerVars, dispatcherVars, motorVars, ResetInv,
              ResetQueued, ResetSends, ResetHalfSent, ResetSent, ResetSend, Reset,
              Stopped
<1> QED
  BY <1>1, <1>2, <1>3, <1>4, <1>5, <1>6 DEF PacedNext, Tasks

LEMMA PacedStepIsStep == [PacedNext]_vars => [Next]_vars
BY DEF PacedNext, Next

LEMMA ResetInvStops == ResetInv => ResetStopsMotor
BY Singletons
   DEF ResetInv, ResetStopsMotor, Drained, Task, ResetQueued, ResetSends,
       ResetHalfSent, ResetSent

(* A Reset that is worked off leaves the motor off, its PID loop too and no*)
(* ramp that could start it again (handler.rs:60, 171, 226), for paced     *)
(* operations.                                                             *)
THEOREM ResetLeavesMotorStopped == PacedSpec => []ResetStopsMotor
<1>1. Init => TypeOK /\ LevelTaken /\ ResetInv
  BY TypeInit DEF Init, LevelTaken, ResetInv
<1>2. TypeOK /\ [PacedNext]_vars => TypeOK'
  BY TypeStep, PacedStepIsStep
<1>3. LevelTaken /\ [PacedNext]_vars => LevelTaken'
  BY LevelTakenStep, PacedStepIsStep
<1>4. TypeOK /\ LevelTaken /\ ResetInv /\ [PacedNext]_vars => ResetInv'
  BY TypeParts, ResetStep
<1> QED
  BY <1>1, <1>2, <1>3, <1>4, ResetInvStops, PTL DEF PacedSpec

=============================================================================
