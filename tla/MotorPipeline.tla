--------------------------- MODULE MotorPipeline ---------------------------
(***************************************************************************)
(* From a decoded operation to the motor pins: packet_handler (main.rs),   *)
(* dispatcher, accel_helper_task and motor_controller_task (application/   *)
(* src/motor/handler.rs) and the RpMotorController (motor/mod.rs).         *)
(*                                                                         *)
(* The tasks are polled by one cooperative executor, so a task runs from   *)
(* one await that suspends to the next without interruption: each action   *)
(* below is such a run, or a part of one that touches no other task's      *)
(* state. Which of several woken tasks is polled first is the executor's   *)
(* choice, and so is left open. Durations are abstracted: an armed timer   *)
(* may expire at any moment.                                               *)
(***************************************************************************)
EXTENDS AccelHelper, Sequences

CONSTANTS
    Ops,              \* operations Handler::handle may return
    ChannelCapacity   \* capacity of the three command channels, 5 in the code

(* Op and Command. SetFunctions matters here only in that it replaces      *)
(* last_command; Reboot restarts everything and is modelled with the store.*)
AcknowledgeCv   == [op |-> "AcknowledgeCv"]
Reset           == [op |-> "Reset"]
SetFunctions    == [op |-> "SetFunctions"]
SetVelocity(v)  == [op |-> "Velocity128", velocity |-> v]

Velocities == {SetVelocity(v) : v \in Commandable}
AllOps     == {AcknowledgeCv, Reset, SetFunctions} \union Velocities
Command    == AllOps \ {SetFunctions}

ASSUME PipelineAssumption ==
    /\ Ops \subseteq AllOps
    /\ ChannelCapacity \in Nat \ {0}

VARIABLES
    last_command,      \* packet_handler: {} or {op}
    MOTOR_CHANNEL,     \* packet_handler -> dispatcher
    dispatching,       \* sends the dispatcher has still to do for its command
    channel,           \* dispatcher -> "accel" and "motor" tasks
    phase,             \* await at which motor_controller_task is suspended
    level,             \* level it took and has not applied: {} or {level}
    last_output_level,
    pid_timer,         \* TRUE iff pid_sample_timer is armed
    pwm,               \* pins that carry a duty cycle
    dir,               \* RpMotorController.dir
    ack_dir            \* RpMotorController.ack_dir

handlerVars    == <<last_command, MOTOR_CHANNEL>>
dispatcherVars == <<dispatching, channel>>
motorVars      == <<phase, level, last_output_level, pid_timer, pwm, dir,
                    ack_dir>>

vars == <<accelVars, handlerVars, dispatcherVars, motorVars>>

Task == {"accel", "motor"}

(* Channel::send suspends while the channel is full.                       *)
Room(queue) == Len(queue) < ChannelCapacity

TypeOK ==
    /\ AccelTypeOK
    /\ last_command \in Option(Ops)
    /\ MOTOR_CHANNEL \in Seq(Command)
    /\ dispatching \in Seq([to : Task, command : Command])
    /\ channel \in [Task -> Seq(Command)]
    /\ phase \in {"select", "settling", "measuring", "acknowledging"}
    /\ level \in Option(OutputLevel)
    /\ last_output_level \in OutputLevel
    /\ pid_timer \in BOOLEAN
    /\ pwm \in SUBSET Direction
    /\ dir \in Direction
    /\ ack_dir \in Direction

Init ==
    /\ AccelInit
    /\ last_command = {}
    /\ MOTOR_CHANNEL = <<>>
    /\ dispatching = <<>>
    /\ channel = [t \in Task |-> <<>>]
    /\ phase = "select"
    /\ level = {}
    /\ last_output_level = [dir |-> "Forward", setpoint |-> 0]
    /\ pid_timer = FALSE
    /\ pwm = {}
    /\ dir = "Forward"
    /\ ack_dir = "Forward"

-----------------------------------------------------------------------------
(* packet_handler                                                          *)

(* Mutant: an operation is dropped when the channel is full.               *)
HandleOpTrySend(op) ==
    /\ last_command' = {op}
    /\ MOTOR_CHANNEL' = IF op = SetFunctions \/ (op \in Velocities /\ last_command = {op})
                           \/ ~ Room(MOTOR_CHANNEL)
                        THEN MOTOR_CHANNEL
                        ELSE Append(MOTOR_CHANNEL, op)
    /\ UNCHANGED <<accelVars, dispatcherVars, motorVars>>

(* A velocity equal to the last operation is not forwarded; every other    *)
(* operation is.                                                           *)
HandleOp(op) ==
    /\ last_command' = {op}
    /\ IF op = SetFunctions \/ (op \in Velocities /\ last_command = {op})
       THEN UNCHANGED MOTOR_CHANNEL
       ELSE /\ Room(MOTOR_CHANNEL)
            /\ MOTOR_CHANNEL' = Append(MOTOR_CHANNEL, op)
    /\ UNCHANGED <<accelVars, dispatcherVars, motorVars>>

-----------------------------------------------------------------------------
(* dispatcher                                                              *)

(* Mutant: the motor task is reset before the accel task.                  *)
RouteMotorFirst(c) ==
    IF c = AcknowledgeCv THEN <<"motor">>
    ELSE IF c = Reset    THEN <<"motor", "accel">>
    ELSE                      <<"accel">>

Route(c) ==
    IF c = AcknowledgeCv THEN <<"motor">>
    ELSE IF c = Reset    THEN <<"accel", "motor">>
    ELSE                      <<"accel">>

DispatchNext ==
    /\ dispatching = <<>>
    /\ MOTOR_CHANNEL # <<>>
    /\ LET c == Head(MOTOR_CHANNEL)
       IN  dispatching' = [i \in 1 .. Len(Route(c)) |->
                               [to |-> Route(c)[i], command |-> c]]
    /\ MOTOR_CHANNEL' = Tail(MOTOR_CHANNEL)
    /\ UNCHANGED <<accelVars, last_command, channel, motorVars>>

DispatchSend ==
    /\ dispatching # <<>>
    /\ LET send == Head(dispatching)
       IN  /\ Room(channel[send.to])
           /\ channel' = [channel EXCEPT ![send.to] = Append(@, send.command)]
    /\ dispatching' = Tail(dispatching)
    /\ UNCHANGED <<accelVars, handlerVars, motorVars>>

-----------------------------------------------------------------------------
(* Mutant: the command is looked at and stays in the channel.              *)
ReceivesPeek(t, c) ==
    /\ channel[t] # <<>>
    /\ c = Head(channel[t])
    /\ UNCHANGED channel

Receives(t, c) ==
    /\ channel[t] # <<>>
    /\ c = Head(channel[t])
    /\ channel' = [channel EXCEPT ![t] = Tail(@)]

(* accel_helper_task: select() polls the channel before the timer. The     *)
(* dispatcher never sends it AcknowledgeCv.                                *)

AccelCommand ==
    /\ \E c \in Command :
          /\ Receives("accel", c)
          /\ \/ c = Reset /\ AccelReset
             \/ c \in Velocities /\ AccelSetVelocity(c.velocity)
    /\ UNCHANGED <<handlerVars, dispatching, motorVars>>

AccelTimer ==
    /\ channel["accel"] = <<>>
    /\ AccelTimerExpired
    /\ UNCHANGED <<handlerVars, dispatcherVars, motorVars>>

AccelTask == AccelCommand \/ AccelTimer

-----------------------------------------------------------------------------
(* motor_controller_task. select3() polls the speed signal, then the       *)
(* command channel, then the PID timer.                                    *)

AccelAside ==
    UNCHANGED <<config, current, target, accel_timer, previous_setpoint>>

LevelArrives ==
    /\ phase = "select"
    /\ MOTOR_SPEED_CHANNEL # {}
    /\ level' = MOTOR_SPEED_CHANNEL
    /\ MOTOR_SPEED_CHANNEL' = {}
    /\ phase' = "settling"
    /\ UNCHANGED <<handlerVars, dispatcherVars, last_output_level, pid_timer,
                   pwm, dir, ack_dir>>
    /\ AccelAside

(* Mutant: level 0 stops the motor and leaves its timer armed.             *)
SetOutputKeepsTimer(lvl) ==
    /\ last_output_level' = lvl
    /\ pwm' = {}
    /\ phase' = IF lvl.setpoint # 0 THEN "measuring" ELSE "select"
    /\ UNCHANGED <<pid_timer, dir, ack_dir>>

(* set_output() up to its first await, with lvl as last_output_level: a    *)
(* measurement stops both pins and suspends; level 0 stops the motor.      *)
SetOutput(lvl) ==
    /\ last_output_level' = lvl
    /\ pwm' = {}
    /\ IF lvl.setpoint # 0
       THEN /\ phase' = "measuring"
            /\ UNCHANGED pid_timer
       ELSE /\ phase' = "select"
            /\ pid_timer' = FALSE
    /\ UNCHANGED <<dir, ack_dir>>

(* The 1 ms timer of handler.rs:150 has expired.                           *)
LevelApplied ==
    /\ phase = "settling"
    /\ \E lvl \in level : SetOutput(lvl)
    /\ level' = {}
    /\ UNCHANGED <<accelVars, handlerVars, dispatcherVars>>

PidTimerExpires ==
    /\ phase = "select"
    /\ MOTOR_SPEED_CHANNEL = {}
    /\ channel["motor"] = <<>>
    /\ pid_timer
    /\ SetOutput(last_output_level)
    /\ UNCHANGED <<accelVars, handlerVars, dispatcherVars, level>>

(* set_output_level(): the other pin is stopped before this one is driven; *)
(* a computed level of 0 leaves both off.                                  *)
Drive(on) ==
    /\ dir' = last_output_level.dir
    /\ pwm' = IF on THEN {dir'} ELSE {}

(* measure() returns. The speed controller computes an output to drive, no *)
(* output (the handover to its PID mode), or the measurement failed.       *)
MeasurementDone ==
    /\ phase = "measuring"
    /\ \/ \E on \in BOOLEAN : Drive(on)
       \/ UNCHANGED <<dir, pwm>>
    /\ pid_timer' = TRUE
    /\ phase' = "select"
    /\ UNCHANGED <<accelVars, handlerVars, dispatcherVars, level,
                   last_output_level, ack_dir>>

Opposite(d) == IF d = "Forward" THEN "Reverse" ELSE "Forward"

(* Mutant: the pulse starts without a stop.                                *)
AcknowledgeWithoutStop ==
    /\ pwm' = pwm \union {ack_dir}
    /\ ack_dir' = Opposite(ack_dir)
    /\ phase' = "acknowledging"
    /\ UNCHANGED pid_timer

(* acknowledge_cv() up to its await: stop, then drive one pin for 6 ms.    *)
StartAcknowledge ==
    /\ pwm' = {ack_dir}
    /\ ack_dir' = Opposite(ack_dir)
    /\ phase' = "acknowledging"
    /\ UNCHANGED pid_timer

StopMotor ==
    /\ pwm' = {}
    /\ pid_timer' = FALSE
    /\ UNCHANGED <<ack_dir, phase>>

MotorCommand ==
    /\ phase = "select"
    /\ MOTOR_SPEED_CHANNEL = {}
    /\ \E c \in Command :
          /\ Receives("motor", c)
          /\ \/ c = AcknowledgeCv /\ StartAcknowledge
             \/ c = Reset /\ StopMotor
    /\ UNCHANGED <<accelVars, handlerVars, dispatching, level,
                   last_output_level, dir>>

(* Mutant: the pulse is not ended.                                         *)
AcknowledgeWithoutEnd ==
    /\ phase = "acknowledging"
    /\ pid_timer' = FALSE
    /\ phase' = "select"
    /\ UNCHANGED <<accelVars, handlerVars, dispatcherVars, level,
                   last_output_level, pwm, dir, ack_dir>>

AcknowledgeDone ==
    /\ phase = "acknowledging"
    /\ pwm' = pwm \ {Opposite(ack_dir)}
    /\ pid_timer' = FALSE
    /\ phase' = "select"
    /\ UNCHANGED <<accelVars, handlerVars, dispatcherVars, level,
                   last_output_level, dir, ack_dir>>

MotorTask ==
    \/ LevelArrives
    \/ LevelApplied
    \/ PidTimerExpires
    \/ MeasurementDone
    \/ MotorCommand
    \/ AcknowledgeDone

-----------------------------------------------------------------------------

Tasks == DispatchNext \/ DispatchSend \/ AccelTask \/ MotorTask

Next == (\E op \in Ops : HandleOp(op)) \/ Tasks

(* Every task is woken by what it waits for and the executor polls every   *)
(* woken task; operations arrive when the track sends them, or not at all. *)
Fairness ==
    /\ WF_vars(DispatchNext)
    /\ WF_vars(DispatchSend)
    /\ WF_vars(AccelTask)
    /\ WF_vars(MotorTask)

Spec == Init /\ [][Next]_vars /\ Fairness

(* Nothing is queued or signalled and the motor task waits; a ramp or the  *)
(* PID loop may still be running on its timer.                             *)
Drained ==
    /\ MOTOR_CHANNEL = <<>> /\ dispatching = <<>>
    /\ \A t \in Task : channel[t] = <<>>
    /\ MOTOR_SPEED_CHANNEL = {}
    /\ phase = "select"

(* Packets far enough apart: an operation is worked off before the next.   *)
(* Without it operations pile up, as they do while a flash write blocks    *)
(* the executor and the receiver buffers packets.                          *)
PacedNext == (\E op \in Ops : Drained /\ HandleOp(op)) \/ Tasks

PacedSpec == Init /\ [][PacedNext]_vars /\ Fairness

-----------------------------------------------------------------------------
(* The two sides of the H-bridge are never driven together, whatever the   *)
(* phases of a CV acknowledgement, a measurement and a reset do to each    *)
(* other (motor/mod.rs:189-226 stops one pin before it drives the other).  *)
NoShootThrough == pwm # Direction

(* No open-loop motor: when motor_controller_task waits in its select, a   *)
(* driven pin is the one of the last level, that level is not zero, and    *)
(* the PID timer is armed to correct it. AcknowledgeCv and Reset disarm    *)
(* the timer (handler.rs:169, 178), so they must leave the pins off.       *)
SupervisedOutput ==
    phase = "select" /\ pwm # {} =>
        /\ pid_timer
        /\ last_output_level.setpoint # 0
        /\ pwm = {last_output_level.dir}

(* The level the motor task has been told last: pending, taken or applied. *)
NewestLevel ==
    IF MOTOR_SPEED_CHANNEL # {} THEN MOTOR_SPEED_CHANNEL
    ELSE IF level # {}          THEN level
    ELSE                             {last_output_level}

(* The accel task's memory of what it signalled (previous_setpoint) always *)
(* is what the motor task has or will get next, although a Signal keeps    *)
(* only the latest value and the motor takes it at its own pace. The accel *)
(* task skips a signal on the strength of it (handler.rs:214-219).         *)
SignalCoherent ==
    NewestLevel =
        IF previous_setpoint = {}
        THEN {[dir |-> "Forward", setpoint |-> 0]}
        ELSE {ToOutputLevel(v) : v \in previous_setpoint}

(* Every task waits and no ramp is running.                                *)
Quiescent == Drained /\ ~ accel_timer

(* End to end: once everything has settled after a velocity command, the   *)
(* motor task holds the level of that velocity, whatever was queued when   *)
(* it came, resets included. It needs every filter on the way (main.rs:171,*)
(* handler.rs:215) to drop only what makes no difference.                  *)
CommandedLevelReachesMotor ==
    \A v \in Commandable :
        Quiescent /\ last_command = {SetVelocity(v)} =>
            last_output_level = ToOutputLevel(v)

(* The same with the PID loop, which then runs iff the level is not zero.  *)
(* The startup state has the property; Op::Reset "returns it to the        *)
(* startup state" (dcc/src/handler.rs:21).                                 *)
CommandedSpeedReachesMotor ==
    \A v \in Commandable :
        Quiescent /\ last_command = {SetVelocity(v)} =>
            /\ last_output_level = ToOutputLevel(v)
            /\ pid_timer <=> ToOutputLevel(v).setpoint # 0

Stopped == pwm = {} /\ ~ pid_timer

(* A stop command ends with the motor off for good, whatever was queued,   *)
(* signalled or measured when it arrived and however the tasks interleave. *)
StopCommandStopsMotor ==
    \A v \in {u \in Commandable : Idx(u) = 0 /\ SetVelocity(u) \in Ops} :
        <>[](last_command = {SetVelocity(v)}) => <>[]Stopped

(* Back-pressure never becomes a standstill: the dispatcher suspends on a  *)
(* full channel and the motor task serves the speed signal before its      *)
(* commands, yet packet_handler always gets room for its next command.     *)
HandlerNeverStuck == []<> Room(MOTOR_CHANNEL)

(* "Decoder resets: erases volatile memory (speed, direction) and returns  *)
(* to power-up state", speed = stopped (specs/dcc-s9.2-communications.     *)
(* allium:127-133): once a Reset is worked off the motor is off, its PID   *)
(* loop too and no ramp is left to start it again. It takes the order of   *)
(* the two sends of the dispatcher and the order in which both tasks poll  *)
(* their sources, and holds for paced operations only.                     *)
ResetStopsMotor ==
    Drained /\ last_command = {Reset} => Stopped /\ ~ accel_timer

=============================================================================
