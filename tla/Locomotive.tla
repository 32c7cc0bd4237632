----------------------------- MODULE Locomotive -----------------------------
(***************************************************************************)
(* packet_handler with everything it drives: the motor pipeline and the    *)
(* function handler it owns (main.rs). Both follow the velocity commands,  *)
(* the function outputs at once and the motor at the end of a ramp.        *)
(***************************************************************************)
EXTENDS MotorPipeline, FunctionHandler

locoVars == <<vars, functionVars>>

LocoTypeOK == TypeOK /\ FunctionsTypeOK

LocoInit == Init /\ FunctionsInit

(* Mutant: the lights follow a velocity only if it follows another one.    *)
PassesOnAfterVelocity(op) ==
    last_command \intersect Velocities # {} /\ last_command # {op}

(* The velocity is not the one handled last, so the motor is told and then *)
(* the lights.                                                             *)
PassesOn(op) == last_command # {op}

FunctionPart(op) ==
    \/ op = SetFunctions /\ \E fg \in FunctionGroups : HandleGroup(fg)
    \/ op \in Velocities /\ PassesOn(op) /\ SetDirection(op.velocity.direction)
    \/ op \in Velocities /\ ~ PassesOn(op) /\ UNCHANGED functionVars
    \/ op \in {AcknowledgeCv, Reset} /\ UNCHANGED functionVars

HandleAll(op) == HandleOp(op) /\ FunctionPart(op)

LocoTasks == Tasks /\ UNCHANGED functionVars

LocoPacedNext == (\E op \in Ops : Drained /\ HandleAll(op)) \/ LocoTasks

LocoPacedSpec == LocoInit /\ [][LocoPacedNext]_locoVars /\ Fairness

-----------------------------------------------------------------------------
(* The pins always are what the functions and the direction call for: they *)
(* are recomputed only when one of the two changes (functions/handler.rs:  *)
(* 100, 106), by either of two operations, and a level its slice rejects   *)
(* keeps what the pin had.                                                 *)
OutputsFollowFunctions ==
    outputs = [pin \in Pins |->
        IF pin \in OutputMask(flags, direction)
           /\ (IsPwm(pin) => PwmLevel(pin) <= PwmConfig(pin).wrap)
        THEN IF IsPwm(pin) THEN PwmLevel(pin) ELSE 1
        ELSE 0]

(* A locomotive under way shows its lights for the direction it moves in:  *)
(* once everything has settled and the PID loop runs, the lights and the   *)
(* motor agree, although a reset turns the helper to forward and leaves    *)
(* the lights (main.rs:169), and the two follow different filters (main.rs:*)
(* 171, handler.rs:215).                                                   *)
LightsFaceTravel ==
    Quiescent /\ pid_timer => direction = last_output_level.dir

=============================================================================
