-------------------------- MODULE MCMotorPipeline --------------------------
(* Values of the constants of MotorPipeline for TLC.                       *)
EXTENDS MotorPipeline

MCZeroRate == {0}
MCOneRate  == {1}
MCSpeedTable == [n \in 0 .. MaxStep |-> n]

Go(n, d) == SetVelocity([speed_step |-> Num(n), direction |-> d])
Halt(d)  == SetVelocity([speed_step |-> Stop, direction |-> d])

(* Both directions under way, the stop that wraps and the operations that  *)
(* interrupt a ramp.                                                       *)
MCMixedOps == {Go(1, "Forward"), Go(1, "Reverse"), Halt("Reverse"),
               AcknowledgeCv, Reset}

(* The same velocity before and after a reset.                             *)
MCResetOps == {Go(1, "Forward"), Reset}
=============================================================================
