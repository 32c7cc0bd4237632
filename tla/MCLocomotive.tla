---------------------------- MODULE MCLocomotive ----------------------------
(* Values of the constants of Locomotive for TLC.                          *)
EXTENDS Locomotive

MCBothRates  == {0, 1}
MCSpeedTable == [n \in 0 .. MaxStep |-> 2 * n]

Go(n, d) == SetVelocity([speed_step |-> Num(n), direction |-> d])
Halt(d)  == SetVelocity([speed_step |-> Stop, direction |-> d])
HaltNow(d) == SetVelocity([speed_step |-> EmergencyStop, direction |-> d])

(* Both directions, a ramp with intermediate speeds, the stop that wraps,  *)
(* an emergency stop, and the operations that interrupt.                   *)
MCOps == {Go(2, "Forward"), Go(1, "Reverse"), Halt("Reverse"), HaltNow("Forward"),
          AcknowledgeCv, Reset, SetFunctions}

(* FL lights pin 24 forward and pin 25 in reverse, F1 dims pins 0 and 24   *)
(* with 24, and the level of pin 1 (F1 in reverse) is above the top of its *)
(* slice. Pins 0 and 1 are the PWM outputs of slice 0.                     *)
MCStore ==
    [cv \in 1 .. CV_SIZE |->
        CASE cv = 115 -> 3                      \* PWM on pins 0 and 1
          [] cv = 117 -> 200                    \* top of slice 0
          [] cv = 120 -> 50 [] cv = 122 -> 250  \* its levels
          [] cv = 257 -> 1  [] cv = 261 -> 2    \* FL
          [] cv = 265 -> 1  [] cv = 268 -> 1    \* F1, forward
          [] cv = 272 -> 2                      \* F1, reverse
          [] OTHER    -> DefaultValues[cv]]

MCGroups == {ParseFg1(144), ParseFg1(145), ParseFg1(128), ParseFg2(176)}
=============================================================================
