--------------------------- MODULE MCSpeedControl ---------------------------
(* Values of the constants of SpeedControl for TLC.                        *)
EXTENDS SpeedControl

(* Step 63 has a higher level than the last step, the gain falls in the    *)
(* first range and rises in the second, one sample of three is cut off at  *)
(* either end, and the offset is 2.                                        *)
MCStore ==
    [cv \in 1 .. CV_SIZE |->
        CASE cv = VStart  -> 10 [] cv = VMid -> 60 [] cv = VHigh -> 30
          [] cv = PidKpY0 + 1 -> 90 [] cv = PidKpY1 + 1 -> 30 [] cv = PidKpY2 + 1 -> 120
          [] cv \in {PidKpY0, PidKpY1, PidKpY2} -> 0
          [] cv = PidKpGainRange1End -> 100
          [] cv = EmfMsrSamples -> 3
          [] cv \in {EmfMsrLowCutoff, EmfMsrHighCutoff} -> 1
          [] cv = EmfAdcOffset -> 2
          [] OTHER -> DefaultValues[cv]]

(* No power, a level of the first gain range and one above the last.       *)
MCSpeedSteps == {0, 2, 63}

(* At rest and moving; the mean of three samples, one of them moving, is   *)
(* below the handover level only if that one is cut off.                   *)
MCSamples == {2, 40}

(* The expectations of the unit tests of table.rs and of the math crate.   *)
ASSUME TableTests ==
    LET one == BuildTable([v_start |-> 1, v_mid |-> 64, v_high |-> 126])
        two == BuildTable([v_start |-> 10, v_mid |-> 50, v_high |-> 200])
    IN  /\ <<one[0], one[1], one[8], one[63], one[64], one[126]>>
                = <<0, 1, 115, 1008, 1040, 2016>>
        /\ <<two[1], two[63], two[64], two[126]>> = <<10, 787, 838, 3200>>

ASSUME FilterTests ==
    /\ SortSamples(<<3, 1, 2, 1>>) = <<1, 1, 2, 3>>
    /\ FilteredMean(<<>>, 2) = {}
    /\ FilteredMean(<<42>>, 2) = {42}
    /\ FilteredMean(<<10, 12, 11, 10, 100>>, 1) = {11}
    /\ FilteredMean(<<10, 12, 11, 10, 50>>, 3) = {19}
    /\ FilteredMean(<<10, 11>>, 2) = {11}
    /\ FilteredMean(<<10, 10, 10, 30, 30, 30>>, 1) = {20}
    /\ FilteredMean(<<40, 50, 60>>, 0) = {50}
=============================================================================
