--------------------------- MODULE MCAccelHelper ---------------------------
(* Values of the constants of AccelHelper for TLC.                         *)
EXTENDS AccelHelper

MCRates    == {0, 1}
MCSomeRate == {1}
MCSpeedTable == [n \in 0 .. MaxStep |-> 2 * n]
=============================================================================
