---------------------------- MODULE MCReception -----------------------------
(* Values of the constants of Reception for TLC.                           *)
EXTENDS Reception

(* A speed for this decoder, a function group with the same number as its  *)
(* extended address, and an idle packet.                                   *)
MCTrack == {<<3, 63, 130, 190>>, <<192, 3, 176, 115>>, <<255, 0, 255>>}

(* A checksum that does not hold, a packet of seven bytes, which needs no  *)
(* padding, and one of nine, after which x has wrapped.                    *)
MCNoise == {<<3, 63, 1>>,
            <<1, 2, 3, 4, 5, 6, 7>>,
            <<1, 2, 3, 4, 5, 6, 7, 8, 9>>}

MCCvStore == DefaultValues
=============================================================================
