--------------------------- MODULE MCServiceMode ---------------------------
(* Values of the constants of ServiceMode for TLC.                         *)
EXTENDS ServiceMode, EmfFilter

(* CV3 stands for all CVs without a meaning to this part of the code, CV31 *)
(* for the two that are not written.                                       *)
MCCVs == NamedCVs \union {3, 31}

MCDefaults == [cv \in MCCVs |-> DefaultValues[cv]]

MCProgrammed == {MCDefaults}
MCAnyChip    == {MCDefaults, Erased}

(* A calibration with an outlier in one of the directions.                 *)
MCOffsets == {CalibratedOffset(<<6, 7, 7, 7, 8, 7, 40>>, <<7, 7, 8>>)}

(* One packet of every kind, addressed packets to this and another decoder.*)
MCEveryKind ==
    {ResetPacket, LegacyReset, Addressed(3), Addressed(4),
     VerifyBytePkt(PrimaryAddress, 5), BitPkt(3, 232), BitPkt(3, 249), BitPkt(3, 9),
     WriteBytePkt(PrimaryAddress, 5), WriteBytePkt(3, 7),
     WriteBytePkt(31, 1), WriteBytePkt(ManufacturerId, 8), WriteBytePkt(ManufacturerVersionNumber, 7),
     WriteBytePkt(ConsistAddress, 9), WriteBytePkt(DecoderConfiguration, 33)}

(* With these, both halves of the extended address at their lowest, in     *)
(* every order, and the bit that selects it.                               *)
MCAllWrites ==
    MCEveryKind \union
    {WriteBytePkt(PrimaryAddress, 0), WriteBytePkt(DecoderConfiguration, 32),
     WriteBytePkt(ExtendedAddressMsb, 192), WriteBytePkt(ExtendedAddressMsb, 193),
     WriteBytePkt(ExtendedAddressLsb, 0), WriteBytePkt(ExtendedAddressLsb, 1)}

MCOneWrite == {ResetPacket, WriteBytePkt(3, 7)}
MCDriven   == {ResetPacket, WriteBytePkt(3, 7), Addressed(3)}
=============================================================================
