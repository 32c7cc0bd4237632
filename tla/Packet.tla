------------------------------- MODULE Packet -------------------------------
(***************************************************************************)
(* From the bytes of a packet to what the handler makes of them: the codec *)
(* (dcc/src/transport/codec.rs), the address and the instruction of a      *)
(* packet (transport/mod.rs, transport/packet.rs) and the function groups  *)
(* (dcc/src/lib.rs). A packet is a sequence of bytes, flags of functions   *)
(* are a set of function indices in which FL is 0.                         *)
(***************************************************************************)
EXTENDS CvAccess, Velocity, Sequences, FiniteSets

Err(error) == [result |-> "Err", error |-> error]
Ok(value)  == [result |-> "Ok", value |-> value]

IsOk(r) == r.result = "Ok"

-----------------------------------------------------------------------------

IsBasicAddress(data) == data[1] \in 0 .. 127

IsMfExtendedAddress(data) == Len(data) >= 2 /\ data[1] \in 192 .. 231

(* The XOR of all bytes is 0 iff every bit is 1 in an even number of them. *)
ChecksumHolds(raw) ==
    \A b \in 0 .. 7 : Cardinality({i \in DOMAIN raw : Bit(raw[i], b) = 1}) % 2 = 0

IdlePacket == Ok(<<>>)

(* DccCodec::decode; the packet has no checksum any more.                  *)
Decode(raw) ==
    IF Len(raw) > 6 THEN Err("Oversize")
    ELSE IF Len(raw) < 3 THEN Err("Undersize")
    ELSE IF raw[1] = 255 THEN IdlePacket
    ELSE IF IsMfExtendedAddress(raw) /\ Len(raw) < 4 THEN Err("Undersize")
    ELSE IF raw[1] \in 232 .. 254 THEN Err("InvalidAddress")
    ELSE IF ~ ChecksumHolds(raw) THEN Err("InvalidChecksum")
    ELSE Ok(SubSeq(raw, 1, Len(raw) - 1))

PacketAddr(data) ==
    IF IsBasicAddress(data) THEN Ok(data[1])
    ELSE IF IsMfExtendedAddress(data) THEN Ok(ExtendedAddress(data[1], data[2]))
    ELSE Err("InvalidAddress")

AddressLength(data) == IF IsBasicAddress(data) THEN 1 ELSE 2

IsResetPacket(data) == Len(data) >= 2 /\ data[1] = 0 /\ data[2] = 0

ServiceModeCandidate(data) == data[1] \in 112 .. 127

IsRecipient(data, store) == PacketAddr(data) = Ok(Addr(store))

(* No packet has this address: two bytes carry 14 bits of it.              *)
BROADCAST_ADDRESS == 65535
IsBroadcast(data) == PacketAddr(data) = Ok(BROADCAST_ADDRESS)

-----------------------------------------------------------------------------
(* FunctionGroupFlags: the groups that a single packet carries.            *)

FG_1             == 0 .. 4
FG_2_1           == 5 .. 8
FG_2_0           == 9 .. 12
FG_FEATURE_13_20 == 13 .. 20
FG_FEATURE_21_28 == 21 .. 28
FG_FEATURE_29_31 == 29 .. 31

GroupMasks == {FG_1, FG_2_1, FG_2_0, FG_FEATURE_13_20, FG_FEATURE_21_28,
               FG_FEATURE_29_31}

FunctionGroup(mask, on) == [group_mask |-> mask, flags |-> on \intersect mask]

BitsOn(byte, bits) == {b \in bits : Bit(byte, b) = 1}

(* 100DDDDD: F1 to F4 and FL, the highest bit.                             *)
ParseFg1(first) ==
    FunctionGroup(FG_1, {(b + 1) % 5 : b \in BitsOn(first, 0 .. 4)})

(* 101SDDDD: F5 to F8, or F9 to F12 if S is 0.                             *)
ParseFg2(first) ==
    IF Bit(first, 4) = 1
    THEN FunctionGroup(FG_2_1, {b + 5 : b \in BitsOn(first, 0 .. 3)})
    ELSE FunctionGroup(FG_2_0, {b + 9 : b \in BitsOn(first, 0 .. 3)})

ParseFeatureExpansion(first, second) ==
    LET Shifted(n) == {b + n : b \in BitsOn(second, 0 .. 7)}
    IN  CASE first = 222 -> Some(FunctionGroup(FG_FEATURE_13_20, Shifted(13)))
          [] first = 223 -> Some(FunctionGroup(FG_FEATURE_21_28, Shifted(21)))
          [] first = 216 -> Some(FunctionGroup(FG_FEATURE_29_31, Shifted(29)))
          [] OTHER       -> None

(* 128 speed steps: the highest bit is the direction.                      *)
ParseSpeedStep(vector) ==
    LET speed == vector % 128
    IN  [direction  |-> IF Bit(vector, 7) = 1 THEN "Forward" ELSE "Reverse",
         speed_step |-> IF speed = 0 THEN Stop
                        ELSE IF speed = 1 THEN EmergencyStop
                        ELSE Num(speed - 1)]

SpeedStepControl(v)  == [op |-> "Velocity128", velocity |-> v]
SetFunctionGroup(fg) == [op |-> "SetFunctions", group |-> fg]

(* OperationModeInstruction::try_from with handle_command(): the operation *)
(* a packet for this decoder asks for. The three highest bits select it.   *)
ParseInstruction(data) ==
    LET at    == AddressLength(data) + 1
        first == data[at]
        type  == first \div 32
    IN  IF ~ IsOk(PacketAddr(data)) THEN Err("InvalidAddress")
        ELSE IF Len(data) < at THEN Err("Undersize")
        ELSE IF type = 4 THEN Ok(SetFunctionGroup(ParseFg1(first)))
        ELSE IF type = 5 THEN Ok(SetFunctionGroup(ParseFg2(first)))
        ELSE IF first # 63 /\ type # 6 THEN Err("InvalidInstruction")
        ELSE IF Len(data) = at THEN Err("Undersize")
        ELSE IF first = 63 THEN Ok(SpeedStepControl(ParseSpeedStep(data[at + 1])))
        ELSE LET fg == ParseFeatureExpansion(first, data[at + 1])
             IN  IF fg = None THEN Err("InvalidInstruction")
                 ELSE Ok(SetFunctionGroup(CHOOSE g \in fg : TRUE))

-----------------------------------------------------------------------------
(* ServicePacket: 0111CCAA AAAAAAAA DDDDDDDD.                              *)

InstructionType(data) ==
    CASE (data[1] \div 4) % 4 = 1 -> Ok("VerifyByte")
      [] (data[1] \div 4) % 4 = 2 -> Ok("ManipulateBit")
      [] (data[1] \div 4) % 4 = 3 -> Ok("WriteByte")
      [] OTHER                    -> Err("InvalidInstruction")

CvAddress(data) ==
    IF Len(data) < 2 THEN Err("Undersize")
    ELSE Ok((data[1] % 4) * 256 + data[2] + 1)

CvData(data) == IF Len(data) < 3 THEN Err("Undersize") ELSE Ok(data[3])

IsLegacyReset(data) == data = <<127, 8>>

=============================================================================
