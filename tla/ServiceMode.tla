---------------------------- MODULE ServiceMode ----------------------------
(***************************************************************************)
(* Handler::handle (dcc/src/handler.rs) over the CV store: reset packets,  *)
(* the window in which programming packets are recognised, the latch that  *)
(* wants them twice, and what each instruction writes. main.rs reboots on  *)
(* Op::Reboot.                                                             *)
(***************************************************************************)
EXTENDS CvFlash

CONSTANT Packets    \* packets the track may carry

(* `to' is the address in the first byte(s), `cv' and `data' matter to     *)
(* programming packets. Their first byte is 0111CCAA, an address 112..127, *)
(* and CC is the instruction; with AA = 0 the CV is one of 1..256.         *)
Pkt(kind, to, cv, data) == [kind |-> kind, to |-> to, cv |-> cv, data |-> data]

ResetPacket          == Pkt("Reset", 0, 0, 0)
Addressed(to)        == Pkt("Addressed", to, 0, 0)
VerifyBytePkt(cv, v) == Pkt("VerifyByte", 116, cv, v)
BitPkt(cv, v)        == Pkt("ManipulateBit", 120, cv, v)
WriteBytePkt(cv, v)  == Pkt("WriteByte", 124, cv, v)
LegacyReset          == Pkt("LegacyReset", 127, 0, 0)

AllPackets ==
    {ResetPacket, LegacyReset} \union {Addressed(a) : a \in 1 .. 16383 \ 112 .. 127}
    \union {VerifyBytePkt(cv, v) : cv \in CVs, v \in Byte}
    \union {BitPkt(cv, v)        : cv \in CVs, v \in Byte}
    \union {WriteBytePkt(cv, v)  : cv \in CVs, v \in Byte}

ASSUME PacketAssumption == Packets \subseteq AllPackets

ServiceCandidate(p) == p.to \in 112 .. 127

VARIABLES
    timer,      \* enter_service_mode_timer: "off", or less than 20 ms ("running")
                \* or more ("expired") since it was started
    pending,    \* pending_service_packet: {} or {packet}
    executed,   \* history: the programming packet that led to `reply', if any
    clean,      \* history: only the latched packet was received since
    armed       \* history: a reset packet came after the last addressed packet

vars == <<storeVars, timer, pending, executed, clean, armed>>

TypeOK ==
    /\ StoreTypeOK
    /\ timer \in {"off", "running", "expired"}
    /\ pending \in {{}} \union {{p} : p \in Packets}
    /\ executed \in {{}} \union {{p} : p \in Packets}
    /\ clean \in BOOLEAN /\ armed \in BOOLEAN

Init ==
    /\ StoreInit
    /\ timer = "off" /\ pending = {}
    /\ executed = {} /\ clean = FALSE /\ armed = FALSE

(* packet_handler is at its await.                                         *)
Listening == mode = "run" /\ writes = <<>> /\ reply # "Reboot"

Perform(calls, op) ==
    /\ writes' = calls
    /\ reply' = op

-----------------------------------------------------------------------------
(* write_byte(): some CVs are guarded, some have side effects.             *)

(* Mutant: writes the address and does not switch to it.                   *)
WritePrimaryAddressOnly(v) ==
    IF v \in 1 .. 127
    THEN Perform(<<WriteByte(PrimaryAddress, v)>>, "AcknowledgeCv")
    ELSE Perform(<<>>, "Error")

(* An address 1..127; also switches to it and leaves any consist.          *)
WritePrimaryAddress(v) ==
    IF v \in 1 .. 127
    THEN Perform(<<WriteByte(PrimaryAddress, v),
                   WriteByte(DecoderConfiguration,
                             WithBit(cache[DecoderConfiguration], 5, 0)),
                   WriteByte(ConsistAddress, 0)>>, "AcknowledgeCv")
    ELSE Perform(<<>>, "Error")

(* Mutant: acknowledges and does not reboot.                               *)
FactoryResetInPlace == Perform(<<ResetWrite>>, "AcknowledgeCv")

FactoryReset == Perform(<<ResetWrite>>, "Reboot")

WriteManufacturerId(v) ==
    IF v = 8 THEN FactoryReset ELSE Perform(<<>>, "None")

WriteVersionNumber(v) ==
    Perform(IF v = 7 THEN <<WriteByte(EmfAdcOffset, 255)>> ELSE <<>>, "Reboot")

WriteExtendedMsb(v) ==
    IF v \in 192 .. 231 /\ ~ (v = 192 /\ cache[ExtendedAddressLsb] = 0)
    THEN Perform(<<WriteByte(ExtendedAddressMsb, v)>>, "AcknowledgeCv")
    ELSE Perform(<<>>, "Error")

(* Mutant: without a look at the other half of the address.                *)
WriteExtendedLsbAlone(v) ==
    Perform(<<WriteByte(ExtendedAddressLsb, v)>>, "AcknowledgeCv")

WriteExtendedLsb(v) ==
    IF cache[ExtendedAddressMsb] = 192 /\ v = 0
    THEN Perform(<<>>, "Error")
    ELSE Perform(<<WriteByte(ExtendedAddressLsb, v)>>, "AcknowledgeCv")

(* CV31 and CV32 (the CV index) are ignored without an acknowledgement.    *)
GuardedCVs == {PrimaryAddress, ManufacturerId, ManufacturerVersionNumber,
               ExtendedAddressMsb, ExtendedAddressLsb, 31, 32}

ExecuteWrite(cv, v) ==
    \/ cv \in {31, 32} /\ Perform(<<>>, "None")
    \/ cv = PrimaryAddress /\ WritePrimaryAddress(v)
    \/ cv = ManufacturerId /\ WriteManufacturerId(v)
    \/ cv = ManufacturerVersionNumber /\ WriteVersionNumber(v)
    \/ cv = ExtendedAddressMsb /\ WriteExtendedMsb(v)
    \/ cv = ExtendedAddressLsb /\ WriteExtendedLsb(v)
    \/ cv \notin GuardedCVs /\ Perform(<<WriteByte(cv, v)>>, "AcknowledgeCv")

ExecuteVerify(cv, v) ==
    Perform(<<>>, IF cache[cv] = v THEN "AcknowledgeCv" ELSE "None")

(* manipulate_bit(): data is 111KDBBB, K selects write or verify.          *)
IsBitWrite(v) == Bit(v, 4) = 1
BitPosition(v) == v % 8
BitValue(v) == Bit(v, 3)

ExecuteBit(cv, v) ==
    IF v < 224 THEN Perform(<<>>, "Error")
    ELSE IF IsBitWrite(v)
    THEN Perform(<<WriteByte(cv, WithBit(cache[cv], BitPosition(v), BitValue(v)))>>,
                 "AcknowledgeCv")
    ELSE Perform(<<>>, IF Bit(cache[cv], BitPosition(v)) = BitValue(v)
                       THEN "AcknowledgeCv" ELSE "None")

Execute(p) ==
    \/ p.kind = "WriteByte"     /\ ExecuteWrite(p.cv, p.data)
    \/ p.kind = "VerifyByte"    /\ ExecuteVerify(p.cv, p.data)
    \/ p.kind = "ManipulateBit" /\ ExecuteBit(p.cv, p.data)
    \/ p.kind = "LegacyReset"   /\ FactoryReset

-----------------------------------------------------------------------------
(* handle(): one action per branch.                                        *)

StoreAside == UNCHANGED <<flash, cache, stage, mode>>

HandleReset ==
    /\ Listening
    /\ ResetPacket \in Packets
    /\ timer' = "running"
    /\ Perform(<<>>, "Reset")
    /\ executed' = {} /\ clean' = FALSE /\ armed' = TRUE
    /\ UNCHANGED pending /\ StoreAside

InWindow(p) == timer = "running" /\ ServiceCandidate(p)

(* The first of two equal packets, or one that differs from the latched.   *)
LatchPacket(p) ==
    /\ Listening /\ InWindow(p)
    /\ pending # {p}
    /\ pending' = {p}
    /\ timer' = "running"
    /\ Perform(<<>>, "None")
    /\ executed' = {} /\ clean' = TRUE
    /\ UNCHANGED armed /\ StoreAside

ExecutePacket(p) ==
    /\ Listening /\ InWindow(p)
    /\ pending = {p}
    /\ pending' = {}
    /\ timer' = "running"
    /\ Execute(p)
    /\ executed' = {p}
    /\ UNCHANGED <<clean, armed>> /\ StoreAside

(* Mutant: the window stays open.                                          *)
HandleCommandInWindow(p) ==
    /\ Listening
    /\ p # ResetPacket /\ ~ InWindow(p)
    /\ p.to = Addr(cache)
    /\ Perform(<<>>, "Command")
    /\ executed' = {} /\ clean' = FALSE /\ armed' = FALSE
    /\ UNCHANGED <<timer, pending>> /\ StoreAside

(* Addressed to this decoder; handle_command() does not touch the store.   *)
HandleCommand(p) ==
    /\ Listening
    /\ p # ResetPacket /\ ~ InWindow(p)
    /\ p.to = Addr(cache)
    /\ timer' = "off"
    /\ Perform(<<>>, "Command")
    /\ executed' = {} /\ clean' = FALSE /\ armed' = FALSE
    /\ UNCHANGED pending /\ StoreAside

IgnorePacket(p) ==
    /\ Listening
    /\ p # ResetPacket /\ ~ InWindow(p)
    /\ p.to # Addr(cache)
    /\ Perform(<<>>, "None")
    /\ executed' = {} /\ clean' = FALSE
    /\ UNCHANGED <<timer, pending, armed>> /\ StoreAside

Handle ==
    \/ HandleReset
    \/ \E p \in Packets :
          LatchPacket(p) \/ ExecutePacket(p) \/ HandleCommand(p) \/ IgnorePacket(p)

(* 20 ms pass, which a flash write alone may take.                         *)
TimeoutElapses ==
    /\ mode = "run" /\ timer = "running"
    /\ timer' = "expired"
    /\ UNCHANGED <<storeVars, pending, executed, clean, armed>>

HandlerAside == UNCHANGED <<timer, pending, executed, clean, armed>>

HandlerLost ==
    /\ timer' = "off" /\ pending' = {}
    /\ executed' = {} /\ clean' = FALSE /\ armed' = FALSE

Working == (WriteStep \/ BootStep) /\ HandlerAside
Rebooting == SystemReset /\ HandlerLost

Next ==
    \/ Handle
    \/ TimeoutElapses
    \/ Working
    \/ Rebooting
    \/ PowerLoss /\ HandlerLost

(* The code runs on: writes, boot and reset complete.                      *)
Fairness == WF_vars(Working) /\ WF_vars(Rebooting)

Spec == Init /\ [][Next]_vars /\ Fairness

-----------------------------------------------------------------------------
(* An acknowledgement means that the value is in flash: it is skipped as   *)
(* redundant on the strength of the cache only, and one packet may stand   *)
(* for three erase and program cycles. "Acknowledge the CV has been written*)
(* using the service mode technique" (dcc/src/handler.rs:18), and "the CV  *)
(* retains its new value across power cycles" (specs/dcc-s9.2.3-service-   *)
(* mode.allium:311).                                                       *)
Acknowledged(p) ==
    reply = "AcknowledgeCv" /\ writes = <<>> /\ executed = {p}

AckedWritePersists ==
    \A p \in Packets :
        Acknowledged(p) =>
            /\ p.kind = "WriteByte" => flash[p.cv] = p.data
            /\ p.kind = "WriteByte" /\ p.cv = PrimaryAddress =>
                   Addr(flash) = p.data /\ flash[ConsistAddress] = 0
            /\ p.kind = "ManipulateBit" =>
                   Bit(flash[p.cv], BitPosition(p.data)) = BitValue(p.data)

(* No sequence of byte writes makes the address 0, neither in the cache    *)
(* nor, once booted, in flash: not through CV1, not through the two halves *)
(* of the extended address written in either order, and not through power  *)
(* lost on the way. (write_byte() guards each CV on its own,               *)
(* handler.rs:147-205; address 0 would erase all CVs at the next boot.)    *)
AddressNeverZero ==
    mode \in {"calibrate", "run"} => Addr(cache) # 0 /\ Addr(flash) # 0

(* Programming stops once the decoder is being driven: between a packet    *)
(* addressed to it and the next reset packet no CV changes, however the    *)
(* timer, repeated packets and a latch left behind combine                 *)
(* (handler.rs:71-75 stops the timer).                                     *)
NoProgrammingInOperations ==
    [][ mode = "run" /\ cache' # cache => armed ]_vars

(* A factory reset ends with the defaults in flash and the decoder booted, *)
(* or with an error: the forced write, the reboot it asks for and the      *)
(* calibration at boot all happen (CV172 is the calibration's), and none   *)
(* of them gets stuck on a flash error.                                    *)
FactoryResetTakesEffect ==
    LET HasDefaults == \A cv \in CVs \ {EmfAdcOffset} :
                           flash[cv] = DEFAULT_VALUES[cv]
    IN  executed \in {{LegacyReset}, {WriteBytePkt(ManufacturerId, 8)}} /\ mode = "run"
            ~> \/ mode = "calibrate" /\ writes = <<>> /\ HasDefaults
               \/ reply = "Error"

(* "A decoder only executes a write or verify after receiving two identical*)
(* service mode instruction packets with no intervening valid packets"     *)
(* (specs/dcc-s9.2.3-service-mode.allium:521-524).                         *)
TwoPacketRequired ==
    [][ executed' # executed /\ executed' # {} => clean ]_vars

(* "CV store is empty. Resetting to default values." (cv/store.rs:349): a  *)
(* boot does not go on with an erased sector.                              *)
EmptyStoreIsReset ==
    mode = "populate" /\ writes = <<>> => cache # Erased

=============================================================================
