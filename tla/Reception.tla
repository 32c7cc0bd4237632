----------------------------- MODULE Reception ------------------------------
(***************************************************************************)
(* From the rails to packet_handler: the PIO program that cuts the bit     *)
(* stream into blocks of eight bytes (dcc_decoder.pio), its FIFO, the DMA  *)
(* transfer and the length recovery (pio_decoder.rs), the decoding loop    *)
(* (dcc/src/transport/mod.rs), PACKET_CHANNEL and the part of the handler  *)
(* outside of service mode.                                                *)
(*                                                                         *)
(* The PIO state machine and the DMA run beside the executor; the two      *)
(* tasks run when they are polled, which a flash write of another packet   *)
(* may delay. Bytes are received one at a time.                            *)
(***************************************************************************)
EXTENDS Packet, SequencesExt

CONSTANTS
    Track,             \* valid packets on the track, checksum included
    Noise,             \* what is received of a garbled or a long packet
    XModulus,          \* range of the PIO register x, 2^32 in the hardware
    FifoWords,         \* depth of the joined RX FIFO, 8 in the hardware
    ChannelCapacity,   \* capacity of PACKET_CHANNEL, 5 in the code
    CvStore            \* the CVs that hold the address

(* Mutant: the padding is taken to include the count byte.                 *)
ReceivedTooShort(block) ==
    LET padding == block[8]
        len     == IF padding > 6 THEN 0 ELSE 6 - padding
    IN  [i \in 1 .. len |-> 255 - block[i]]

(* What the reader makes of a block: the last byte is the number of padding*)
(* bytes, the others arrive inverted.                                      *)
Received(block) ==
    LET padding == block[8]
        len     == IF padding > 7 THEN 0 ELSE 7 - padding
    IN  [i \in 1 .. len |-> 255 - block[i]]

ASSUME ReceptionAssumption ==
    /\ \A raw \in Track : raw \in Seq(Byte) /\ Len(raw) <= 6 /\ IsOk(Decode(raw))
    /\ \A raw \in Noise : raw \in Seq(Byte) /\ raw # <<>>
    /\ MaxStep >= 126
    /\ FifoWords \in Nat \ {0}
    /\ ChannelCapacity \in Nat \ {0}
    /\ CvStore \in [1 .. CV_SIZE -> Byte]

(* x is a register of 32 bits; a smaller range keeps the padding loop of a *)
(* long packet short.                                                      *)
ASSUME RegisterAssumption == XModulus \in Nat /\ XModulus > 7 /\ XModulus % 8 = 0

(* What packet_decoder publishes.                                          *)
Taken(raw) == IsOk(Decode(raw)) /\ Decode(raw) # IdlePacket

(* All that is received garbled: noise from its first byte on, or a packet *)
(* that was interrupted, which happens at its fourth byte only (Overrun).  *)
Garbled ==
    Noise \union
    {SubSeq(raw, 1, 3) \o noise : raw \in {r \in Track : Len(r) > 3}, noise \in Noise}

(* The codec recognises what is garbled: none of the blocks it is cut into *)
(* is taken for a packet, be it all of it or eight bytes of a longer one.  *)
(* It has no means to tell a garbled packet that does pass from a sent one.*)
(* XModulus bytes would take weeks.                                        *)
ASSUME GarbledAssumption ==
    \A raw \in Garbled :
        /\ Len(raw) <= XModulus
        /\ Len(raw) <= 7 => ~ Taken(raw)
        /\ \A k \in 0 .. Len(raw) \div 8 - 1 :
              ~ Taken(Received([i \in 1 .. 8 |-> 255 - raw[8 * k + i]]))

VARIABLES
    pc,               \* part of the PIO program: "preamble", "byte" or "pad"
    rest,             \* bytes of the packet it has still to receive
    packet,           \* the packet if it is received in whole, else <<>>
    x, y,             \* its scratch registers between two bytes
    isr,              \* its input shift register, 0 to 3 bytes
    fifo,             \* RX FIFO, words of four bytes
    buff,             \* the reader's buffer
    PACKET_CHANNEL,   \* packet_decoder -> packet_handler
    handled,          \* last packet packet_handler took
    last_command,     \* last operation it returned: {} or {op}
    newest            \* the packet received in whole last

pioVars == <<pc, rest, packet, x, y, isr, newest>>
vars    == <<pioVars, fifo, buff, PACKET_CHANNEL, handled, last_command>>

ResetOp == [op |-> "Reset"]

IsOperation(op) ==
    \/ op = ResetOp
    \/ op.op = "Velocity128" /\ op.velocity \in Commandable
    \/ /\ op.op = "SetFunctions"
       /\ op.group.group_mask \in GroupMasks
       /\ op.group.flags \subseteq op.group.group_mask

(* What is handled is an operation the tasks below are specified for.      *)
TypeOK ==
    /\ pc \in {"preamble", "byte", "pad"}
    /\ rest \in Seq(Byte)
    /\ packet \in Track \union {<<>>}
    /\ x \in 0 .. XModulus - 1
    /\ y \in 0 .. XModulus - 1
    /\ isr \in Seq(Byte) /\ Len(isr) < 4
    /\ \A i \in DOMAIN fifo : fifo[i] \in Seq(Byte) /\ Len(fifo[i]) = 4
    /\ Len(fifo) <= FifoWords
    /\ buff \in Seq(Byte) /\ Len(buff) \in {0, 4, 8}
    /\ Len(PACKET_CHANNEL) <= ChannelCapacity
    /\ \A op \in last_command : IsOperation(op)

Init ==
    /\ pc = "preamble"
    /\ rest = <<>>
    /\ packet = <<>>
    /\ x = 0 /\ y = 0
    /\ isr = <<>>
    /\ fifo = <<>>
    /\ buff = <<>>
    /\ PACKET_CHANNEL = <<>>
    /\ handled = <<>>
    /\ last_command = None
    /\ newest = <<>>

-----------------------------------------------------------------------------
(* The PIO program. While it is not in its preamble loop it sees no start  *)
(* of a packet, so that packet is lost.                                    *)

(* Mutant: the count byte is forgotten among the eight.                    *)
PacketStartsWithEight(raw) ==
    /\ pc = "preamble"
    /\ pc' = "byte"
    /\ rest' = raw
    /\ packet' = IF raw \in Track THEN raw ELSE <<>>
    /\ x' = 8
    /\ UNCHANGED <<y, isr, newest, fifo, buff, PACKET_CHANNEL, handled, last_command>>

PacketStarts(raw) ==
    /\ pc = "preamble"
    /\ pc' = "byte"
    /\ rest' = raw
    /\ packet' = IF raw \in Track THEN raw ELSE <<>>
    /\ x' = 7
    /\ UNCHANGED <<y, isr, newest, fifo, buff, PACKET_CHANNEL, handled, last_command>>

(* Mutant: the push does not wait for room.                                *)
ShiftAnyway(byte) ==
    IF Len(isr) < 3
    THEN isr' = Append(isr, byte) /\ UNCHANGED fifo
    ELSE /\ fifo' = Append(fifo, Append(isr, byte))
         /\ isr' = <<>>

(* IN with autopush: the 32nd bit pushes the ISR and waits for room.       *)
Shift(byte) ==
    IF Len(isr) < 3
    THEN isr' = Append(isr, byte) /\ UNCHANGED fifo
    ELSE /\ Len(fifo) < FifoWords
         /\ fifo' = Append(fifo, Append(isr, byte))
         /\ isr' = <<>>

PioAside == UNCHANGED <<buff, PACKET_CHANNEL, handled, last_command>>

(* x is decremented for every byte and wraps after the eighth.             *)
ReadByte ==
    /\ pc = "byte"
    /\ Shift(255 - Head(rest))
    /\ x' = (x - 1) % XModulus
    /\ rest' = Tail(rest)
    /\ IF rest' = <<>>
       THEN pc' = "pad" /\ y' = x'
       ELSE UNCHANGED <<pc, y>>
    /\ UNCHANGED <<packet, newest>>
    /\ PioAside

(* The FIFO is full and the program waits; the bits it misses meanwhile    *)
(* garble the packet.                                                      *)
Overrun ==
    /\ pc = "byte"
    /\ Len(isr) = 3 /\ Len(fifo) = FifoWords
    /\ packet # <<>>
    /\ rest' \in Noise
    /\ packet' = <<>>
    /\ UNCHANGED <<pc, x, y, isr, newest, fifo>>
    /\ PioAside

(* Mutant: the loop counts down what it has saved in y.                    *)
PadCountsY ==
    /\ pc = "pad" /\ x # 0
    /\ Shift(0)
    /\ y' = (y - 1) % XModulus
    /\ UNCHANGED <<pc, rest, packet, x, newest>>
    /\ PioAside

Pad ==
    /\ pc = "pad" /\ x # 0
    /\ Shift(0)
    /\ x' = x - 1
    /\ UNCHANGED <<pc, rest, packet, y, newest>>
    /\ PioAside

(* The number of padding bytes completes the block.                        *)
PushCount ==
    /\ pc = "pad" /\ x = 0
    /\ Shift(y % 256)
    /\ pc' = "preamble"
    /\ newest' = IF packet # <<>> /\ Decode(packet) # IdlePacket
                 THEN Decode(packet).value ELSE newest
    /\ packet' = <<>>
    /\ UNCHANGED <<rest, x, y>>
    /\ PioAside

Pio == ReadByte \/ Overrun \/ Pad \/ PushCount

-----------------------------------------------------------------------------
(* PioDccDecoder::read: a DMA transfer of two words.                       *)
DmaPull ==
    /\ Len(buff) < 8 /\ fifo # <<>>
    /\ buff' = buff \o Head(fifo)
    /\ fifo' = Tail(fifo)
    /\ UNCHANGED <<pioVars, PACKET_CHANNEL, handled, last_command>>

(* Mutant: a full channel keeps what it has.                               *)
PublishIfRoom(data) ==
    IF Len(PACKET_CHANNEL) < ChannelCapacity
    THEN Append(PACKET_CHANNEL, data)
    ELSE PACKET_CHANNEL

(* publish_immediate(): a full channel loses its oldest packet.            *)
Publish(data) ==
    IF Len(PACKET_CHANNEL) < ChannelCapacity
    THEN Append(PACKET_CHANNEL, data)
    ELSE Append(Tail(PACKET_CHANNEL), data)

(* Mutant: the checksum is cut off and not looked at.                      *)
ReadUnchecked ==
    /\ Len(buff) = 8
    /\ LET raw == Received(buff)
       IN  PACKET_CHANNEL' = IF Len(raw) \in 3 .. 6 /\ raw[1] # 255
                             THEN Publish(SubSeq(raw, 1, Len(raw) - 1))
                             ELSE PACKET_CHANNEL
    /\ buff' = <<>>
    /\ UNCHANGED <<pioVars, fifo, handled, last_command>>

(* packet_decoder: Decoder::read skips what is idle or invalid.            *)
ReadPacket ==
    /\ Len(buff) = 8
    /\ LET raw == Received(buff)
       IN  PACKET_CHANNEL' = IF Taken(raw) THEN Publish(Decode(raw).value)
                             ELSE PACKET_CHANNEL
    /\ buff' = <<>>
    /\ UNCHANGED <<pioVars, fifo, handled, last_command>>

(* Handler::handle outside of the service mode window.                     *)
OperationOf(data) ==
    LET parsed == ParseInstruction(data)
    IN  IF IsResetPacket(data) THEN Some(ResetOp)
        ELSE IF (IsRecipient(data, CvStore) \/ IsBroadcast(data)) /\ IsOk(parsed)
        THEN Some(parsed.value)
        ELSE None

(* Mutant: the handler takes the newest packet of the channel.             *)
HandleNewest ==
    /\ PACKET_CHANNEL # <<>>
    /\ handled' = Last(PACKET_CHANNEL)
    /\ PACKET_CHANNEL' = Front(PACKET_CHANNEL)
    /\ last_command' = IF OperationOf(handled') = None THEN last_command
                       ELSE OperationOf(handled')
    /\ UNCHANGED <<pioVars, fifo, buff>>

HandlePacket ==
    /\ PACKET_CHANNEL # <<>>
    /\ handled' = Head(PACKET_CHANNEL)
    /\ PACKET_CHANNEL' = Tail(PACKET_CHANNEL)
    /\ last_command' = IF OperationOf(handled') = None THEN last_command
                       ELSE OperationOf(handled')
    /\ UNCHANGED <<pioVars, fifo, buff>>

Next ==
    \/ \E raw \in Track \union Noise : PacketStarts(raw)
    \/ Pio
    \/ DmaPull
    \/ ReadPacket
    \/ HandlePacket

(* The hardware runs, the two tasks are polled when they are woken; packets*)
(* come when the track sends them.                                         *)
Fairness ==
    /\ WF_vars(Pio)
    /\ WF_vars(DmaPull)
    /\ WF_vars(ReadPacket)
    /\ WF_vars(HandlePacket)

Spec == Init /\ [][Next]_vars /\ Fairness

-----------------------------------------------------------------------------
(* Bytes on their way from the PIO to the reader.                          *)
InFlight == Len(isr) + 4 * Len(fifo) + Len(buff)

(* Blocks stay aligned: between two packets whole blocks are in flight,    *)
(* whatever the lengths of the packets, the wrapped ones included, and     *)
(* wherever the FIFO was full. A single byte too many or too few would     *)
(* shift every later packet (dcc_decoder.pio:42-97, pio_decoder.rs:89-97). *)
BlocksAligned == pc = "preamble" => InFlight % 8 = 0

(* No packet is made up of the bytes of several, or of noise: what is      *)
(* handled was on the track. It takes the alignment, the recovered length  *)
(* and the checksum.                                                       *)
HandledWasSent == handled # <<>> => \E raw \in Track : Decode(raw) = Ok(handled)

(* Nothing is under way.                                                   *)
Drained ==
    /\ pc = "preamble"
    /\ InFlight = 0
    /\ PACKET_CHANNEL = <<>>

(* Packets are lost in overruns and in the full channel, but never the one *)
(* received last: packet_handler ends with it, not with an older one       *)
(* (main.rs:136).                                                          *)
NewestSurvives == Drained => handled = newest

(* A packet received in whole is handled, unless another follows, whatever *)
(* noise comes in between.                                                 *)
NewestIsHandled ==
    \A raw \in Track :
        newest # <<>> /\ Ok(newest) = Decode(raw)
            ~> Ok(handled) = Decode(raw) \/ Ok(newest) # Decode(raw)

(* The bytes in flight as one stream: the reader's buffer, the words of    *)
(* the FIFO and the ISR. Byte k of it, counted from the reader:            *)
StreamAt(k) ==
    LET n == k - Len(buff) - 1
    IN  IF k <= Len(buff)         THEN buff[k]
        ELSE IF n < 4 * Len(fifo) THEN fifo[(n \div 4) + 1][(n % 4) + 1]
        ELSE                           isr[n - 4 * Len(fifo) + 1]

Block(b) == [i \in 1 .. 8 |-> StreamAt(8 * b + i)]

(* What block b brings: one packet or none. The set binds the bytes of the *)
(* block, so that TLC computes them once.                                  *)
PacketIn(b) ==
    CHOOSE packets \in {IF Taken(raw) THEN <<Decode(raw).value>> ELSE <<>> :
                            raw \in {Received(Block(b))}} : TRUE

(* The packets on their way: those in the channel and, behind them, those  *)
(* of the complete blocks in the stream.                                   *)
InStream    == [n \in 1 .. InFlight \div 8 |-> PacketIn(n - 1)]
OnTheWay    == PACKET_CHANNEL \o FlattenSeq(InStream)

Delivery == INSTANCE Delivery
    WITH Packets <- {Decode(raw).value : raw \in {r \in Track : Decode(r) # IdlePacket}},
         Newest  <- ChannelCapacity,
         queue   <- OnTheWay

(* Packets are handled in the order of the track, each at most once, and   *)
(* one is lost only while a channel full of newer ones waits. FIFO, buffer *)
(* and channel together are the queue of Delivery (pio_decoder.rs:91,      *)
(* main.rs:120-136).                                                       *)
DeliverySpec == Delivery!Spec

(* The receiver hears again after every packet: a long one (for 2^32 turns *)
(* of the padding loop) or a full FIFO makes it deaf for a time only.      *)
HearsAgain == []<>(pc = "preamble")

=============================================================================
