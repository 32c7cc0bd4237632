--------------------------- MODULE ReceptionProofs ---------------------------
(***************************************************************************)
(* Proof that the blocks between the PIO program and its reader stay       *)
(* aligned, that what is handled was sent and is an operation, and that    *)
(* the newest packet survives: for every set of packets, everything that   *)
(* is garbled, every depth of the FIFO and of the channel and every width  *)
(* of the register x that is a multiple of eight.                          *)
(*                                                                         *)
(* The alignment counts bytes: while a block is under way, those in flight *)
(* and those the program has still to pad leave room for the count byte    *)
(* only. A wrap of x adds a multiple of eight. The rest looks at the bytes *)
(* themselves: those in flight form one stream (StreamAt) whose end is the *)
(* packet under way (UnderWay), whose complete blocks hold packets of the  *)
(* track or are not taken (SentInv), and of which the last one that is     *)
(* taken is the newest packet (NewestInv).                                 *)
(***************************************************************************)
EXTENDS Reception, SequenceTheorems, WellFoundedInduction, TLAPS

(* The part of the types that the count of bytes rests on.                 *)
Buffers ==
    /\ isr \in Seq(Int) /\ Len(isr) < 4
    /\ fifo \in Seq(Seq(Int))
    /\ \A i \in 1 .. Len(fifo) : Len(fifo[i]) = 4
    /\ buff \in Seq(Int) /\ Len(buff) \in {0, 4, 8}

Registers ==
    /\ pc \in {"preamble", "byte", "pad"}
    /\ rest \in Seq(Int)
    /\ pc = "byte" => rest # <<>>
    /\ x \in Nat /\ x < XModulus
    /\ y \in Nat

Aligned ==
    /\ pc = "preamble" => InFlight % 8 = 0
    /\ pc # "preamble" => (InFlight + x) % 8 = 7

AlignInv == Buffers /\ Registers /\ Aligned

-----------------------------------------------------------------------------

LEMMA ByteIsInt == Byte \subseteq Int
  BY DEF Byte

LEMMA BytesAreInts ==
    ASSUME NEW raw \in Seq(Byte)
    PROVE  raw \in Seq(Int)
  BY ByteIsInt, SeqMonotonic

(* What starts or replaces a packet has at least a byte.                   *)
LEMMA PacketsHaveBytes ==
    ASSUME NEW raw \in Track \union Noise
    PROVE  raw \in Seq(Int) /\ raw # <<>>
  <1>1. CASE raw \in Track
    <2>1. raw \in Seq(Byte) /\ IsOk(Decode(raw))
      BY <1>1, ReceptionAssumption DEF ReceptionAssumption
    <2>2. Len(raw) >= 3
      BY <2>1 DEF Decode, IsOk, Err
    <2> QED  BY <2>1, <2>2, BytesAreInts
  <1>2. CASE raw \in Noise
    BY <1>2, ReceptionAssumption, BytesAreInts DEF ReceptionAssumption
  <1> QED  BY <1>1, <1>2

(* Counting x down, with its wrap, and a byte up keeps the sum modulo 8.   *)
LEMMA WrapKeepsAlignment ==
    ASSUME NEW n \in Nat, x \in Nat, x < XModulus, (n + x) % 8 = 7
    PROVE  /\ (x - 1) % XModulus \in Nat
           /\ (x - 1) % XModulus < XModulus
           /\ (n + 1 + ((x - 1) % XModulus)) % 8 = 7
  <1>1. XModulus \in Nat /\ XModulus > 7 /\ XModulus % 8 = 0
    BY RegisterAssumption DEF RegisterAssumption
  <1>2. CASE x = 0
    <2>1. (x - 1) % XModulus = XModulus - 1
      BY <1>1, <1>2
    <2> QED  BY <1>1, <1>2, <2>1
  <1>3. CASE x # 0
    <2>1. (x - 1) % XModulus = x - 1
      BY <1>1, <1>3
    <2> QED  BY <1>1, <1>3, <2>1
  <1> QED  BY <1>2, <1>3

LEMMA InFlightIsCount == Buffers => InFlight \in Nat
  <1> SUFFICES ASSUME Buffers PROVE InFlight \in Nat
    OBVIOUS
  <1>1. Len(isr) \in Nat /\ Len(fifo) \in Nat /\ Len(buff) \in Nat
    BY DEF Buffers
  <1> QED  BY <1>1 DEF InFlight

(* A shift brings one byte more in flight, in the ISR or in the FIFO.      *)
LEMMA ShiftAddsOne ==
    ASSUME Buffers, NEW byte \in Int, Shift(byte), buff' = buff
    PROVE  Buffers' /\ InFlight \in Nat /\ InFlight' = InFlight + 1
  <1>1. CASE Len(isr) < 3
    <2>1. isr' = Append(isr, byte) /\ fifo' = fifo
      BY <1>1 DEF Shift
    <2>2. isr' \in Seq(Int) /\ Len(isr') = Len(isr) + 1
      BY <2>1 DEF Buffers
    <2>3. Buffers'
      BY <1>1, <2>1, <2>2 DEF Buffers
    <2> QED  BY <2>1, <2>2, <2>3, InFlightIsCount DEF InFlight, Buffers
  <1>2. CASE ~ (Len(isr) < 3)
    <2>1. Len(isr) = 3 /\ isr \in Seq(Int)
      <3>1. isr \in Seq(Int) /\ Len(isr) < 4
        BY DEF Buffers
      <3>2. Len(isr) \in Nat
        BY <3>1, LenProperties
      <3>3. \A n \in Nat : n < 4 /\ ~ (n < 3) => n = 3
        OBVIOUS
      <3> QED  BY <1>2, <3>1, <3>2, <3>3, Zenon
    <2> DEFINE word == Append(isr, byte)
    <2>2. word \in Seq(Int) /\ Len(word) = 4
      <3>1. Append(isr, byte) \in Seq(Int) /\ Len(Append(isr, byte)) = Len(isr) + 1
        <4>1. isr \in Seq(Int)
          BY <2>1
        <4> QED  BY <4>1
      <3>2. Len(isr) + 1 = 4
        BY <2>1
      <3> QED  BY <3>1, <3>2
    <2>3. fifo' = Append(fifo, word) /\ isr' = <<>>
      BY <1>2 DEF Shift
    <2> HIDE DEF word
    <2>4. fifo' \in Seq(Seq(Int)) /\ Len(fifo') = Len(fifo) + 1
      BY <2>2, <2>3 DEF Buffers
    <2>5. \A i \in 1 .. Len(fifo') : Len(fifo'[i]) = 4
      BY <2>2, <2>3, <2>4 DEF Buffers
    <2>6. isr' \in Seq(Int) /\ Len(isr') = 0
      BY <2>3
    <2>7. Buffers'
      BY <2>4, <2>5, <2>6 DEF Buffers
    <2> QED  BY <2>1, <2>4, <2>6, <2>7, InFlightIsCount DEF InFlight, Buffers
  <1> QED  BY <1>1, <1>2

-----------------------------------------------------------------------------

LEMMA InitAligned == Init => AlignInv
  <1> SUFFICES ASSUME Init PROVE AlignInv
    OBVIOUS
  <1>1. isr = <<>> /\ fifo = <<>> /\ buff = <<>> /\ x = 0
    BY DEF Init
  <1>2. Buffers /\ InFlight = 0
    BY <1>1 DEF Buffers, InFlight
  <1> QED  BY <1>2, RegisterAssumption DEF Init, AlignInv, Registers, Aligned, RegisterAssumption

LEMMA NextAligned == AlignInv /\ [Next]_vars => AlignInv'
  <1> SUFFICES ASSUME AlignInv, [Next]_vars PROVE AlignInv'
    OBVIOUS
  <1> USE DEF AlignInv
  <1>0. InFlight \in Nat
    BY InFlightIsCount
  <1>1. ASSUME NEW raw \in Track \union Noise, PacketStarts(raw) PROVE AlignInv'
    <2>1. Buffers' /\ InFlight' = InFlight
      BY <1>1 DEF PacketStarts, Buffers, InFlight
    <2>2. Registers'
      BY <1>1, PacketsHaveBytes, RegisterAssumption
      DEF PacketStarts, Registers, RegisterAssumption
    <2>3. Aligned'
      BY <1>0, <1>1, <2>1 DEF PacketStarts, Aligned
    <2> QED  BY <2>1, <2>2, <2>3
  <1>2. ASSUME ReadByte PROVE AlignInv'
    <2>1. pc = "byte" /\ rest \in Seq(Int) /\ rest # <<>>
      BY <1>2 DEF ReadByte, Registers
    <2>2. 255 - Head(rest) \in Int /\ Tail(rest) \in Seq(Int)
      BY <2>1
    <2>3. Buffers' /\ InFlight' = InFlight + 1
      BY <1>2, <2>2, ShiftAddsOne DEF ReadByte, PioAside
    <2>4. (InFlight + x) % 8 = 7
      BY <2>1 DEF Aligned
    <2>5. x' \in Nat /\ x' < XModulus /\ (InFlight + 1 + x') % 8 = 7
      BY <1>0, <1>2, <2>4, WrapKeepsAlignment DEF ReadByte, Registers
    <2>6. Registers'
      BY <1>2, <2>1, <2>2, <2>5 DEF ReadByte, Registers
    <2>7. pc' # "preamble"
      BY <1>2, <2>1 DEF ReadByte
    <2>8. Aligned'
      BY <2>3, <2>5, <2>7 DEF Aligned
    <2> QED  BY <2>3, <2>6, <2>8
  <1>3. ASSUME Overrun PROVE AlignInv'
    <2>1. Buffers' /\ InFlight' = InFlight
      BY <1>3 DEF Overrun, PioAside, Buffers, InFlight
    <2>2. Registers'
      BY <1>3, PacketsHaveBytes DEF Overrun, Registers
    <2>3. Aligned'
      BY <1>3, <2>1 DEF Overrun, Aligned
    <2> QED  BY <2>1, <2>2, <2>3
  <1>4. ASSUME Pad PROVE AlignInv'
    <2>1. Buffers' /\ InFlight' = InFlight + 1
      BY <1>4, ShiftAddsOne DEF Pad, PioAside
    <2>2. Registers'
      <3>1. UNCHANGED <<pc, rest, y>> /\ pc = "pad" /\ x # 0 /\ x' = x - 1
        BY <1>4 DEF Pad
      <3>2. x' \in Nat /\ x' < XModulus
        BY <3>1, RegisterAssumption DEF Registers, RegisterAssumption
      <3> QED  BY <3>1, <3>2 DEF Registers
    <2>3. x \in Nat /\ x # 0 /\ x' = x - 1 /\ pc' = "pad"
      BY <1>4 DEF Pad, Registers
    <2>4. (InFlight + x) % 8 = 7
      BY <1>4 DEF Pad, Aligned
    <2>5. InFlight' + x' = InFlight + x
      BY <1>0, <2>1, <2>3
    <2>6. Aligned'
      BY <2>3, <2>4, <2>5 DEF Aligned
    <2> QED  BY <2>1, <2>2, <2>6
  <1>5. ASSUME PushCount PROVE AlignInv'
    <2>1. y % 256 \in Int
      BY DEF Registers
    <2>2. Buffers' /\ InFlight' = InFlight + 1
      BY <1>5, <2>1, ShiftAddsOne DEF PushCount, PioAside
    <2>3. Registers'
      BY <1>5 DEF PushCount, Registers
    <2>4. Aligned'
      BY <1>0, <1>5, <2>2 DEF PushCount, Aligned
    <2> QED  BY <2>2, <2>3, <2>4
  <1>6. ASSUME DmaPull PROVE AlignInv'
    <2>1. fifo \in Seq(Seq(Int)) /\ fifo # <<>> /\ Len(Head(fifo)) = 4
      BY <1>6 DEF DmaPull, Buffers
    <2>2. Head(fifo) \in Seq(Int)
      BY <2>1
    <2>3. buff' \in Seq(Int) /\ Len(buff') = Len(buff) + 4
      <3>1. buff \in Seq(Int) /\ buff' = buff \o Head(fifo)
        BY <1>6 DEF DmaPull, Buffers
      <3>2. \A s, t \in Seq(Int) : s \o t \in Seq(Int) /\ Len(s \o t) = Len(s) + Len(t)
        OBVIOUS
      <3> QED  BY <2>1, <2>2, <3>1, <3>2
    <2>4. Len(buff') \in {0, 4, 8}
      <3>1. Len(buff) = 0 \/ Len(buff) = 4
        <4>1. Len(buff) < 8
          BY <1>6 DEF DmaPull
        <4>2. Len(buff) = 0 \/ Len(buff) = 4 \/ Len(buff) = 8
          BY DEF Buffers
        <4>3. ~ (8 < 8)
          OBVIOUS
        <4> QED  BY <4>1, <4>2, <4>3, Zenon
      <3>2. CASE Len(buff) = 0
        <4>1. Len(buff') = 0 + 4
          BY <2>3, <3>2, Zenon
        <4> QED  BY <4>1
      <3>3. CASE Len(buff) = 4
        <4>1. Len(buff') = 4 + 4
          BY <2>3, <3>3, Zenon
        <4> QED  BY <4>1
      <3> QED  BY <3>1, <3>2, <3>3
    <2>5. fifo' \in Seq(Seq(Int)) /\ Len(fifo') = Len(fifo) - 1
      BY <1>6, <2>1 DEF DmaPull
    <2>6. \A i \in 1 .. Len(fifo') : Len(fifo'[i]) = 4
      BY <1>6, <2>1, <2>5 DEF DmaPull, Buffers
    <2>7. isr' = isr /\ UNCHANGED pioVars
      BY <1>6 DEF DmaPull, pioVars
    <2>8. Buffers'
      BY <2>3, <2>4, <2>5, <2>6, <2>7 DEF Buffers
    <2>9. InFlight' = InFlight
      BY <2>1, <2>3, <2>5, <2>7 DEF Buffers, InFlight
    <2> QED  BY <2>7, <2>8, <2>9 DEF Registers, Aligned, pioVars
  <1>7. ASSUME ReadPacket PROVE AlignInv'
    <2>1. buff' = <<>> /\ fifo' = fifo /\ UNCHANGED pioVars /\ Len(buff) = 8
      BY <1>7 DEF ReadPacket
    <2>2. Buffers'
      BY <2>1 DEF Buffers, pioVars
    <2>3. InFlight' = InFlight - 8
      BY <2>1 DEF Buffers, InFlight, pioVars
    <2> QED  BY <1>0, <2>1, <2>2, <2>3 DEF Registers, Aligned, pioVars
  <1>8. ASSUME HandlePacket \/ UNCHANGED vars PROVE AlignInv'
    <2>1. UNCHANGED <<pc, rest, x, y, isr, fifo, buff>>
      BY <1>8 DEF HandlePacket, vars, pioVars
    <2> QED  BY <2>1 DEF Buffers, Registers, Aligned, InFlight
  <1> QED  BY <1>1, <1>2, <1>3, <1>4, <1>5, <1>6, <1>7, <1>8 DEF Next, Pio

(* Between two packets whole blocks are in flight (dcc_decoder.pio:42-97,  *)
(* pio_decoder.rs:89-97): neither a packet of any length, nor a wrap of x, *)
(* nor a full FIFO shifts what is received later by a byte.                *)
THEOREM BlocksStayAligned == Spec => []BlocksAligned
  <1>1. AlignInv => BlocksAligned
    BY DEF AlignInv, Aligned, BlocksAligned
  <1> QED  BY <1>1, InitAligned, NextAligned, PTL DEF Spec

-----------------------------------------------------------------------------
(* The packet under way is s: Got(s) bytes of it have been received and    *)
(* Shifted(s) bytes put into the stream, padding included. Those that do   *)
(* not fill a block yet are the end of the stream. After the last byte x   *)
(* counts down from y.                                                     *)
Got(s)     == Len(s) - Len(rest)
Shifted(s) == Got(s) + (IF pc = "pad" THEN y - x ELSE 0)
Open(s)    == Shifted(s) % 8

CountDown(n) == IF n <= 7 THEN 7 - n ELSE XModulus + 7 - n

UnderWay(s) ==
    /\ IF packet # <<>> THEN s = packet ELSE s \in Garbled
    /\ Len(rest) <= Len(s)
    /\ \A i \in 1 .. Len(rest) : rest[i] = s[Got(s) + i]
    /\ pc = "byte" => x = CountDown(Got(s))
    /\ pc = "pad" => rest = <<>> /\ y = CountDown(Got(s)) /\ x <= y
    /\ InFlight % 8 = Open(s)
    /\ \A i \in 1 .. Open(s) :
          StreamAt(InFlight - Open(s) + i) =
              IF Shifted(s) - Open(s) + i <= Got(s)
              THEN 255 - s[Shifted(s) - Open(s) + i] ELSE 0

PacketInv == pc # "preamble" => \E s \in Track \union Garbled : UnderWay(s)

(* The blocks that are complete, and what the reader makes of block b.     *)
Blocks == 0 .. InFlight \div 8 - 1

BlockTaken(b) == Taken(Received(Block(b)))
BlockData(b)  == Decode(Received(Block(b))).value

Sent(data) == \E raw \in Track : Decode(raw) = Ok(data)

(* What the reader will take was sent, and so was what it has published.   *)
SentInv ==
    /\ \A b \in Blocks : BlockTaken(b) => Sent(BlockData(b))
    /\ \A i \in 1 .. Len(PACKET_CHANNEL) : Sent(PACKET_CHANNEL[i])
    /\ handled # <<>> => Sent(handled)

(* The newest packet is the last block that will be taken, or else the last*)
(* one in the channel, or else the one handled last.                       *)
NewestInv ==
    \/ \E b \in Blocks :
          /\ BlockTaken(b) /\ BlockData(b) = newest
          /\ \A c \in Blocks : c > b => ~ BlockTaken(c)
    \/ /\ \A b \in Blocks : ~ BlockTaken(b)
       /\ IF PACKET_CHANNEL # <<>>
          THEN PACKET_CHANNEL[Len(PACKET_CHANNEL)] = newest
          ELSE handled = newest

-----------------------------------------------------------------------------
(* The stream grows at its end, by a byte at a time.                       *)
LEMMA ShiftExtendsStream ==
    ASSUME Buffers, NEW byte \in Int, Shift(byte), buff' = buff
    PROVE  /\ \A k \in 1 .. InFlight : StreamAt(k)' = StreamAt(k)
           /\ \A k : k = InFlight + 1 => StreamAt(k)' = byte
  <1> DEFINE I == Len(isr)
             F == Len(fifo)
             B == Len(buff)
  <1>0. isr \in Seq(Int) /\ fifo \in Seq(Seq(Int)) /\ buff \in Seq(Int)
    BY DEF Buffers
  <1>1. I \in Nat /\ F \in Nat /\ B \in Nat /\ I < 4
    BY <1>0 DEF Buffers
  <1>2. InFlight = I + 4 * F + B
    BY DEF InFlight
  <1>3. ASSUME NEW k
        PROVE  StreamAt(k) = IF k <= B THEN buff[k]
                             ELSE IF k - B - 1 < 4 * F
                             THEN fifo[((k - B - 1) \div 4) + 1][((k - B - 1) % 4) + 1]
                             ELSE isr[(k - B - 1) - 4 * F + 1]
    BY DEF StreamAt
  <1>4. CASE I < 3
    <2>1. isr' = Append(isr, byte) /\ fifo' = fifo
      BY <1>4 DEF Shift
    <2>2. /\ \A i \in 1 .. I : isr'[i] = isr[i]
          /\ isr'[I + 1] = byte
      BY <1>0, <2>1
    <2>3. ASSUME NEW k
          PROVE  StreamAt(k)' = IF k <= B THEN buff[k]
                                ELSE IF k - B - 1 < 4 * F
                                THEN fifo[((k - B - 1) \div 4) + 1][((k - B - 1) % 4) + 1]
                                ELSE isr'[(k - B - 1) - 4 * F + 1]
      BY <2>1 DEF StreamAt
    <2> HIDE DEF I, F, B
    <2>4. ASSUME NEW k \in 1 .. InFlight PROVE StreamAt(k)' = StreamAt(k)
      <3>1. ~ (k <= B) /\ ~ (k - B - 1 < 4 * F) => (k - B - 1) - 4 * F + 1 \in 1 .. I
        BY <1>1, <1>2
      <3> QED  BY <1>3, <2>2, <2>3, <3>1
    <2>5. ASSUME NEW k, k = InFlight + 1 PROVE StreamAt(k)' = byte
      <3>1. ~ (k <= B) /\ ~ (k - B - 1 < 4 * F) /\ (k - B - 1) - 4 * F + 1 = I + 1
        BY <1>1, <1>2, <2>5
      <3> QED  BY <2>2, <2>3, <3>1
    <2> QED  BY <2>4, <2>5
  <1>5. CASE ~ (I < 3)
    <2> DEFINE word == Append(isr, byte)
    <2>1. fifo' = Append(fifo, word)
      BY <1>5 DEF Shift
    <2>2. word \in Seq(Int) /\ word[I + 1] = byte /\ \A i \in 1 .. I : word[i] = isr[i]
      BY <1>0
    <2> HIDE DEF word
    <2>3. /\ Len(fifo') = F + 1
          /\ \A i \in 1 .. F : fifo'[i] = fifo[i]
          /\ fifo'[F + 1] = word
      BY <1>0, <2>1, <2>2
    <2>4. ASSUME NEW k
          PROVE  StreamAt(k)' = IF k <= B THEN buff[k]
                                ELSE IF k - B - 1 < 4 * (F + 1)
                                THEN fifo'[((k - B - 1) \div 4) + 1][((k - B - 1) % 4) + 1]
                                ELSE isr'[(k - B - 1) - 4 * (F + 1) + 1]
      BY <2>3 DEF StreamAt
    <2> HIDE DEF I, F, B
    <2>5. I = 3
      BY <1>1, <1>5
    <2>6. ASSUME NEW k \in 1 .. InFlight PROVE StreamAt(k)' = StreamAt(k)
      <3> DEFINE n == k - B - 1
      <3>1. n \in Int /\ n < 4 * F + 3
        BY <1>1, <1>2, <2>5
      <3>2. CASE k <= B
        BY <1>3, <2>4, <3>2
      <3>3. CASE ~ (k <= B) /\ n < 4 * F
        <4>1. n \in Nat
          BY <1>1, <3>3
        <4> HIDE DEF n
        <4>2. (n \div 4) + 1 \in 1 .. F /\ n < 4 * (F + 1)
          BY <1>1, <3>3, <4>1
        <4> QED  BY <1>3, <2>3, <2>4, <3>3, <4>2 DEF n
      <3>4. CASE ~ (k <= B) /\ ~ (n < 4 * F)
        <4> HIDE DEF n
        <4>1. PICK j \in {0, 1, 2} : n = 4 * F + j
          BY <1>1, <3>1, <3>4
        <4>2. n \div 4 = F /\ n % 4 = j /\ n < 4 * (F + 1) /\ n - 4 * F = j
          BY <1>1, <4>1
        <4>3. j + 1 \in 1 .. I
          BY <2>5
        <4>4. StreamAt(k)' = word[j + 1]
          BY <2>3, <2>4, <3>4, <4>2 DEF n
        <4>5. StreamAt(k) = isr[j + 1]
          BY <1>3, <3>4, <4>2 DEF n
        <4> QED  BY <2>2, <4>3, <4>4, <4>5
      <3> QED  BY <3>2, <3>3, <3>4
    <2>7. ASSUME NEW k, k = InFlight + 1 PROVE StreamAt(k)' = byte
      <3> DEFINE n == k - B - 1
      <3>1. n = 4 * F + 3 /\ ~ (k <= B)
        BY <1>1, <1>2, <2>5, <2>7
      <3> HIDE DEF n
      <3>2. n \div 4 = F /\ n % 4 = 3 /\ n < 4 * (F + 1)
        BY <1>1, <3>1
      <3>3. StreamAt(k)' = word[I + 1]
        BY <2>3, <2>4, <2>5, <3>1, <3>2 DEF n
      <3> QED  BY <2>2, <3>3
    <2> QED  BY <2>6, <2>7
  <1> QED  BY <1>4, <1>5

(* A transfer of a word moves it within the stream.                        *)
LEMMA PullKeepsStream ==
    ASSUME Buffers, DmaPull
    PROVE  InFlight' = InFlight /\ \A k \in 1 .. InFlight : StreamAt(k)' = StreamAt(k)
  <1>0. /\ Len(isr) \in Nat /\ Len(fifo) \in Nat /\ Len(buff) \in Nat
        /\ buff \in Seq(Int) /\ fifo \in Seq(Seq(Int)) /\ fifo # <<>>
        /\ InFlight = Len(isr) + 4 * Len(fifo) + Len(buff)
        /\ isr' = isr /\ buff' = buff \o Head(fifo) /\ fifo' = Tail(fifo)
    BY DEF Buffers, InFlight, DmaPull, pioVars
  <1>1. Head(fifo) \in Seq(Int) /\ Len(Head(fifo)) = 4 /\ Head(fifo) = fifo[1]
    BY <1>0 DEF Buffers
  <1>2. /\ Len(fifo') = Len(fifo) - 1
        /\ \A i \in 1 .. Len(fifo) - 1 : fifo'[i] = fifo[i + 1]
    BY <1>0
  <1>3. /\ Len(buff') = Len(buff) + 4
        /\ \A i \in 1 .. Len(buff) : buff'[i] = buff[i]
        /\ \A i \in 1 .. 4 : buff'[Len(buff) + i] = fifo[1][i]
    <2> DEFINE w == Head(fifo)
    <2>1. buff \in Seq(Int) /\ w \in Seq(Int) /\ Len(w) = 4 /\ buff' = buff \o w /\ w = fifo[1]
      BY <1>0, <1>1
    <2> HIDE DEF w
    <2>2. /\ Len(buff \o w) = Len(buff) + Len(w)
          /\ \A i \in 1 .. Len(buff) + Len(w) :
                (buff \o w)[i] = IF i <= Len(buff) THEN buff[i] ELSE w[i - Len(buff)]
      BY <2>1, ConcatProperties, Zenon
    <2> DEFINE B == Len(buff)
    <2>3. B \in Nat
      BY <1>0
    <2>4. /\ Len(buff') = B + 4
          /\ \A i \in 1 .. B + 4 : buff'[i] = IF i <= B THEN buff[i] ELSE w[i - B]
      BY <2>1, <2>2
    <2> HIDE DEF B
    <2>5. \A i \in 1 .. B : buff'[i] = buff[i]
      BY <2>3, <2>4
    <2>6. ASSUME NEW i \in 1 .. 4 PROVE buff'[B + i] = w[i]
      <3>1. B + i \in 1 .. B + 4 /\ ~ (B + i <= B) /\ (B + i) - B = i
        BY <2>3
      <3> QED  BY <2>4, <3>1
    <2> QED  BY <2>1, <2>4, <2>5, <2>6 DEF B
  <1>4. InFlight' = InFlight
    <2>1. Len(buff') = Len(buff) + 4 /\ Len(fifo') = Len(fifo) - 1
      BY <1>2, <1>3
    <2>2. isr' = isr
      BY <1>0
    <2>3. Len(isr) \in Nat /\ Len(fifo) \in Nat /\ Len(buff) \in Nat
      BY <1>0
    <2> QED  BY <2>1, <2>2, <2>3 DEF InFlight
  <1>5. ASSUME NEW k \in 1 .. InFlight PROVE StreamAt(k)' = StreamAt(k)
    <2> DEFINE n == k - Len(buff) - 1
    <2>1. CASE k <= Len(buff)
      <3>1. k \in 1 .. Len(buff) /\ k <= Len(buff')
        <4>1. k \in Int /\ k >= 1 /\ Len(buff) \in Nat /\ Len(buff') = Len(buff) + 4
          BY <1>0, <1>3
        <4> QED  BY <2>1, <4>1
      <3>2. buff'[k] = buff[k]
        BY <1>3, <3>1
      <3> QED  BY <2>1, <3>1, <3>2 DEF StreamAt
    <2>2. CASE ~ (k <= Len(buff)) /\ k <= Len(buff) + 4
      <3>1. n \in {0, 1, 2, 3}
        <4>1. k \in Int /\ Len(buff) \in Nat
          BY <1>0
        <4> QED  BY <2>2, <4>1
      <3>2. n < 4 * Len(fifo) /\ k = Len(buff) + (n + 1)
        <4>1. Len(fifo) \in Nat /\ Len(fifo) > 0 /\ k \in Int /\ Len(buff) \in Nat
          BY <1>0
        <4> QED  BY <3>1, <4>1
      <3> HIDE DEF n
      <3>3. n \div 4 = 0 /\ n % 4 = n /\ n + 1 \in 1 .. 4
        BY <3>1
      <3>4. buff'[k] = fifo[1][n + 1]
        BY <1>3, <3>2, <3>3
      <3>5. k <= Len(buff')
        BY <1>0, <1>3, <2>2
      <3>6. StreamAt(k)' = fifo[1][n + 1]
        BY <3>4, <3>5 DEF StreamAt
      <3>7. StreamAt(k) = fifo[1][n + 1]
        BY <2>2, <3>2, <3>3 DEF StreamAt, n
      <3> QED  BY <3>6, <3>7
    <2>3. CASE ~ (k <= Len(buff) + 4)
      <3> DEFINE m == k - Len(buff') - 1
      <3>0. Len(buff') = Len(buff) + 4 /\ Len(fifo') = Len(fifo) - 1 /\ Len(fifo) \in Nat
        BY <1>0, <1>2, <1>3
      <3>1. m = n - 4 /\ n \in Nat /\ m \in Nat /\ ~ (k <= Len(buff)) /\ ~ (k <= Len(buff'))
        <4>1. k \in Int /\ Len(buff) \in Nat
          BY <1>0
        <4> QED  BY <2>3, <3>0, <4>1
      <3> HIDE DEF n, m
      <3>2. CASE n < 4 * Len(fifo)
        <4>1. m < 4 * Len(fifo')
          BY <3>0, <3>1, <3>2
        <4>2. m % 4 = n % 4 /\ (m \div 4) + 1 = n \div 4
          BY <3>1
        <4>3. (m \div 4) + 1 \in 1 .. Len(fifo) - 1
          BY <3>0, <3>1, <4>1
        <4>4. fifo'[(m \div 4) + 1] = fifo[(n \div 4) + 1]
          BY <1>2, <4>2, <4>3
        <4> QED  BY <3>1, <3>2, <4>1, <4>2, <4>4 DEF StreamAt, n, m
      <3>3. CASE ~ (n < 4 * Len(fifo))
        <4>1. ~ (m < 4 * Len(fifo')) /\ m - 4 * Len(fifo') = n - 4 * Len(fifo)
          BY <3>0, <3>1, <3>3
        <4> QED  BY <1>0, <3>1, <3>3, <4>1 DEF StreamAt, n, m
      <3> QED  BY <3>2, <3>3
    <2> QED  BY <1>0, <2>1, <2>2, <2>3
  <1> QED  BY <1>4, <1>5

(* The reader takes the first block off the stream.                        *)
LEMMA ReadTakesBlock ==
    ASSUME Buffers, Len(buff) = 8, buff' = <<>>, isr' = isr, fifo' = fifo
    PROVE  /\ InFlight' = InFlight - 8
           /\ Block(0) = buff
           /\ \A k \in 1 .. InFlight - 8 : StreamAt(k)' = StreamAt(k + 8)
  <1>0. /\ Len(isr) \in Nat /\ Len(fifo) \in Nat /\ Len(buff') = 0
        /\ buff \in Seq(Int)
        /\ InFlight = Len(isr) + 4 * Len(fifo) + 8
    BY DEF Buffers, InFlight
  <1>1. InFlight' = InFlight - 8
    BY <1>0 DEF InFlight
  <1>2. \A i \in 1 .. 8 : StreamAt(8 * 0 + i) = buff[i]
    BY DEF StreamAt
  <1>3. buff = [i \in 1 .. 8 |-> buff[i]]
    BY <1>0
  <1>4. Block(0) = buff
    <2>1. Block(0) = [i \in 1 .. 8 |-> buff[i]]
      BY <1>2 DEF Block
    <2> QED  BY <1>3, <2>1
  <1>5. ASSUME NEW k \in 1 .. InFlight - 8 PROVE StreamAt(k)' = StreamAt(k + 8)
    <2>1. /\ k \in Nat /\ k > 0
          /\ k - Len(buff') - 1 = k - 1
          /\ ~ (k <= Len(buff'))
      BY <1>0
    <2>2. /\ (k + 8) - Len(buff) - 1 = k - 1
          /\ ~ (k + 8 <= Len(buff))
      BY <2>1
    <2>3. StreamAt(k)' = IF k - 1 < 4 * Len(fifo) THEN fifo[((k - 1) \div 4) + 1][((k - 1) % 4) + 1]
                         ELSE isr[(k - 1) - 4 * Len(fifo) + 1]
      BY <2>1 DEF StreamAt
    <2> HIDE DEF StreamAt
    <2>4. StreamAt(k + 8) = IF k - 1 < 4 * Len(fifo) THEN fifo[((k - 1) \div 4) + 1][((k - 1) % 4) + 1]
                            ELSE isr[(k - 1) - 4 * Len(fifo) + 1]
      BY <2>2 DEF StreamAt
    <2> QED  BY <2>3, <2>4
  <1> QED  BY <1>1, <1>4, <1>5

-----------------------------------------------------------------------------
(* Blocks. A shift leaves those that are complete and completes one when it*)
(* is the eighth.                                                          *)
LEMMA BlockInStream ==
    ASSUME InFlight \in Nat, NEW b \in Blocks, NEW i \in 1 .. 8
    PROVE  8 * b + i \in 1 .. InFlight
  <1> DEFINE n == InFlight
  <1>1. n \in Nat /\ b \in 0 .. (n \div 8) - 1
    BY DEF Blocks
  <1> HIDE DEF n
  <1>2. 8 * b + i \in 1 .. n
    BY <1>1
  <1> QED  BY <1>2 DEF n

LEMMA ShiftKeepsBlocks ==
    ASSUME Buffers, NEW byte \in Int, Shift(byte), buff' = buff
    PROVE  /\ Blocks \subseteq Blocks'
           /\ \A b \in Blocks : Block(b)' = Block(b)
           /\ InFlight % 8 # 7 => Blocks' = Blocks
           /\ InFlight % 8 = 7 =>
                 \E b \in Blocks' :
                    /\ Blocks' = Blocks \union {b}
                    /\ \A c \in Blocks : c < b
                    /\ Block(b)' = [i \in 1 .. 8 |-> IF i = 8 THEN byte
                                                    ELSE StreamAt(InFlight - 7 + i)]
  <1>1. PICK n \in Nat : InFlight = n /\ InFlight' = n + 1
    BY ShiftAddsOne
  <1>2. Blocks = 0 .. (n \div 8) - 1 /\ Blocks' = 0 .. ((n + 1) \div 8) - 1
    BY <1>1 DEF Blocks
  <1>3. ASSUME NEW c \in Blocks PROVE Block(c)' = Block(c)
    <2>1. \A i \in 1 .. 8 : StreamAt(8 * c + i)' = StreamAt(8 * c + i)
      BY <1>1, BlockInStream, ShiftExtendsStream
    <2> QED  BY <2>1 DEF Block
  <1>4. CASE n % 8 # 7
    <2>1. (n + 1) \div 8 = n \div 8
      BY <1>4
    <2> QED  BY <1>1, <1>2, <1>3, <1>4, <2>1
  <1>5. CASE n % 8 = 7
    <2>1. PICK b \in Nat : b = n \div 8 /\ (n + 1) \div 8 = b + 1 /\ 8 * b = n - 7
      BY <1>5
    <2>2. Blocks' = Blocks \union {b} /\ b \in Blocks' /\ \A c \in Blocks : c < b
      BY <1>2, <2>1
    <2>3. ASSUME NEW i \in 1 .. 8
          PROVE  StreamAt(8 * b + i)' = IF i = 8 THEN byte ELSE StreamAt(n - 7 + i)
      <3>1. CASE i = 8
        <4>1. 8 * b + i = n + 1
          BY <2>1, <3>1
        <4> QED  BY <1>1, <3>1, <4>1, ShiftExtendsStream
      <3>2. CASE i # 8
        <4>1. 8 * b + i = n - 7 + i /\ n - 7 + i \in 1 .. n
          BY <1>5, <2>1, <3>2
        <4> QED  BY <1>1, <3>2, <4>1, ShiftExtendsStream
      <3> QED  BY <3>1, <3>2
    <2>4. Block(b)' = [i \in 1 .. 8 |-> IF i = 8 THEN byte ELSE StreamAt(n - 7 + i)]
      BY <2>3 DEF Block
    <2> QED  BY <1>1, <1>3, <1>5, <2>2, <2>4
  <1> QED  BY <1>1, <1>4, <1>5

(* A block that ends in a zero was filled to its last byte, and one of     *)
(* padding holds nothing but ones: neither is taken.                       *)
LEMMA FullBlockNotTaken ==
    ASSUME NEW block, block[8] = 0
    PROVE  ~ Taken(Received(block))
  <1>1. Received(block) = [i \in 1 .. 7 |-> 255 - block[i]]
    BY DEF Received
  <1>2. Len(Received(block)) = 7
    BY <1>1
  <1> QED  BY <1>2 DEF Taken, Decode, IsOk, Err

LEMMA PaddingNotTaken ==
    ASSUME NEW block, block[8] \in Nat, \A i \in 1 .. 7 : block[i] = 0
    PROVE  ~ Taken(Received(block))
  <1> DEFINE len == IF block[8] > 7 THEN 0 ELSE 7 - block[8]
             raw == [i \in 1 .. len |-> 255 - block[i]]
  <1>1. Received(block) = raw
    BY DEF Received
  <1>2. len \in 0 .. 7
    OBVIOUS
  <1>3. raw \in Seq(Int) /\ Len(raw) = len
    <2> HIDE DEF len
    <2>1. \A i \in 1 .. len : 255 - block[i] \in Int
      BY <1>2
    <2> QED  BY <1>2, <2>1
  <1>4. CASE len < 3 \/ len > 6
    BY <1>1, <1>3, <1>4 DEF Taken, Decode, IsOk, Err
  <1>5. CASE len >= 3
    <2> HIDE DEF len
    <2>1. raw[1] = 255
      BY <1>2, <1>5
    <2> HIDE DEF raw
    <2>2. Decode(raw) \in {Err("Oversize"), IdlePacket}
      BY <1>2, <1>3, <1>5, <2>1 DEF Decode
    <2> QED  BY <1>1, <2>2 DEF Taken, IsOk, Err
  <1> QED  BY <1>2, <1>4, <1>5

(* The block of a packet of up to seven bytes holds the packet.            *)
LEMMA ShortPacketReceived ==
    ASSUME NEW raw \in Seq(Byte), Len(raw) <= 7, NEW block,
           \A i \in 1 .. Len(raw) : block[i] = 255 - raw[i],
           block[8] = 7 - Len(raw)
    PROVE  Received(block) = raw
  <1>1. Len(raw) \in Nat
    OBVIOUS
  <1>2. Received(block) = [i \in 1 .. Len(raw) |-> 255 - block[i]]
    <2> DEFINE l == Len(raw)
    <2>1. l \in Nat /\ l <= 7 /\ block[8] = 7 - l
      BY <1>1
    <2> HIDE DEF l
    <2>2. (IF block[8] > 7 THEN 0 ELSE 7 - block[8]) = l
      BY <2>1
    <2> QED  BY <2>2 DEF Received, l
  <1>3. \A i \in 1 .. Len(raw) : 255 - block[i] = raw[i]
    <2>1. \A i \in 1 .. Len(raw) : raw[i] \in Int
      BY BytesAreInts
    <2> QED  BY <2>1
  <1>4. raw = [i \in 1 .. Len(raw) |-> raw[i]]
    OBVIOUS
  <1> QED  BY <1>2, <1>3, <1>4

-----------------------------------------------------------------------------
(* The types of all that is received.                                      *)
ByteInv ==
    /\ rest \in Seq(Byte) /\ isr \in Seq(Byte) /\ buff \in Seq(Byte)
    /\ \A i \in 1 .. Len(fifo) : fifo[i] \in Seq(Byte)
    /\ Len(fifo) <= FifoWords
    /\ y < XModulus
    /\ packet \in Track \union {<<>>}

LEMMA GarbledBytes ==
    ASSUME NEW raw \in Garbled
    PROVE  raw \in Seq(Byte) /\ raw # <<>> /\ Len(raw) <= XModulus
  <1>1. CASE raw \in Noise
    BY <1>1, ReceptionAssumption, GarbledAssumption
  <1>2. CASE \E p \in Track, n \in Noise : Len(p) > 3 /\ raw = SubSeq(p, 1, 3) \o n
    <2>1. PICK p \in Track, n \in Noise : Len(p) > 3 /\ raw = SubSeq(p, 1, 3) \o n
      BY <1>2
    <2>2. p \in Seq(Byte) /\ n \in Seq(Byte)
      BY ReceptionAssumption
    <2>3. SubSeq(p, 1, 3) \in Seq(Byte) /\ Len(SubSeq(p, 1, 3)) = 3
      BY <2>1, <2>2
    <2>4. raw \in Seq(Byte) /\ Len(raw) = 3 + Len(n)
      BY <2>1, <2>2, <2>3, ConcatProperties
    <2>5. raw # <<>>
      BY <2>2, <2>4
    <2> QED  BY <2>4, <2>5, GarbledAssumption
  <1> QED  BY <1>1, <1>2 DEF Garbled

LEMMA TrackBytes ==
    ASSUME NEW raw \in Track
    PROVE  /\ raw \in Seq(Byte) /\ raw # <<>> /\ Len(raw) <= 6
           /\ IsOk(Decode(raw)) /\ Len(raw) <= XModulus
  <1>1. raw \in Seq(Byte) /\ Len(raw) <= 6 /\ IsOk(Decode(raw))
    BY ReceptionAssumption
  <1>2. raw # <<>>
    BY PacketsHaveBytes
  <1>3. Len(raw) \in Nat
    BY <1>1
  <1> QED  BY <1>1, <1>2, <1>3, RegisterAssumption

LEMMA ShiftBytes ==
    ASSUME Buffers, ByteInv, NEW byte \in Byte, Shift(byte)
    PROVE  /\ isr' \in Seq(Byte) /\ Len(fifo') <= FifoWords
           /\ \A i \in 1 .. Len(fifo') : fifo'[i] \in Seq(Byte)
  <1>1. CASE Len(isr) < 3
    <2>1. isr' = Append(isr, byte) /\ fifo' = fifo
      BY <1>1 DEF Shift
    <2>2. isr' \in Seq(Byte)
      BY <2>1 DEF ByteInv
    <2> QED  BY <2>1, <2>2 DEF ByteInv
  <1>2. CASE ~ (Len(isr) < 3)
    <2> DEFINE word == Append(isr, byte)
    <2>1. fifo' = Append(fifo, word) /\ isr' = <<>> /\ Len(fifo) < FifoWords
      BY <1>2 DEF Shift
    <2>2. word \in Seq(Byte)
      BY DEF ByteInv
    <2>3. word \in Seq(Int)
      BY <2>2, BytesAreInts
    <2> HIDE DEF word
    <2>4. /\ Len(fifo) \in Nat /\ Len(fifo') = Len(fifo) + 1
          /\ \A i \in 1 .. Len(fifo) : fifo'[i] = fifo[i]
          /\ fifo'[Len(fifo) + 1] = word
      BY <2>1, <2>3 DEF Buffers
    <2>5. \A i \in 1 .. Len(fifo') : fifo'[i] \in Seq(Byte)
      BY <2>2, <2>4 DEF ByteInv
    <2>6. Len(fifo') <= FifoWords
      BY <2>1, <2>4, ReceptionAssumption
    <2> QED  BY <2>1, <2>5, <2>6
  <1> QED  BY <1>1, <1>2

LEMMA ByteStep ==
    ASSUME AlignInv, ByteInv, [Next]_vars
    PROVE  ByteInv'
  <1> USE DEF AlignInv
  <1>1. ASSUME NEW raw \in Track \union Noise, PacketStarts(raw) PROVE ByteInv'
    <2>1. raw \in Seq(Byte)
      BY ReceptionAssumption
    <2>2. packet' \in Track \union {<<>>}
      BY <1>1 DEF PacketStarts
    <2> QED  BY <1>1, <2>1, <2>2 DEF PacketStarts, ByteInv
  <1>2. CASE ReadByte
    <2>1. rest # <<>> /\ rest \in Seq(Byte)
      BY <1>2 DEF ReadByte, Registers, ByteInv
    <2>2. 255 - Head(rest) \in Byte /\ Tail(rest) \in Seq(Byte)
      <3>1. Head(rest) \in Byte /\ Tail(rest) \in Seq(Byte)
        BY <2>1
      <3>2. \A b \in Byte : 255 - b \in Byte
        BY DEF Byte
      <3> QED  BY <3>1, <3>2
    <2>3. Shift(255 - Head(rest)) /\ rest' = Tail(rest) /\ UNCHANGED <<packet, buff>>
      BY <1>2 DEF ReadByte, PioAside
    <2>4. /\ isr' \in Seq(Byte) /\ Len(fifo') <= FifoWords
          /\ \A i \in 1 .. Len(fifo') : fifo'[i] \in Seq(Byte)
      BY <2>2, <2>3, ShiftBytes
    <2>5. y' < XModulus
      <3>1. x' < XModulus
        BY <1>2, NextAligned DEF Next, Pio, Registers
      <3>2. y' = x' \/ y' = y
        BY <1>2 DEF ReadByte
      <3> QED  BY <3>1, <3>2 DEF ByteInv
    <2> QED  BY <2>2, <2>3, <2>4, <2>5 DEF ByteInv
  <1>3. CASE Overrun
    <2>1. rest' \in Seq(Byte)
      BY <1>3, ReceptionAssumption DEF Overrun
    <2> QED  BY <1>3, <2>1 DEF Overrun, PioAside, ByteInv
  <1>4. CASE Pad
    <2>1. 0 \in Byte /\ Shift(0)
      BY <1>4 DEF Pad, Byte
    <2>2. /\ isr' \in Seq(Byte) /\ Len(fifo') <= FifoWords
          /\ \A i \in 1 .. Len(fifo') : fifo'[i] \in Seq(Byte)
      BY <2>1, ShiftBytes
    <2> QED  BY <1>4, <2>2 DEF Pad, PioAside, ByteInv
  <1>5. CASE PushCount
    <2>1. y % 256 \in Byte /\ Shift(y % 256)
      BY <1>5 DEF PushCount, Byte, Registers
    <2>2. /\ isr' \in Seq(Byte) /\ Len(fifo') <= FifoWords
          /\ \A i \in 1 .. Len(fifo') : fifo'[i] \in Seq(Byte)
      BY <2>1, ShiftBytes
    <2> QED  BY <1>5, <2>2 DEF PushCount, PioAside, ByteInv
  <1>6. CASE DmaPull
    <2>1. fifo \in Seq(Seq(Int)) /\ fifo # <<>> /\ Len(fifo) \in Nat /\ FifoWords \in Nat
      BY <1>6, ReceptionAssumption DEF DmaPull, Buffers
    <2>2. Head(fifo) \in Seq(Byte)
      BY <2>1 DEF ByteInv
    <2>3. buff \o Head(fifo) \in Seq(Byte)
      BY <2>2, ConcatProperties DEF ByteInv
    <2>4. Len(Tail(fifo)) = Len(fifo) - 1 /\ \A i \in 1 .. Len(fifo) - 1 : Tail(fifo)[i] = fifo[i + 1]
      BY <2>1
    <2>5. \A i \in 1 .. Len(Tail(fifo)) : Tail(fifo)[i] \in Seq(Byte)
      BY <2>1, <2>4 DEF ByteInv
    <2>6. Len(Tail(fifo)) <= FifoWords
      BY <2>1, <2>4 DEF ByteInv
    <2> QED  BY <1>6, <2>3, <2>5, <2>6 DEF DmaPull, pioVars, ByteInv
  <1>7. CASE ReadPacket
    BY <1>7 DEF ReadPacket, pioVars, ByteInv
  <1>8. CASE HandlePacket \/ UNCHANGED vars
    BY <1>8 DEF HandlePacket, vars, pioVars, ByteInv
  <1> QED  BY <1>1, <1>2, <1>3, <1>4, <1>5, <1>6, <1>7, <1>8 DEF Next, Pio

-----------------------------------------------------------------------------
(* A shift of the byte that is due keeps UnderWay(s).                      *)
LEMMA ShiftGoesOn ==
    ASSUME AlignInv, NEW s, UnderWay(s), NEW byte \in Int, Shift(byte), buff' = buff,
           NEW g \in Nat, Got(s) = g, NEW t \in Nat, Shifted(s) = t,
           Got(s)' \in Nat, g <= Got(s)', g < Got(s)' => t = g,
           Shifted(s)' = t + 1,
           byte = IF t + 1 <= Got(s)' THEN 255 - s[t + 1] ELSE 0
    PROVE  /\ InFlight' % 8 = Open(s)'
           /\ \A i \in 1 .. Open(s)' :
                 StreamAt(InFlight - Open(s) + i)' =
                    IF Shifted(s)' - Open(s)' + i <= Got(s)'
                    THEN 255 - s[Shifted(s)' - Open(s)' + i] ELSE 0
  <1> DEFINE r == t % 8
             h == Got(s)'
  <1>1. PICK n \in Nat : InFlight = n /\ InFlight' = n + 1
    BY ShiftAddsOne DEF AlignInv
  <1>2. r \in 0 .. 7 /\ Open(s) = r /\ n % 8 = r
    BY <1>1 DEF Open, UnderWay
  <1>3. /\ \A k \in 1 .. n : StreamAt(k)' = StreamAt(k)
        /\ \A k : k = n + 1 => StreamAt(k)' = byte
    BY <1>1, ShiftExtendsStream DEF AlignInv
  <1>4. \A i \in 1 .. r : StreamAt(n - r + i) =
            IF t - r + i <= g THEN 255 - s[t - r + i] ELSE 0
    BY <1>1, <1>2 DEF UnderWay
  <1>5. Open(s)' = (t + 1) % 8
    BY DEF Open
  <1> HIDE DEF r, h
  <1>6. CASE r = 7
    <2>1. (t + 1) % 8 = 0 /\ (n + 1) % 8 = 0
      BY <1>2, <1>6 DEF r
    <2> QED  BY <1>1, <1>5, <2>1
  <1>7. CASE r # 7
    <2>1. (t + 1) % 8 = r + 1 /\ (n + 1) % 8 = r + 1
      BY <1>2, <1>7 DEF r
    <2>2. r <= t /\ r <= n
      BY <1>2 DEF r
    <2>3. ASSUME NEW i \in 1 .. r + 1
          PROVE  StreamAt((n + 1) - (r + 1) + i)' =
                     IF (t + 1) - (r + 1) + i <= h THEN 255 - s[(t + 1) - (r + 1) + i] ELSE 0
      <3>1. (n + 1) - (r + 1) + i = n - r + i /\ (t + 1) - (r + 1) + i = t - r + i
        BY <1>2
      <3>2. CASE i \in 1 .. r
        <4>1. n - r + i \in 1 .. n /\ t - r + i <= t /\ t - r + i \in Int
          BY <1>2, <2>2, <3>2
        <4>2. t - r + i <= g <=> t - r + i <= h
          BY <4>1 DEF h
        <4> QED  BY <1>3, <1>4, <3>1, <3>2, <4>1, <4>2
      <3>3. CASE i = r + 1
        <4>1. n - r + i = n + 1 /\ t - r + i = t + 1
          BY <1>2, <3>3
        <4> QED  BY <1>3, <3>1, <4>1 DEF h
      <3> QED  BY <1>2, <3>2, <3>3
    <2>4. Open(s)' = r + 1 /\ InFlight' % 8 = r + 1
      BY <1>1, <1>5, <2>1, Zenon
    <2>5. \A i \in 1 .. Open(s)' :
             StreamAt(InFlight - Open(s) + i)' =
                IF Shifted(s)' - Open(s)' + i <= h
                THEN 255 - s[Shifted(s)' - Open(s)' + i] ELSE 0
      BY <1>1, <2>3, <2>4, ZenonT(30)
    <2> QED  BY <2>4, <2>5, Zenon DEF h
  <1> QED  BY <1>6, <1>7

(* What UnderWay(s) says of s itself.                                      *)
LEMMA UnderWayBytes ==
    ASSUME ByteInv, NEW s, UnderWay(s)
    PROVE  /\ s \in Seq(Byte) /\ Len(s) \in Nat /\ Len(s) <= XModulus
           /\ \A i \in 1 .. Len(s) : s[i] \in Byte
           /\ packet # <<>> => s \in Track /\ Len(s) <= 6
           /\ packet = <<>> => s \in Garbled
           /\ Got(s) \in Nat /\ Got(s) <= Len(s)
  <1>1. packet # <<>> => s \in Track
    BY DEF UnderWay, ByteInv
  <1>2. packet = <<>> => s \in Garbled
    BY DEF UnderWay
  <1>3. s \in Seq(Byte) /\ Len(s) <= XModulus /\ (packet # <<>> => Len(s) <= 6)
    BY <1>1, <1>2, TrackBytes, GarbledBytes
  <1>4. Len(s) \in Nat /\ Len(rest) \in Nat /\ Len(rest) <= Len(s)
    BY <1>3 DEF ByteInv, UnderWay
  <1>5. Got(s) \in Nat /\ Got(s) <= Len(s)
    BY <1>4 DEF Got
  <1> QED  BY <1>1, <1>2, <1>3, <1>4, <1>5

LEMMA PacketStartsUnderWay ==
    ASSUME AlignInv, ByteInv, NEW raw \in Track \union Noise, PacketStarts(raw)
    PROVE  UnderWay(raw)'
  <1>1. /\ pc = "preamble" /\ pc' = "byte" /\ rest' = raw /\ x' = 7
        /\ packet' = IF raw \in Track THEN raw ELSE <<>>
        /\ UNCHANGED <<isr, fifo, buff>>
    BY DEF PacketStarts
  <1>2. raw \in Seq(Int) /\ raw # <<>> /\ Len(raw) \in Nat
    BY PacketsHaveBytes
  <1>3. Got(raw)' = 0 /\ Shifted(raw)' = 0 /\ Open(raw)' = 0
    <2>1. Len(rest') = Len(raw)
      BY <1>1
    <2>2. Got(raw)' = 0
      BY <1>2, <2>1 DEF Got
    <2>3. Shifted(raw)' = 0
      BY <1>1, <2>2 DEF Shifted
    <2> QED  BY <2>2, <2>3 DEF Open
  <1>4. InFlight' % 8 = 0
    <2>1. InFlight' = InFlight
      BY <1>1 DEF InFlight
    <2> QED  BY <1>1, <2>1 DEF AlignInv, Aligned
  <1>5. IF packet' # <<>> THEN raw = packet' ELSE raw \in Garbled
    BY <1>1, <1>2 DEF Garbled
  <1>6. \A i \in 1 .. Len(rest') : rest'[i] = raw[0 + i]
    BY <1>1, <1>2
  <1>7. x' = CountDown(0)
    BY <1>1 DEF CountDown
  <1> QED  BY <1>1, <1>2, <1>3, <1>4, <1>5, <1>6, <1>7 DEF UnderWay

(* The counter of the PIO program: x wraps after eight bytes.              *)
LEMMA CountDownStep ==
    ASSUME NEW n \in Nat, n < XModulus, x = CountDown(n)
    PROVE  (x - 1) % XModulus = CountDown(n + 1)
  <1>1. XModulus \in Nat /\ XModulus > 7
    BY RegisterAssumption
  <1>2. CASE n = 7
    <2>1. x = 0
      BY <1>2 DEF CountDown
    <2>2. (x - 1) % XModulus = XModulus - 1
      BY <1>1, <2>1
    <2> QED  BY <1>1, <1>2, <2>2 DEF CountDown
  <1>3. CASE n # 7
    <2>1. CountDown(n) \in 1 .. XModulus - 1 /\ CountDown(n + 1) = CountDown(n) - 1
      BY <1>1, <1>3 DEF CountDown
    <2>2. x - 1 \in 0 .. XModulus - 1 /\ x - 1 = CountDown(n + 1)
      BY <1>1, <2>1
    <2>3. (x - 1) % XModulus = x - 1
      BY <1>1, <2>2
    <2> QED  BY <2>2, <2>3
  <1> QED  BY <1>2, <1>3

LEMMA ReadByteUnderWay ==
    ASSUME AlignInv, ByteInv, NEW s, UnderWay(s), ReadByte
    PROVE  UnderWay(s)'
  <1>1. /\ pc = "byte" /\ rest \in Seq(Byte) /\ rest # <<>>
        /\ Shift(255 - Head(rest)) /\ buff' = buff
        /\ x' = (x - 1) % XModulus /\ rest' = Tail(rest)
        /\ UNCHANGED packet
        /\ pc' = IF rest' = <<>> THEN "pad" ELSE "byte"
        /\ y' = IF rest' = <<>> THEN x' ELSE y
    BY DEF ReadByte, AlignInv, Registers, PioAside, ByteInv
  <1>2. PICK g \in Nat : Got(s) = g /\ g <= Len(s)
    BY UnderWayBytes
  <1>3. /\ Len(s) \in Nat /\ Len(s) <= XModulus
        /\ \A i \in 1 .. Len(s) : s[i] \in Byte
    BY UnderWayBytes
  <1>4. /\ Len(rest) \in Nat /\ Len(rest) > 0 /\ Len(rest') = Len(rest) - 1
        /\ Head(rest) = rest[1] /\ \A i \in 1 .. Len(rest) - 1 : rest'[i] = rest[i + 1]
    <2>1. Len(rest) \in Nat /\ Len(rest) > 0 /\ Head(rest) = rest[1]
      BY <1>1
    <2>2. /\ Len(Tail(rest)) = Len(rest) - 1
          /\ \A i \in 1 .. Len(rest) - 1 : Tail(rest)[i] = rest[i + 1]
      BY <1>1
    <2> QED  BY <1>1, <2>1, <2>2
  <1>5. g = Len(s) - Len(rest) /\ g < Len(s)
    BY <1>2, <1>3, <1>4 DEF Got
  <1>6. \A i \in 1 .. Len(rest) : rest[i] = s[g + i]
    BY <1>2 DEF UnderWay
  <1>7. Head(rest) = s[g + 1] /\ 255 - Head(rest) \in Int
    <2>1. Head(rest) = s[g + 1]
      BY <1>4, <1>6
    <2>2. s[g + 1] \in Byte
      BY <1>3, <1>5
    <2> QED  BY <2>1, <2>2 DEF Byte
  <1>8. Got(s)' = g + 1
    BY <1>3, <1>4, <1>5 DEF Got
  <1>9. x' = CountDown(g + 1)
    <2>1. x = CountDown(g)
      BY <1>1, <1>2 DEF UnderWay
    <2>2. g < XModulus
      BY <1>3, <1>5, RegisterAssumption
    <2> QED  BY <1>1, <2>1, <2>2, CountDownStep
  <1>10. x' \in Nat
    BY <1>3, <1>5, <1>9, RegisterAssumption DEF CountDown
  <1>11. Shifted(s) = g /\ Shifted(s)' = g + 1
    BY <1>1, <1>2, <1>8, <1>10 DEF Shifted
  <1>12. /\ InFlight' % 8 = Open(s)'
         /\ \A i \in 1 .. Open(s)' :
               StreamAt(InFlight - Open(s) + i)' =
                  IF Shifted(s)' - Open(s)' + i <= Got(s)'
                  THEN 255 - s[Shifted(s)' - Open(s)' + i] ELSE 0
    <2>1. 255 - Head(rest) = IF g + 1 <= Got(s)' THEN 255 - s[g + 1] ELSE 0
      BY <1>7, <1>8
    <2>2. Got(s)' \in Nat /\ g <= Got(s)' /\ (g < Got(s)' => g = g)
      BY <1>8
    <2> QED  BY <1>1, <1>2, <1>7, <1>11, <2>1, <2>2, ShiftGoesOn
  <1>13. \A i \in 1 .. Len(rest') : rest'[i] = s[Got(s)' + i]
    BY <1>4, <1>6, <1>8
  <1>14. IF packet' # <<>> THEN s = packet' ELSE s \in Garbled
    BY <1>1 DEF UnderWay
  <1>15. Len(rest') <= Len(s)
    BY <1>3, <1>4, <1>5
  <1>16. pc' = "byte" => x' = CountDown(Got(s))'
    BY <1>8, <1>9 DEF CountDown
  <1>17. pc' = "pad" => rest' = <<>> /\ y' = CountDown(Got(s))' /\ x' <= y'
    BY <1>1, <1>8, <1>9, <1>10 DEF CountDown
  <1> QED  BY <1>12, <1>13, <1>14, <1>15, <1>16, <1>17 DEF UnderWay

LEMMA PadUnderWay ==
    ASSUME AlignInv, ByteInv, NEW s, UnderWay(s), Pad
    PROVE  UnderWay(s)'
  <1>1. /\ pc = "pad" /\ x # 0 /\ Shift(0) /\ buff' = buff
        /\ x' = x - 1 /\ UNCHANGED <<pc, rest, packet, y>>
    BY DEF Pad, PioAside
  <1>2. x \in Nat /\ y \in Nat /\ x <= y /\ rest = <<>> /\ y = CountDown(Got(s))
    BY <1>1 DEF AlignInv, Registers, UnderWay
  <1>3. PICK g \in Nat : Got(s) = g /\ Got(s)' = g
    BY <1>1, UnderWayBytes DEF Got
  <1>4. PICK t \in Nat : Shifted(s) = t /\ Shifted(s)' = t + 1 /\ t + 1 > g
    <2>1. PICK d \in Nat : y - x = d /\ y' - x' = d + 1
      BY <1>1, <1>2
    <2> QED  BY <1>1, <1>3, <2>1 DEF Shifted
  <1>5. /\ InFlight' % 8 = Open(s)'
        /\ \A i \in 1 .. Open(s)' :
              StreamAt(InFlight - Open(s) + i)' =
                 IF Shifted(s)' - Open(s)' + i <= Got(s)'
                 THEN 255 - s[Shifted(s)' - Open(s)' + i] ELSE 0
    <2>1. ~ (t + 1 <= Got(s)') /\ g <= Got(s)' /\ ~ (g < Got(s)') /\ Got(s)' \in Nat
      BY <1>3, <1>4
    <2> QED  BY <1>1, <1>3, <1>4, <2>1, ShiftGoesOn
  <1>6. x' <= y' /\ y' = CountDown(Got(s))'
    BY <1>1, <1>2, <1>3 DEF CountDown
  <1> QED  BY <1>1, <1>2, <1>3, <1>5, <1>6 DEF UnderWay

(* The FIFO is full at the fourth byte of a packet or not at all: words    *)
(* and blocks are aligned, and a packet of the track has no seventh byte.  *)
LEMMA OverrunUnderWay ==
    ASSUME AlignInv, ByteInv, NEW s, UnderWay(s), Overrun
    PROVE  \E z \in Garbled : UnderWay(z)'
  <1>1. /\ pc = "byte" /\ Len(isr) = 3 /\ packet # <<>> /\ rest # <<>>
        /\ rest' \in Noise /\ packet' = <<>>
        /\ UNCHANGED <<pc, x, y, isr, fifo, buff>>
    BY DEF Overrun, PioAside, AlignInv, Registers
  <1>2. /\ s = packet /\ s \in Track /\ s \in Seq(Byte)
        /\ Len(s) \in Nat /\ Len(s) <= 6
    BY <1>1, UnderWayBytes DEF UnderWay
  <1>3. Got(s) = 3 /\ Len(s) > 3
    <2>1. Len(rest) \in Nat /\ Len(rest) > 0
      BY <1>1 DEF ByteInv
    <2>2. PICK g \in Nat : Got(s) = g /\ g < Len(s)
      BY <1>2, <2>1, UnderWayBytes DEF Got
    <2>3. g % 8 = g /\ Open(s) = g
      BY <1>1, <1>2, <2>2 DEF Open, Shifted
    <2>4. PICK n \in Nat : InFlight = n /\ n % 4 = 3
      <3>1. Len(isr) = 3 /\ Len(fifo) \in Nat /\ Len(buff) \in {0, 4, 8}
        BY <1>1 DEF AlignInv, Buffers
      <3>2. PICK f \in Nat, b \in {0, 4, 8} : InFlight = 3 + 4 * f + b
        BY <3>1 DEF InFlight
      <3>3. (3 + 4 * f + b) % 4 = 3
        BY <3>2
      <3> QED  BY <3>2, <3>3
    <2>5. n % 8 = g
      BY <2>3, <2>4 DEF UnderWay
    <2> QED  BY <1>2, <2>2, <2>4, <2>5
  <1>4. PICK noise \in Noise : rest' = noise
    BY <1>1
  <1> DEFINE z == SubSeq(s, 1, 3) \o noise
  <1>5. z \in Garbled
    BY <1>2, <1>3 DEF Garbled
  <1>6. noise \in Seq(Byte) /\ Len(noise) \in Nat
    BY ReceptionAssumption
  <1>7. /\ Len(z) = 3 + Len(noise)
        /\ \A i \in 1 .. 3 : z[i] = s[i]
        /\ \A i \in 1 .. Len(noise) : z[3 + i] = noise[i]
    <2> DEFINE b == SubSeq(s, 1, 3)
    <2>1. b \in Seq(Byte) /\ Len(b) = 3 /\ \A i \in 1 .. 3 : b[i] = s[i]
      BY <1>2, <1>3
    <2> HIDE DEF b
    <2>2. /\ Len(b \o noise) = 3 + Len(noise)
          /\ \A i \in 1 .. 3 + Len(noise) :
                (b \o noise)[i] = IF i <= 3 THEN b[i] ELSE noise[i - 3]
      <3>1. /\ Len(b \o noise) = Len(b) + Len(noise)
            /\ \A i \in 1 .. Len(b) + Len(noise) :
                  (b \o noise)[i] = IF i <= Len(b) THEN b[i] ELSE noise[i - Len(b)]
        BY <1>6, <2>1, ConcatProperties, Zenon
      <3> QED  BY <2>1, <3>1
    <2>3. \A i \in 1 .. 3 : (b \o noise)[i] = s[i]
      BY <1>6, <2>1, <2>2
    <2>4. \A i \in 1 .. Len(noise) : (b \o noise)[3 + i] = noise[i]
      BY <1>6, <2>2
    <2> QED  BY <2>2, <2>3, <2>4 DEF b
  <1> HIDE DEF z
  <1>8. /\ Shifted(s) = 3 /\ Open(s) = 3
        /\ Got(z)' = 3 /\ Shifted(z)' = 3 /\ Open(z)' = 3
    <2>1. Len(rest') = Len(noise)
      BY <1>4
    <2>2. Got(z)' = 3
      BY <1>6, <1>7, <2>1 DEF Got
    <2> QED  BY <1>1, <1>3, <2>2 DEF Shifted, Open
  <1>9. InFlight' = InFlight /\ \A k : StreamAt(k)' = StreamAt(k)
    BY <1>1 DEF InFlight, StreamAt
  <1>10. x = CountDown(3) /\ InFlight % 8 = 3
    BY <1>1, <1>3, <1>8 DEF UnderWay
  <1>11. \A i \in 1 .. 3 : StreamAt(InFlight - 3 + i) = 255 - s[i]
    <2>1. \A i \in 1 .. 3 : StreamAt(InFlight - 3 + i) =
                  IF 3 - 3 + i <= 3 THEN 255 - s[3 - 3 + i] ELSE 0
      BY <1>3, <1>8 DEF UnderWay
    <2> QED  BY <2>1
  <1>12. \A i \in 1 .. 3 : StreamAt(InFlight - Open(z) + i)' =
            IF 3 - 3 + i <= 3 THEN 255 - z[3 - 3 + i] ELSE 0
    <2>1. PICK n : InFlight = n
      OBVIOUS
    <2>2. ASSUME NEW i \in 1 .. 3
          PROVE  StreamAt(n - 3 + i)' = 255 - z[i]
      BY <1>7, <1>9, <1>11, <2>1
    <2>3. \A i \in 1 .. 3 : 3 - 3 + i = i /\ i <= 3
      OBVIOUS
    <2> QED  BY <1>8, <1>9, <2>1, <2>2, <2>3
  <1>13. UnderWay(z)'
    <2>1. \A i \in 1 .. Len(rest') : rest'[i] = z[3 + i]
      BY <1>4, <1>7
    <2>2. Len(rest') <= Len(z)
      BY <1>4, <1>6, <1>7
    <2> QED
      BY <1>1, <1>5, <1>8, <1>9, <1>10, <1>12, <2>1, <2>2 DEF UnderWay, CountDown
  <1> QED  BY <1>5, <1>13

(* The reader takes whole blocks and so leaves what does not fill one.     *)
LEMMA ReaderUnderWay ==
    ASSUME AlignInv, NEW s, UnderWay(s), UNCHANGED pioVars,
           NEW n \in Nat, InFlight = n, NEW d \in {0, 8}, d <= n,
           InFlight' = n - d,
           \A k \in 1 .. n - d : StreamAt(k)' = StreamAt(k + d)
    PROVE  UnderWay(s)'
  <1>1. Got(s)' = Got(s) /\ Shifted(s)' = Shifted(s) /\ Open(s)' = Open(s)
    BY DEF pioVars, Got, Shifted, Open
  <1>2. PICK r \in 0 .. 7 : Open(s) = r /\ n % 8 = r
    <2>1. n % 8 \in 0 .. 7 /\ Open(s) = n % 8
      BY DEF UnderWay
    <2> QED  BY <2>1
  <1>3. (n - d) % 8 = r /\ r <= n - d
    BY <1>2
  <1>4. ASSUME NEW i \in 1 .. r PROVE StreamAt(n - d - r + i)' = StreamAt(n - r + i)
    <2>1. n - d - r + i \in 1 .. n - d /\ (n - d - r + i) + d = n - r + i
      BY <1>2, <1>3
    <2> QED  BY <2>1
  <1>5. \A i \in 1 .. r : StreamAt(n - r + i) =
            IF Shifted(s) - r + i <= Got(s) THEN 255 - s[Shifted(s) - r + i] ELSE 0
    BY <1>2 DEF UnderWay
  <1>6. \A i \in 1 .. r : StreamAt(InFlight - Open(s) + i)' =
            IF Shifted(s) - r + i <= Got(s) THEN 255 - s[Shifted(s) - r + i] ELSE 0
    BY <1>1, <1>2, <1>4, <1>5
  <1> QED  BY <1>1, <1>2, <1>3, <1>6 DEF UnderWay, pioVars, CountDown

LEMMA PacketStep ==
    ASSUME AlignInv, ByteInv, PacketInv, [Next]_vars
    PROVE  PacketInv'
  <1>1. ASSUME NEW raw \in Track \union Noise, PacketStarts(raw) PROVE PacketInv'
    <2>1. raw \in Track \union Garbled
      BY DEF Garbled
    <2> QED  BY <1>1, <2>1, PacketStartsUnderWay DEF PacketInv
  <1>2. ASSUME NEW s \in Track \union Garbled, UnderWay(s), ReadByte PROVE PacketInv'
    BY <1>2, ReadByteUnderWay DEF PacketInv
  <1>3. ASSUME NEW s \in Track \union Garbled, UnderWay(s), Pad PROVE PacketInv'
    BY <1>3, PadUnderWay DEF PacketInv
  <1>4. ASSUME NEW s \in Track \union Garbled, UnderWay(s), Overrun PROVE PacketInv'
    BY <1>4, OverrunUnderWay DEF PacketInv
  <1>5. CASE PushCount
    BY <1>5 DEF PushCount, PacketInv
  <1>6. PICK n \in Nat : InFlight = n
    BY InFlightIsCount DEF AlignInv
  <1>7. ASSUME NEW s \in Track \union Garbled, UnderWay(s), DmaPull PROVE PacketInv'
    <2>1. UNCHANGED pioVars /\ InFlight' = n - 0 /\ \A k \in 1 .. n - 0 : StreamAt(k)' = StreamAt(k + 0)
      <3>1. InFlight' = n /\ \A k \in 1 .. n : StreamAt(k)' = StreamAt(k)
        BY <1>6, <1>7, PullKeepsStream DEF AlignInv
      <3>2. n - 0 = n /\ \A k \in 1 .. n : k + 0 = k
        OBVIOUS
      <3>3. UNCHANGED pioVars
        BY <1>7 DEF DmaPull
      <3> QED  BY <3>1, <3>2, <3>3
    <2> QED  BY <1>6, <1>7, <2>1, ReaderUnderWay DEF PacketInv
  <1>8. ASSUME NEW s \in Track \union Garbled, UnderWay(s), ReadPacket PROVE PacketInv'
    <2>1. UNCHANGED <<pioVars, fifo>> /\ Len(buff) = 8 /\ buff' = <<>>
      BY <1>8 DEF ReadPacket
    <2>2. InFlight' = n - 8 /\ \A k \in 1 .. n - 8 : StreamAt(k)' = StreamAt(k + 8)
      BY <1>6, <2>1, ReadTakesBlock DEF AlignInv, pioVars
    <2>3. 8 <= n
      BY <1>6, <2>1 DEF InFlight, AlignInv, Buffers
    <2> QED  BY <1>6, <1>8, <2>1, <2>2, <2>3, ReaderUnderWay DEF PacketInv
  <1>9. ASSUME UNCHANGED <<pioVars, fifo, buff>> PROVE PacketInv'
    <2>1. InFlight' = InFlight /\ \A k : StreamAt(k)' = StreamAt(k)
      BY <1>9 DEF pioVars, InFlight, StreamAt
    <2>2. ASSUME NEW s \in Track \union Garbled, UnderWay(s) PROVE UnderWay(s)'
      <3>1. \A k \in 1 .. n - 0 : StreamAt(k)' = StreamAt(k + 0)
        <4>1. \A k \in 1 .. n - 0 : k + 0 = k
          OBVIOUS
        <4> QED  BY <2>1, <4>1
      <3>2. UNCHANGED pioVars /\ InFlight' = n - 0
        BY <1>6, <1>9, <2>1
      <3> QED  BY <1>6, <2>2, <3>1, <3>2, ReaderUnderWay
    <2> QED  BY <1>9, <2>2 DEF PacketInv, pioVars
  <1>10. CASE HandlePacket \/ UNCHANGED vars
    BY <1>9, <1>10 DEF HandlePacket, vars
  <1>11. ReadByte \/ Pad \/ Overrun => pc # "preamble"
    BY DEF ReadByte, Pad, Overrun
  <1>12. CASE DmaPull \/ ReadPacket
    <2>1. pc' = pc
      BY <1>12 DEF DmaPull, ReadPacket, pioVars
    <2> QED  BY <1>7, <1>8, <1>12, <2>1 DEF PacketInv
  <1> QED  BY <1>1, <1>2, <1>3, <1>4, <1>5, <1>10, <1>11, <1>12 DEF PacketInv, Next, Pio

-----------------------------------------------------------------------------
(* What a block holds when its last byte is shifted in.                    *)
Completed(byte) == [i \in 1 .. 8 |-> IF i = 8 THEN byte ELSE StreamAt(InFlight - 7 + i)]

(* The bytes before the last one.                                          *)
LEMMA CompletedBytes ==
    ASSUME NEW s, UnderWay(s), InFlight % 8 = 7, NEW byte, NEW i \in 1 .. 7
    PROVE  Completed(byte)[i] = IF Shifted(s) - 7 + i <= Got(s)
                                THEN 255 - s[Shifted(s) - 7 + i] ELSE 0
  <1>1. Open(s) = 7
    BY DEF UnderWay
  <1>2. \A j \in 1 .. 7 : StreamAt(InFlight - 7 + j) =
            IF Shifted(s) - 7 + j <= Got(s) THEN 255 - s[Shifted(s) - 7 + j] ELSE 0
    BY <1>1 DEF UnderWay
  <1>3. Completed(byte)[i] = StreamAt(InFlight - 7 + i)
    BY DEF Completed
  <1> QED  BY <1>2, <1>3

(* Eight bytes of a longer packet: it is garbled.                          *)
LEMMA DataBlockNotTaken ==
    ASSUME AlignInv, ByteInv, NEW s, UnderWay(s), ReadByte, InFlight % 8 = 7
    PROVE  ~ Taken(Received(Completed(255 - Head(rest))))
  <1>1. pc = "byte" /\ rest \in Seq(Byte) /\ rest # <<>>
    BY DEF ReadByte, AlignInv, Registers, ByteInv
  <1>2. PICK g \in Nat : Got(s) = g
    BY UnderWayBytes
  <1>3. Shifted(s) = g /\ g % 8 = 7
    BY <1>1, <1>2 DEF Shifted, UnderWay, Open
  <1>4. Len(s) \in Nat /\ g = Len(s) - Len(rest) /\ Len(rest) \in Nat /\ Len(rest) > 0
    BY <1>1, <1>2, UnderWayBytes DEF Got
  <1>5. g + 1 <= Len(s) /\ g >= 7
    BY <1>3, <1>4
  <1>6. s \in Garbled
    <2>1. ~ (Len(s) <= 6)
      BY <1>4, <1>5
    <2> QED  BY <2>1, UnderWayBytes
  <1>7. Head(rest) = s[g + 1]
    <2>1. Head(rest) = rest[1]
      BY <1>1
    <2>2. rest[1] = s[g + 1]
      BY <1>2, <1>4 DEF UnderWay
    <2> QED  BY <2>1, <2>2
  <1>8. PICK k \in Nat : 8 * k = g - 7 /\ k \in 0 .. Len(s) \div 8 - 1
    <2> DEFINE l == Len(s)
    <2>1. l \in Nat /\ g + 1 <= l
      BY <1>4, <1>5
    <2> HIDE DEF l
    <2>2. g \div 8 \in Nat /\ 8 * (g \div 8) = g - 7 /\ g \div 8 <= l \div 8 - 1
      BY <1>3, <1>5, <2>1
    <2>3. l \div 8 \in Int
      BY <2>1
    <2> QED  BY <2>2, <2>3 DEF l
  <1> DEFINE block == Completed(255 - Head(rest))
             piece == [i \in 1 .. 8 |-> 255 - s[8 * k + i]]
  <1>9. ASSUME NEW i \in 1 .. 8 PROVE block[i] = 255 - s[8 * k + i]
    <2>1. CASE i = 8
      <3>1. block[i] = 255 - s[g + 1]
        BY <1>7, <2>1 DEF Completed
      <3>2. 8 * k + i = g + 1
        BY <1>8, <2>1
      <3> QED  BY <3>1, <3>2
    <2>2. CASE i # 8
      <3>1. i \in 1 .. 7
        BY <2>2
      <3>2. g - 7 + i <= g /\ 8 * k + i = g - 7 + i
        BY <1>8, <3>1
      <3>3. block[i] = IF g - 7 + i <= g THEN 255 - s[g - 7 + i] ELSE 0
        BY <1>2, <1>3, <3>1, CompletedBytes
      <3> QED  BY <3>2, <3>3
    <2> QED  BY <2>1, <2>2
  <1>10. block = piece
    <2>1. block = [i \in 1 .. 8 |-> block[i]]
      BY DEF Completed
    <2> HIDE DEF block
    <2> QED  BY <1>9, <2>1
  <1>11. ~ Taken(Received(piece))
    BY <1>6, <1>8, GarbledAssumption
  <1> QED  BY <1>10, <1>11

LEMMA PaddedBlockNotTaken == ~ Taken(Received(Completed(0)))
  <1>1. Completed(0)[8] = 0
    BY DEF Completed
  <1> QED  BY <1>1, FullBlockNotTaken

(* The count completes the block of a short packet, which is then received,*)
(* or one of padding after a long packet.                                  *)
LEMMA CountBlock ==
    ASSUME AlignInv, ByteInv, NEW s, UnderWay(s), PushCount
    PROVE  /\ InFlight % 8 = 7
           /\ IF Len(s) <= 7 THEN Received(Completed(y % 256)) = s
              ELSE ~ Taken(Received(Completed(y % 256)))
  <1>1. pc = "pad" /\ x = 0
    BY DEF PushCount
  <1>2. PICK v \in Nat : y = v /\ rest = <<>> /\ v = CountDown(Got(s))
    BY <1>1 DEF UnderWay, AlignInv, Registers
  <1>3. PICK l \in Nat : Len(s) = l /\ l <= XModulus /\ s \in Seq(Byte)
    BY UnderWayBytes
  <1>4. Got(s) = l /\ Shifted(s) = l + v
    <2>1. Len(rest) = 0
      BY <1>2
    <2>2. Got(s) = l
      BY <1>3, <2>1 DEF Got
    <2> QED  BY <1>1, <1>2, <2>2 DEF Shifted
  <1>5. v = IF l <= 7 THEN 7 - l ELSE XModulus + 7 - l
    BY <1>2, <1>4 DEF CountDown
  <1>6. InFlight % 8 = 7
    BY <1>1, InFlightIsCount DEF AlignInv, Aligned
  <1> DEFINE block == Completed(v % 256)
  <1>7. block[8] = v % 256
    BY DEF Completed
  <1>8. ASSUME NEW i \in 1 .. 7
        PROVE  block[i] = IF (l + v) - 7 + i <= l THEN 255 - s[(l + v) - 7 + i] ELSE 0
    <2>1. block[i] = IF Shifted(s) - 7 + i <= Got(s) THEN 255 - s[Shifted(s) - 7 + i] ELSE 0
      BY <1>6, CompletedBytes
    <2> QED  BY <1>4, <2>1
  <1> HIDE DEF block
  <1>9. CASE l <= 7
    <2>1. l + v = 7 /\ v % 256 = 7 - l
      BY <1>5, <1>9
    <2>2. ASSUME NEW i \in 1 .. l PROVE block[i] = 255 - s[i]
      <3>1. i \in 1 .. 7 /\ 7 - 7 + i = i /\ i <= l
        BY <1>9
      <3> QED  BY <1>8, <2>1, <3>1
    <2>3. Received(block) = s
      BY <1>3, <1>7, <1>9, <2>1, <2>2, ShortPacketReceived
    <2> QED  BY <1>2, <1>3, <1>6, <1>9, <2>3 DEF block
  <1>10. CASE ~ (l <= 7)
    <2>1. XModulus \in Nat /\ l + v = XModulus + 7
      BY <1>5, <1>10, RegisterAssumption
    <2>2. ASSUME NEW i \in 1 .. 7 PROVE block[i] = 0
      <3>1. (l + v) - 7 + i = XModulus + i
        BY <2>1
      <3>2. ~ (XModulus + i <= l)
        BY <1>3, <2>1
      <3> QED  BY <1>8, <3>1, <3>2
    <2>3. block[8] \in Nat
      BY <1>7
    <2> QED  BY <1>2, <1>3, <1>6, <1>10, <2>2, <2>3, PaddingNotTaken DEF block
  <1> QED  BY <1>9, <1>10

-----------------------------------------------------------------------------
(* The packets that are in the stream, in PACKET_CHANNEL and handled.      *)
ChannelInv ==
    /\ PACKET_CHANNEL \in Seq(Seq(Byte))
    /\ Len(PACKET_CHANNEL) <= ChannelCapacity

LEMMA DecodeOk ==
    ASSUME NEW raw, IsOk(Decode(raw))
    PROVE  Decode(raw) = Ok(Decode(raw).value)
  BY DEF Decode, IsOk, Ok, Err, IdlePacket

LEMMA SentBytes ==
    ASSUME NEW data, Sent(data)
    PROVE  data \in Seq(Byte)
  <1>1. PICK raw \in Track : Decode(raw) = Ok(data)
    BY DEF Sent
  <1>2. raw \in Seq(Byte) /\ Len(raw) \in Nat
    BY TrackBytes
  <1>3. data = <<>> \/ data = SubSeq(raw, 1, Len(raw) - 1)
    BY <1>1 DEF Decode, Ok, Err, IdlePacket
  <1>4. SubSeq(raw, 1, Len(raw) - 1) \in Seq(Byte)
    <2>1. \A i \in 1 .. Len(raw) - 1 : i \in 1 .. Len(raw)
      BY <1>2
    <2> QED  BY <1>2, <2>1, SubSeqProperties
  <1>5. << >> \in Seq(Byte)
    OBVIOUS
  <1> QED  BY <1>3, <1>4, <1>5, Zenon

(* A step that completes no block that is taken.                           *)
LEMMA NothingTaken ==
    ASSUME SentInv, NewestInv,
           Blocks \subseteq Blocks',
           \A b \in Blocks : Block(b)' = Block(b),
           \A b \in Blocks' : b \in Blocks \/ ~ BlockTaken(b)',
           UNCHANGED <<PACKET_CHANNEL, handled, newest>>
    PROVE  SentInv' /\ NewestInv'
  <1>1. \A b \in Blocks : BlockTaken(b)' = BlockTaken(b) /\ BlockData(b)' = BlockData(b)
    BY DEF BlockTaken, BlockData
  <1>2. SentInv'
    BY <1>1 DEF SentInv
  <1>3. NewestInv'
    <2>1. CASE \E b \in Blocks :
                  /\ BlockTaken(b) /\ BlockData(b) = newest
                  /\ \A c \in Blocks : c > b => ~ BlockTaken(c)
      BY <1>1, <2>1 DEF NewestInv
    <2>2. CASE \A b \in Blocks : ~ BlockTaken(b)
      <3>1. \A b \in Blocks' : ~ BlockTaken(b)'
        BY <1>1, <2>2
      <3>2. ~ \E b \in Blocks : BlockTaken(b)
        BY <2>2
      <3> QED  BY <3>1, <3>2 DEF NewestInv
    <2> QED  BY <2>1, <2>2 DEF NewestInv
  <1> QED  BY <1>2, <1>3

(* The packet that was received in whole is in the newest block.           *)
LEMMA PacketTaken ==
    ASSUME SentInv, NewestInv, InFlight \in Nat,
           NEW b \in Blocks', Blocks' = Blocks \union {b}, \A c \in Blocks : c < b,
           \A c \in Blocks : Block(c)' = Block(c),
           NEW raw \in Track, Received(Block(b)') = raw, Decode(raw) # IdlePacket,
           newest' = Decode(raw).value,
           UNCHANGED <<PACKET_CHANNEL, handled>>
    PROVE  SentInv' /\ NewestInv'
  <1>1. \A c \in Blocks : BlockTaken(c)' = BlockTaken(c) /\ BlockData(c)' = BlockData(c)
    BY DEF BlockTaken, BlockData
  <1>2. BlockTaken(b)' /\ BlockData(b)' = newest' /\ Sent(newest')
    <2>1. IsOk(Decode(raw)) /\ Decode(raw) = Ok(newest')
      BY TrackBytes, DecodeOk
    <2> QED  BY <2>1 DEF BlockTaken, BlockData, Taken, Sent
  <1>3. SentInv'
    <2>1. \A c \in Blocks' : BlockTaken(c)' => Sent(BlockData(c)')
      BY <1>1, <1>2 DEF SentInv
    <2> QED  BY <2>1 DEF SentInv, Sent
  <1>4. NewestInv'
    <2>1. b \in Int /\ \A c \in Blocks' : c \in Int
      <3>1. \A c \in Blocks' : c \in Int
        BY DEF Blocks
      <3> QED  BY <3>1
    <2>2. \A c \in Blocks' : ~ (c > b)
      BY <2>1
    <2> QED  BY <1>2, <2>2 DEF NewestInv
  <1> QED  BY <1>3, <1>4

LEMMA SameStream ==
    ASSUME SentInv, NewestInv, InFlight \in Nat, InFlight' = InFlight,
           \A k \in 1 .. InFlight : StreamAt(k)' = StreamAt(k),
           UNCHANGED <<PACKET_CHANNEL, handled, newest>>
    PROVE  SentInv' /\ NewestInv'
  <1>1. Blocks' = Blocks
    BY DEF Blocks
  <1>2. ASSUME NEW b \in Blocks PROVE Block(b)' = Block(b)
    BY BlockInStream DEF Block
  <1> QED  BY <1>1, <1>2, NothingTaken

LEMMA ShiftTakesNothing ==
    ASSUME SentInv, NewestInv, Buffers, NEW byte \in Int, Shift(byte), buff' = buff,
           InFlight % 8 = 7 => ~ Taken(Received(Completed(byte))),
           UNCHANGED <<PACKET_CHANNEL, handled, newest>>
    PROVE  SentInv' /\ NewestInv'
  <1>1. Blocks \subseteq Blocks' /\ \A b \in Blocks : Block(b)' = Block(b)
    BY ShiftKeepsBlocks
  <1>2. CASE InFlight % 8 # 7
    <2>1. Blocks' = Blocks
      BY <1>2, ShiftKeepsBlocks
    <2> QED  BY <1>1, <2>1, NothingTaken
  <1>3. CASE InFlight % 8 = 7
    <2>1. PICK b \in Blocks' :
             /\ Blocks' = Blocks \union {b}
             /\ Block(b)' = [i \in 1 .. 8 |-> IF i = 8 THEN byte
                                             ELSE StreamAt(InFlight - 7 + i)]
      BY <1>3, ShiftKeepsBlocks
    <2>2. ~ BlockTaken(b)'
      BY <1>3, <2>1 DEF BlockTaken, Completed
    <2> QED  BY <1>1, <2>1, <2>2, NothingTaken
  <1> QED  BY <1>2, <1>3

(* PushCount: the packet is complete, and what completes its block is not  *)
(* taken unless it was received in whole.                                  *)
LEMMA CountTakes ==
    ASSUME AlignInv, ByteInv, PacketInv, PushCount
    PROVE  /\ InFlight % 8 = 7
           /\ \/ newest' = newest /\ ~ Taken(Received(Completed(y % 256)))
              \/ \E raw \in Track : /\ Decode(raw) # IdlePacket
                                    /\ Received(Completed(y % 256)) = raw
                                    /\ newest' = Decode(raw).value
  <1>1. /\ pc = "pad"
        /\ newest' = IF packet # <<>> /\ Decode(packet) # IdlePacket
                     THEN Decode(packet).value ELSE newest
    BY DEF PushCount
  <1>2. PICK s \in Track \union Garbled : UnderWay(s)
    BY <1>1 DEF PacketInv
  <1>3. InFlight % 8 = 7
    BY <1>2, CountBlock
  <1>4. CASE packet = <<>>
    <2>1. s \in Garbled /\ newest' = newest
      BY <1>1, <1>2, <1>4 DEF UnderWay
    <2>2. CASE Len(s) <= 7
      <3>1. ~ Taken(Received(Completed(y % 256)))
        BY <1>2, <2>1, <2>2, CountBlock, GarbledAssumption
      <3> QED  BY <1>3, <2>1, <3>1
    <2>3. CASE ~ (Len(s) <= 7)
      <3>1. ~ Taken(Received(Completed(y % 256)))
        BY <1>2, <2>3, CountBlock
      <3> QED  BY <1>3, <2>1, <3>1
    <2> QED  BY <2>2, <2>3
  <1>5. CASE packet # <<>>
    <2>1. s = packet /\ s \in Track /\ Len(s) \in Nat /\ Len(s) <= 6
      BY <1>2, <1>5, UnderWayBytes DEF UnderWay
    <2>2. Received(Completed(y % 256)) = s
      <3>1. Len(s) <= 7
        BY <2>1
      <3> QED  BY <1>2, <3>1, CountBlock
    <2>3. CASE Decode(s) = IdlePacket
      BY <1>1, <1>3, <2>1, <2>2, <2>3 DEF Taken
    <2>4. CASE Decode(s) # IdlePacket
      BY <1>1, <1>3, <1>5, <2>1, <2>2, <2>4
    <2> QED  BY <2>3, <2>4
  <1> QED  BY <1>4, <1>5

LEMMA CountStep ==
    ASSUME AlignInv, ByteInv, PacketInv, SentInv, NewestInv, PushCount
    PROVE  SentInv' /\ NewestInv'
  <1>1. Shift(y % 256) /\ buff' = buff /\ UNCHANGED <<PACKET_CHANNEL, handled>>
    BY DEF PushCount, PioAside
  <1>2. y % 256 \in Int /\ InFlight \in Nat
    BY InFlightIsCount DEF AlignInv, Registers
  <1>3. InFlight % 8 = 7
    BY CountTakes
  <1>4. PICK b \in Blocks' :
           /\ Blocks' = Blocks \union {b}
           /\ \A c \in Blocks : c < b
           /\ Block(b)' = [i \in 1 .. 8 |-> IF i = 8 THEN y % 256
                                           ELSE StreamAt(InFlight - 7 + i)]
    BY <1>1, <1>2, <1>3, ShiftKeepsBlocks DEF AlignInv
  <1>5. /\ Blocks \subseteq Blocks' /\ \A c \in Blocks : Block(c)' = Block(c)
        /\ Block(b)' = Completed(y % 256)
    BY <1>1, <1>2, <1>4, ShiftKeepsBlocks DEF AlignInv, Completed
  <1>6. CASE newest' = newest /\ ~ Taken(Received(Completed(y % 256)))
    BY <1>1, <1>2, <1>6, ShiftTakesNothing DEF AlignInv
  <1>7. ASSUME NEW raw \in Track, Decode(raw) # IdlePacket,
               Received(Completed(y % 256)) = raw, newest' = Decode(raw).value
        PROVE  SentInv' /\ NewestInv'
    <2>1. Received(Block(b)') = raw
      BY <1>5, <1>7
    <2> QED  BY <1>1, <1>2, <1>4, <1>5, <1>7, <2>1, PacketTaken
  <1> QED  BY <1>6, <1>7, CountTakes

(* publish_immediate() puts the packet last and has room for it.           *)
LEMMA PublishAppends ==
    ASSUME ChannelInv, NEW data \in Seq(Byte)
    PROVE  /\ Publish(data) \in Seq(Seq(Byte))
           /\ Publish(data) # <<>>
           /\ Len(Publish(data)) <= ChannelCapacity
           /\ Publish(data)[Len(Publish(data))] = data
           /\ \A i \in 1 .. Len(Publish(data)) :
                 \/ Publish(data)[i] = data
                 \/ \E j \in 1 .. Len(PACKET_CHANNEL) : Publish(data)[i] = PACKET_CHANNEL[j]
  <1>1. /\ PACKET_CHANNEL \in Seq(Seq(Byte)) /\ Len(PACKET_CHANNEL) \in Nat
        /\ Len(PACKET_CHANNEL) <= ChannelCapacity
        /\ ChannelCapacity \in Nat /\ ChannelCapacity > 0
    BY ReceptionAssumption DEF ChannelInv
  <1> DEFINE kept == IF Len(PACKET_CHANNEL) < ChannelCapacity
                     THEN PACKET_CHANNEL ELSE Tail(PACKET_CHANNEL)
  <1>2. Publish(data) = Append(kept, data)
    BY DEF Publish
  <1>3. /\ kept \in Seq(Seq(Byte)) /\ Len(kept) \in Nat /\ Len(kept) < ChannelCapacity
        /\ \A i \in 1 .. Len(kept) :
              \E j \in 1 .. Len(PACKET_CHANNEL) : kept[i] = PACKET_CHANNEL[j]
    <2>1. CASE Len(PACKET_CHANNEL) < ChannelCapacity
      <3>1. kept = PACKET_CHANNEL
        BY <2>1
      <3> HIDE DEF kept
      <3> QED  BY <1>1, <2>1, <3>1
    <2>2. CASE ~ (Len(PACKET_CHANNEL) < ChannelCapacity)
      <3>1. kept = Tail(PACKET_CHANNEL)
        BY <2>2
      <3> HIDE DEF kept
      <3>2. PACKET_CHANNEL # <<>>
        BY <1>1, <2>2
      <3>3. /\ kept \in Seq(Seq(Byte)) /\ Len(kept) = Len(PACKET_CHANNEL) - 1
            /\ \A i \in 1 .. Len(kept) : kept[i] = PACKET_CHANNEL[i + 1]
        BY <1>1, <3>1, <3>2
      <3>4. \A i \in 1 .. Len(kept) : i + 1 \in 1 .. Len(PACKET_CHANNEL)
        BY <1>1, <3>3
      <3> QED  BY <1>1, <3>2, <3>3, <3>4
    <2> QED  BY <2>1, <2>2
  <1> HIDE DEF kept
  <1>4. /\ Append(kept, data) \in Seq(Seq(Byte)) /\ Len(Append(kept, data)) = Len(kept) + 1
        /\ \A i \in 1 .. Len(kept) : Append(kept, data)[i] = kept[i]
        /\ Append(kept, data)[Len(kept) + 1] = data
    BY <1>3, AppendProperties
  <1>5. Append(kept, data) # <<>> /\ Len(Append(kept, data)) <= ChannelCapacity
    BY <1>1, <1>3, <1>4
  <1>6. ASSUME NEW i \in 1 .. Len(Append(kept, data))
        PROVE  i \in 1 .. Len(kept) \/ i = Len(kept) + 1
    BY <1>3, <1>4
  <1> QED  BY <1>2, <1>3, <1>4, <1>5, <1>6

(* packet_decoder takes the first block of the stream.                     *)
LEMMA ReadTakes ==
    ASSUME AlignInv, ReadPacket
    PROVE  /\ InFlight \in Nat /\ 8 <= InFlight /\ InFlight' = InFlight - 8
           /\ 0 \in Blocks /\ \A b \in Int : b \in Blocks' <=> b >= 0 /\ b + 1 \in Blocks
           /\ \A b \in Blocks' : /\ BlockTaken(b)' = BlockTaken(b + 1)
                                /\ BlockData(b)' = BlockData(b + 1)
           /\ BlockTaken(0) => PACKET_CHANNEL' = Publish(BlockData(0))
           /\ ~ BlockTaken(0) => PACKET_CHANNEL' = PACKET_CHANNEL
  <1>1. /\ Len(buff) = 8 /\ buff' = <<>>
        /\ UNCHANGED <<isr, fifo>>
        /\ PACKET_CHANNEL' = IF Taken(Received(buff))
                             THEN Publish(Decode(Received(buff)).value)
                             ELSE PACKET_CHANNEL
    BY DEF ReadPacket, pioVars
  <1>2. PICK n \in Nat : InFlight = n /\ InFlight' = n - 8 /\ 8 <= n
    <2>1. InFlight \in Nat /\ InFlight' = InFlight - 8
      BY <1>1, ReadTakesBlock, InFlightIsCount DEF AlignInv
    <2>2. 8 <= InFlight
      BY <1>1 DEF InFlight, AlignInv, Buffers
    <2> QED  BY <2>1, <2>2
  <1>3. 0 \in Blocks /\ \A b \in Int : b \in Blocks' <=> b >= 0 /\ b + 1 \in Blocks
    <2>1. Blocks = 0 .. n \div 8 - 1 /\ Blocks' = 0 .. (n - 8) \div 8 - 1
      BY <1>2 DEF Blocks
    <2>2. n \div 8 \in Nat /\ n \div 8 >= 1 /\ (n - 8) \div 8 = n \div 8 - 1
      BY <1>2
    <2> QED  BY <2>1, <2>2
  <1>4. ASSUME NEW b \in Blocks' PROVE Block(b)' = Block(b + 1)
    <2>1. b \in Nat /\ b + 1 \in Blocks
      BY <1>3 DEF Blocks
    <2>2. ASSUME NEW i \in 1 .. 8 PROVE StreamAt(8 * b + i)' = StreamAt(8 * (b + 1) + i)
      <3>1. 8 * (b + 1) + i \in 1 .. n
        BY <1>2, <2>1, BlockInStream
      <3>2. 8 * b + i \in 1 .. n - 8 /\ (8 * b + i) + 8 = 8 * (b + 1) + i
        BY <2>1, <3>1
      <3> QED  BY <1>1, <1>2, <3>2, ReadTakesBlock DEF AlignInv
    <2> QED  BY <2>2 DEF Block
  <1>5. \A b \in Blocks' : BlockTaken(b)' = BlockTaken(b + 1) /\ BlockData(b)' = BlockData(b + 1)
    BY <1>4 DEF BlockTaken, BlockData
  <1>6. Block(0) = buff
    BY <1>1, ReadTakesBlock DEF AlignInv
  <1>7. /\ BlockTaken(0) => PACKET_CHANNEL' = Publish(BlockData(0))
        /\ ~ BlockTaken(0) => PACKET_CHANNEL' = PACKET_CHANNEL
    BY <1>1, <1>6 DEF BlockTaken, BlockData
  <1> QED  BY <1>2, <1>3, <1>5, <1>7

LEMMA ReadStep ==
    ASSUME AlignInv, ChannelInv, SentInv, NewestInv, ReadPacket
    PROVE  ChannelInv' /\ SentInv' /\ NewestInv'
  <1>1. UNCHANGED <<newest, handled>>
    BY DEF ReadPacket, pioVars
  <1>2. 0 \in Blocks /\ \A b \in Int : b \in Blocks' <=> b >= 0 /\ b + 1 \in Blocks
    BY ReadTakes
  <1>3. \A b \in Blocks' : BlockTaken(b)' = BlockTaken(b + 1) /\ BlockData(b)' = BlockData(b + 1)
    BY ReadTakes
  <1>4. /\ BlockTaken(0) => PACKET_CHANNEL' = Publish(BlockData(0))
        /\ ~ BlockTaken(0) => PACKET_CHANNEL' = PACKET_CHANNEL
    BY ReadTakes
  <1>5. BlockTaken(0) => Sent(BlockData(0)) /\ BlockData(0) \in Seq(Byte)
    BY <1>2, SentBytes DEF SentInv
  <1>6. ChannelInv'
    BY <1>4, <1>5, PublishAppends DEF ChannelInv
  <1>7. SentInv'
    <2>1. \A b \in Blocks' : b \in Int /\ b + 1 \in Blocks
      BY <1>2 DEF Blocks
    <2>2. \A b \in Blocks' : BlockTaken(b)' => Sent(BlockData(b)')
      BY <1>3, <2>1 DEF SentInv
    <2>3. \A i \in 1 .. Len(PACKET_CHANNEL') : Sent(PACKET_CHANNEL'[i])
      <3>1. CASE BlockTaken(0)
        <4>1. PICK data : data = BlockData(0)
          OBVIOUS
        <4>2. \A i \in 1 .. Len(Publish(data)) : Sent(Publish(data)[i])
          BY <1>5, <3>1, <4>1, PublishAppends DEF SentInv
        <4> QED  BY <1>4, <3>1, <4>1, <4>2
      <3>2. CASE ~ BlockTaken(0)
        BY <1>4, <3>2 DEF SentInv
      <3> QED  BY <3>1, <3>2
    <2> QED  BY <1>1, <2>2, <2>3 DEF SentInv, Sent
  <1>8. NewestInv'
    <2>1. ASSUME NEW b \in Blocks, BlockTaken(b), BlockData(b) = newest,
                 \A c \in Blocks : c > b => ~ BlockTaken(c)
          PROVE  NewestInv'
      <3>1. b \in Nat
        BY DEF Blocks
      <3>2. \A c \in Blocks' : c \in Nat /\ c + 1 \in Blocks
        BY <1>2 DEF Blocks
      <3>3. CASE b = 0
        <4>1. \A c \in Blocks' : ~ BlockTaken(c)'
          <5>1. \A c \in Nat : c + 1 > 0
            OBVIOUS
          <5> QED  BY <1>3, <2>1, <3>2, <3>3, <5>1
        <4>2. PACKET_CHANNEL' = Publish(newest) /\ newest \in Seq(Byte)
          BY <1>4, <1>5, <2>1, <3>3
        <4>3. PACKET_CHANNEL' # <<>> /\ PACKET_CHANNEL'[Len(PACKET_CHANNEL')] = newest'
          BY <1>1, <4>2, PublishAppends
        <4> QED  BY <4>1, <4>3 DEF NewestInv
      <3>4. CASE b # 0
        <4>1. b - 1 \in Blocks' /\ (b - 1) + 1 = b
          BY <1>2, <3>1, <3>4
        <4>2. BlockTaken(b - 1)' /\ BlockData(b - 1)' = newest'
          BY <1>1, <1>3, <2>1, <4>1
        <4>3. \A c \in Blocks' : c > b - 1 => ~ BlockTaken(c)'
          <5>1. \A c \in Nat : c > b - 1 => c + 1 > b
            BY <3>1
          <5> QED  BY <1>3, <2>1, <3>2, <5>1
        <4> QED  BY <4>1, <4>2, <4>3 DEF NewestInv
      <3> QED  BY <3>3, <3>4
    <2>2. CASE /\ \A b \in Blocks : ~ BlockTaken(b)
               /\ IF PACKET_CHANNEL # <<>>
                  THEN PACKET_CHANNEL[Len(PACKET_CHANNEL)] = newest
                  ELSE handled = newest
      <3>1. PACKET_CHANNEL' = PACKET_CHANNEL
        BY <1>2, <1>4, <2>2
      <3>2. \A b \in Blocks' : b + 1 \in Blocks
        BY <1>2 DEF Blocks
      <3>3. \A b \in Blocks' : ~ BlockTaken(b)'
        BY <1>3, <2>2, <3>2
      <3> QED  BY <1>1, <2>2, <3>1, <3>3 DEF NewestInv
    <2> QED  BY <2>1, <2>2 DEF NewestInv
  <1> QED  BY <1>6, <1>7, <1>8

(* packet_handler takes the oldest packet of the channel.                  *)
LEMMA HandleStep ==
    ASSUME AlignInv, ChannelInv, SentInv, NewestInv, HandlePacket
    PROVE  ChannelInv' /\ SentInv' /\ NewestInv'
  <1>1. /\ PACKET_CHANNEL # <<>> /\ handled' = Head(PACKET_CHANNEL)
        /\ PACKET_CHANNEL' = Tail(PACKET_CHANNEL)
        /\ UNCHANGED <<isr, fifo, buff, newest>>
    BY DEF HandlePacket, pioVars
  <1>2. PICK m \in Nat : Len(PACKET_CHANNEL) = m /\ m > 0
    BY <1>1 DEF ChannelInv
  <1>3. /\ PACKET_CHANNEL' \in Seq(Seq(Byte)) /\ Len(PACKET_CHANNEL') = m - 1
        /\ \A i \in 1 .. m - 1 : PACKET_CHANNEL'[i] = PACKET_CHANNEL[i + 1]
        /\ handled' = PACKET_CHANNEL[1]
    BY <1>1, <1>2 DEF ChannelInv
  <1>4. ChannelInv'
    BY <1>2, <1>3, ReceptionAssumption DEF ChannelInv
  <1>5. Blocks' = Blocks /\ \A b : BlockTaken(b)' = BlockTaken(b) /\ BlockData(b)' = BlockData(b)
    <2>1. InFlight' = InFlight /\ \A k : StreamAt(k)' = StreamAt(k)
      BY <1>1 DEF InFlight, StreamAt
    <2>2. \A b : Block(b)' = Block(b)
      BY <2>1 DEF Block
    <2> QED  BY <2>1, <2>2 DEF Blocks, BlockTaken, BlockData
  <1>6. SentInv'
    <2>1. \A i \in 1 .. m : Sent(PACKET_CHANNEL[i])
      BY <1>2 DEF SentInv
    <2>2. Sent(handled')
      BY <1>2, <1>3, <2>1
    <2>3. \A i \in 1 .. m - 1 : Sent(PACKET_CHANNEL'[i])
      <3>1. \A i \in 1 .. m - 1 : i + 1 \in 1 .. m
        BY <1>2
      <3> QED  BY <1>3, <2>1, <3>1
    <2>4. \A b \in Blocks' : BlockTaken(b)' => Sent(BlockData(b)')
      BY <1>5 DEF SentInv
    <2> QED  BY <1>3, <2>2, <2>3, <2>4 DEF SentInv, Sent
  <1>7. NewestInv'
    <2>1. CASE \E b \in Blocks :
                  /\ BlockTaken(b) /\ BlockData(b) = newest
                  /\ \A c \in Blocks : c > b => ~ BlockTaken(c)
      BY <1>1, <1>5, <2>1 DEF NewestInv
    <2>2. CASE (\A b \in Blocks : ~ BlockTaken(b)) /\ PACKET_CHANNEL[m] = newest
      <3>1. \A b \in Blocks' : ~ BlockTaken(b)'
        BY <1>5, <2>2
      <3>2. CASE m = 1
        <4>1. PACKET_CHANNEL' = <<>> /\ handled' = newest'
          <5>1. Len(PACKET_CHANNEL') = 0
            BY <1>3, <3>2
          <5>2. PACKET_CHANNEL' = <<>>
            BY <1>3, <5>1
          <5>3. handled' = newest'
            BY <1>1, <1>3, <2>2, <3>2
          <5> QED  BY <5>2, <5>3
        <4> QED  BY <3>1, <4>1 DEF NewestInv
      <3>3. CASE m # 1
        <4>1. m - 1 \in 1 .. m - 1 /\ (m - 1) + 1 = m
          BY <1>2, <3>3
        <4>2. PACKET_CHANNEL' # <<>> /\ PACKET_CHANNEL'[m - 1] = newest'
          <5>1. PACKET_CHANNEL'[m - 1] = newest'
            BY <1>1, <1>3, <2>2, <4>1
          <5>2. Len(PACKET_CHANNEL') # 0
            BY <1>3, <4>1
          <5> QED  BY <5>1, <5>2
        <4> QED  BY <1>3, <3>1, <4>2 DEF NewestInv
      <3> QED  BY <3>2, <3>3
    <2> QED  BY <1>1, <1>2, <2>1, <2>2 DEF NewestInv
  <1> QED  BY <1>4, <1>6, <1>7

-----------------------------------------------------------------------------
(* What the instruction of a packet asks for is an operation.              *)
LEMMA FunctionGroupIsOperation ==
    ASSUME NEW mask \in GroupMasks, NEW on
    PROVE  IsOperation(SetFunctionGroup(FunctionGroup(mask, on)))
  BY DEF IsOperation, SetFunctionGroup, FunctionGroup

LEMMA SpeedStepIsOperation ==
    ASSUME NEW vector \in Byte
    PROVE  IsOperation(SpeedStepControl(ParseSpeedStep(vector)))
  <1> DEFINE speed == vector % 128
  <1>1. speed \in 0 .. 127
    BY DEF Byte
  <1> HIDE DEF speed
  <1>2. speed # 0 /\ speed # 1 => speed - 1 \in 1 .. MaxStep
    <2>1. MaxStep \in Nat /\ MaxStep >= 126
      BY StepAssumption, ReceptionAssumption
    <2> QED  BY <1>1, <2>1
  <1>3. ParseSpeedStep(vector) =
            [direction  |-> IF Bit(vector, 7) = 1 THEN "Forward" ELSE "Reverse",
             speed_step |-> IF speed = 0 THEN Stop
                            ELSE IF speed = 1 THEN EmergencyStop
                            ELSE Num(speed - 1)]
    BY DEF ParseSpeedStep, speed
  <1>4. ParseSpeedStep(vector) \in Commandable
    BY <1>2, <1>3 DEF Commandable, Direction
  <1> QED  BY <1>4 DEF IsOperation, SpeedStepControl

LEMMA FeatureExpansionIsGroup ==
    ASSUME NEW first, NEW second, ParseFeatureExpansion(first, second) # None
    PROVE  \E mask \in GroupMasks : \E on :
              ParseFeatureExpansion(first, second) = Some(FunctionGroup(mask, on))
  <1> DEFINE On(n) == {b + n : b \in BitsOn(second, 0 .. 7)}
  <1>1. ParseFeatureExpansion(first, second) =
            CASE first = 222 -> Some(FunctionGroup(FG_FEATURE_13_20, On(13)))
              [] first = 223 -> Some(FunctionGroup(FG_FEATURE_21_28, On(21)))
              [] first = 216 -> Some(FunctionGroup(FG_FEATURE_29_31, On(29)))
              [] OTHER       -> None
    BY DEF ParseFeatureExpansion
  <1> HIDE DEF On
  <1>2. {FG_FEATURE_13_20, FG_FEATURE_21_28, FG_FEATURE_29_31} \subseteq GroupMasks
    BY DEF GroupMasks
  <1>3. CASE first = 222
    BY <1>1, <1>2, <1>3
  <1>4. CASE first = 223
    BY <1>1, <1>2, <1>4
  <1>5. CASE first = 216
    BY <1>1, <1>2, <1>5
  <1> QED  BY <1>1, <1>3, <1>4, <1>5

LEMMA InstructionIsOperation ==
    ASSUME NEW data \in Seq(Byte), IsOk(ParseInstruction(data))
    PROVE  IsOperation(ParseInstruction(data).value)
  <1> DEFINE at    == AddressLength(data) + 1
             first == data[at]
             type  == first \div 32
             fg    == ParseFeatureExpansion(first, data[at + 1])
  <1>1. at \in {2, 3} /\ Len(data) \in Nat
    BY DEF AddressLength
  <1>2. \/ ParseInstruction(data) = Ok(SetFunctionGroup(ParseFg1(first)))
        \/ ParseInstruction(data) = Ok(SetFunctionGroup(ParseFg2(first)))
        \/ /\ Len(data) >= at /\ Len(data) # at
           /\ ParseInstruction(data) = Ok(SpeedStepControl(ParseSpeedStep(data[at + 1])))
        \/ fg # None /\ ParseInstruction(data) = Ok(SetFunctionGroup(CHOOSE g \in fg : TRUE))
    <2>1. Len(data) >= at \/ Len(data) < at
      BY <1>1
    <2> HIDE DEF at
    <2> QED  BY <2>1 DEF ParseInstruction, IsOk, Err, at
  <1> HIDE DEF at, first, type, fg
  <1>3. CASE ParseInstruction(data) = Ok(SetFunctionGroup(ParseFg1(first)))
    BY <1>3, FunctionGroupIsOperation DEF ParseFg1, GroupMasks, Ok
  <1>4. CASE ParseInstruction(data) = Ok(SetFunctionGroup(ParseFg2(first)))
    BY <1>4, FunctionGroupIsOperation DEF ParseFg2, GroupMasks, Ok
  <1>5. CASE /\ Len(data) >= at /\ Len(data) # at
             /\ ParseInstruction(data) = Ok(SpeedStepControl(ParseSpeedStep(data[at + 1])))
    <2>1. at + 1 \in 1 .. Len(data)
      BY <1>1, <1>5
    <2>2. data[at + 1] \in Byte
      BY <2>1
    <2> QED  BY <1>5, <2>2, SpeedStepIsOperation DEF Ok
  <1>6. CASE /\ fg # None
             /\ ParseInstruction(data) = Ok(SetFunctionGroup(CHOOSE g \in fg : TRUE))
    <2>1. PICK mask \in GroupMasks : \E on : fg = Some(FunctionGroup(mask, on))
      BY <1>6, FeatureExpansionIsGroup DEF fg
    <2>2. PICK on : fg = Some(FunctionGroup(mask, on))
      BY <2>1
    <2> DEFINE g == CHOOSE h \in fg : TRUE
    <2>3. g = FunctionGroup(mask, on)
      BY <2>2 DEF Some
    <2>4. ParseInstruction(data) = Ok(SetFunctionGroup(g))
      BY <1>6
    <2> HIDE DEF g
    <2>5. ParseInstruction(data).value = SetFunctionGroup(g)
      BY <2>4 DEF Ok
    <2> QED  BY <2>3, <2>5, FunctionGroupIsOperation
  <1> QED  BY <1>2, <1>3, <1>4, <1>5, <1>6

CommandInv == \A op \in last_command : IsOperation(op)

LEMMA CommandStep ==
    ASSUME ChannelInv, CommandInv, [Next]_vars
    PROVE  CommandInv'
  <1>1. CASE HandlePacket
    <2>1. PICK data \in Seq(Byte) : handled' = data
      BY <1>1 DEF HandlePacket, ChannelInv
    <2>2. \A op \in OperationOf(data) : IsOperation(op)
      BY InstructionIsOperation DEF OperationOf, Some, None, IsOperation
    <2>3. last_command' = last_command \/ last_command' = OperationOf(data)
      BY <1>1, <2>1 DEF HandlePacket
    <2> QED  BY <2>2, <2>3 DEF CommandInv, IsOperation
  <1>2. CASE UNCHANGED last_command
    BY <1>2 DEF CommandInv, IsOperation
  <1> QED
    BY <1>1, <1>2 DEF Next, Pio, PacketStarts, ReadByte, Overrun, Pad, PushCount, PioAside,
       DmaPull, ReadPacket, vars

-----------------------------------------------------------------------------
(* The inductive invariant of the reception.                               *)
ReceptionInv ==
    /\ AlignInv
    /\ ByteInv
    /\ PacketInv
    /\ ChannelInv
    /\ SentInv
    /\ NewestInv
    /\ CommandInv

LEMMA InitReception == Init => ReceptionInv
  <1> SUFFICES ASSUME Init PROVE ReceptionInv
    OBVIOUS
  <1>1. /\ pc = "preamble" /\ rest = <<>> /\ packet = <<>> /\ y = 0
        /\ isr = <<>> /\ fifo = <<>> /\ buff = <<>>
        /\ PACKET_CHANNEL = <<>> /\ handled = <<>> /\ newest = <<>>
        /\ last_command = {}
    BY DEF Init, None
  <1>2. AlignInv /\ PacketInv
    BY <1>1, InitAligned DEF PacketInv
  <1>3. ByteInv
    <2>1. Len(fifo) = 0
      BY <1>1
    <2> QED  BY <1>1, <2>1, RegisterAssumption, ReceptionAssumption DEF ByteInv
  <1>4. ChannelInv /\ CommandInv
    <2>1. Len(PACKET_CHANNEL) = 0 /\ PACKET_CHANNEL \in Seq(Seq(Byte))
      BY <1>1
    <2> QED  BY <1>1, <2>1, ReceptionAssumption DEF ChannelInv, CommandInv
  <1>5. SentInv /\ NewestInv
    <2>1. InFlight = 0
      BY <1>1 DEF InFlight
    <2>2. Blocks = {}
      BY <2>1 DEF Blocks
    <2>3. Len(PACKET_CHANNEL) = 0
      BY <1>1
    <2> QED  BY <1>1, <2>2, <2>3 DEF SentInv, NewestInv
  <1> QED  BY <1>2, <1>3, <1>4, <1>5 DEF ReceptionInv

LEMMA NextReception == ReceptionInv /\ [Next]_vars => ReceptionInv'
  <1> SUFFICES ASSUME ReceptionInv, [Next]_vars PROVE ReceptionInv'
    OBVIOUS
  <1>0. /\ AlignInv /\ ByteInv /\ PacketInv /\ ChannelInv
        /\ SentInv /\ NewestInv /\ CommandInv
    BY DEF ReceptionInv
  <1>1. AlignInv' /\ ByteInv' /\ PacketInv' /\ CommandInv'
    BY <1>0, NextAligned, ByteStep, PacketStep, CommandStep
  <1> SUFFICES ChannelInv' /\ SentInv' /\ NewestInv'
    BY <1>1 DEF ReceptionInv
  <1>2. InFlight \in Nat
    BY <1>0, InFlightIsCount DEF AlignInv
  <1>3. ASSUME UNCHANGED <<isr, fifo, buff, PACKET_CHANNEL, handled, newest>>
        PROVE  ChannelInv' /\ SentInv' /\ NewestInv'
    <2>1. InFlight' = InFlight /\ \A k : StreamAt(k)' = StreamAt(k)
      BY <1>3 DEF InFlight, StreamAt
    <2> QED  BY <1>0, <1>2, <1>3, <2>1, SameStream DEF ChannelInv
  <1>4. CASE ReadByte
    <2>1. /\ pc = "byte" /\ Shift(255 - Head(rest)) /\ buff' = buff
          /\ UNCHANGED <<PACKET_CHANNEL, handled, newest>>
          /\ rest \in Seq(Int) /\ rest # <<>>
      BY <1>0, <1>4 DEF ReadByte, PioAside, AlignInv, Registers
    <2>2. 255 - Head(rest) \in Int
      BY <2>1
    <2>3. PICK s \in Track \union Garbled : UnderWay(s)
      BY <1>0, <2>1 DEF PacketInv
    <2>4. InFlight % 8 = 7 => ~ Taken(Received(Completed(255 - Head(rest))))
      BY <1>0, <1>4, <2>3, DataBlockNotTaken
    <2> QED  BY <1>0, <2>1, <2>2, <2>4, ShiftTakesNothing DEF AlignInv, ChannelInv
  <1>5. CASE Pad
    <2>1. /\ Shift(0) /\ buff' = buff
          /\ UNCHANGED <<PACKET_CHANNEL, handled, newest>>
      BY <1>5 DEF Pad, PioAside
    <2> QED  BY <1>0, <2>1, PaddedBlockNotTaken, ShiftTakesNothing DEF AlignInv, ChannelInv
  <1>6. CASE PushCount
    <2>1. UNCHANGED PACKET_CHANNEL
      BY <1>6 DEF PushCount, PioAside
    <2> QED  BY <1>0, <1>6, <2>1, CountStep DEF ChannelInv
  <1>7. CASE DmaPull
    <2>1. UNCHANGED <<PACKET_CHANNEL, handled, newest>>
      BY <1>7 DEF DmaPull, pioVars
    <2>2. InFlight' = InFlight /\ \A k \in 1 .. InFlight : StreamAt(k)' = StreamAt(k)
      BY <1>0, <1>7, PullKeepsStream DEF AlignInv
    <2> QED  BY <1>0, <1>2, <2>1, <2>2, SameStream DEF ChannelInv
  <1>8. CASE ReadPacket
    BY <1>0, <1>8, ReadStep
  <1>9. CASE HandlePacket
    BY <1>0, <1>9, HandleStep
  <1>10. CASE (\E raw \in Track \union Noise : PacketStarts(raw)) \/ Overrun \/ UNCHANGED vars
    BY <1>3, <1>10 DEF PacketStarts, Overrun, PioAside, vars, pioVars
  <1> QED
    BY <1>4, <1>5, <1>6, <1>7, <1>8, <1>9, <1>10 DEF Next, Pio

LEMMA ReceptionTypes == ReceptionInv => TypeOK
  <1> SUFFICES ASSUME ReceptionInv PROVE TypeOK
    OBVIOUS
  <1>1. Buffers /\ Registers /\ ByteInv /\ ChannelInv /\ CommandInv
    BY DEF ReceptionInv, AlignInv
  <1>2. x \in 0 .. XModulus - 1 /\ y \in 0 .. XModulus - 1
    BY <1>1, RegisterAssumption DEF Registers, ByteInv
  <1>3. \A i \in DOMAIN fifo : fifo[i] \in Seq(Byte) /\ Len(fifo[i]) = 4
    BY <1>1 DEF Buffers, ByteInv
  <1> QED  BY <1>1, <1>2, <1>3 DEF TypeOK, Buffers, Registers, ByteInv, ChannelInv, CommandInv

(* What packet_handler takes for an operation is one that the tasks below  *)
(* it are specified for, whatever is received (handler.rs, packet.rs).     *)
THEOREM ReceptionTypeCorrect == Spec => []TypeOK
  BY InitReception, NextReception, ReceptionTypes, PTL DEF Spec

(* No packet is made up of bytes of several, of padding or of noise:       *)
(* what is handled was on the track (pio_decoder.rs:59-76,                 *)
(* transport/mod.rs:20-34).                                                *)
THEOREM HandledPacketsWereSent == Spec => []HandledWasSent
  <1>1. ReceptionInv => HandledWasSent
    BY DEF ReceptionInv, SentInv, Sent, HandledWasSent
  <1> QED  BY <1>1, InitReception, NextReception, PTL DEF Spec

(* Whatever is lost on the way, in the FIFO or in the channel, it is not   *)
(* the packet received in whole last (main.rs:136).                        *)
THEOREM NewestPacketSurvives == Spec => []NewestSurvives
  <1>1. ASSUME ReceptionInv, Drained PROVE handled = newest
    <2>1. InFlight = 0 /\ PACKET_CHANNEL = <<>> /\ NewestInv
      BY <1>1 DEF ReceptionInv, Drained
    <2>2. Blocks = {}
      BY <2>1 DEF Blocks
    <2> QED  BY <2>1, <2>2 DEF NewestInv
  <1>2. ReceptionInv => NewestSurvives
    BY <1>1 DEF NewestSurvives
  <1> QED  BY <1>2, InitReception, NextReception, PTL DEF Spec

-----------------------------------------------------------------------------
(* FlattenSeq. Its recursion is over the length of the sequence, and so is *)
(* the induction: a set of numbers that has 0 and with each number the next*)
(* one has all of them.                                                    *)
LEMMA CountingUp ==
    ASSUME NEW A \in SUBSET Nat, 0 \in A, \A n \in A : n + 1 \in A
    PROVE  A = Nat
  <1> SUFFICES ASSUME A # Nat PROVE FALSE
    OBVIOUS
  <1>1. Nat \ A \in SUBSET Nat /\ Nat \ A # {}
    OBVIOUS
  <1>2. PICK n \in Nat \ A : \A m \in Nat \ A : ~ (<<m, n>> \in OpToRel(<, Nat))
    BY <1>1, NatLessThanWellFounded, WFMin
  <1>3. \A m \in Nat \ A : ~ (m < n)
    BY <1>2 DEF OpToRel
  <1>4. n \in Nat /\ n # 0
    OBVIOUS
  <1>5. n - 1 \in Nat /\ n - 1 < n /\ (n - 1) + 1 = n
    BY <1>4
  <1>6. n - 1 \in A
    BY <1>3, <1>5
  <1> QED  BY <1>5, <1>6

FlattensTo(s, f) == f = [i \in 1 .. Len(s) |-> IF i = 1 THEN s[i] ELSE f[i - 1] \o s[i]]

LEMMA FlattenExists ==
    ASSUME NEW D, NEW s \in Seq(D)
    PROVE  \E f : FlattensTo(s, f)
  <1> DEFINE Body(f, i) == IF i = 1 THEN s[i] ELSE f[i - 1] \o s[i]
             Upto(n, f) == \A i \in 1 .. n : f[i] = Body(f, i)
             A == {n \in Nat : \E f : Upto(n, f)}
  <1>1. 0 \in A
    OBVIOUS
  <1>2. ASSUME NEW n \in A PROVE n + 1 \in A
    <2>1. n \in Nat /\ \E f : Upto(n, f)
      OBVIOUS
    <2>2. PICK f : Upto(n, f)
      BY <2>1
    <2> DEFINE h == [i \in 1 .. n + 1 |-> Body(f, i)]
    <2>3. ASSUME NEW i \in 1 .. n + 1 PROVE h[i] = Body(h, i)
      <3>1. h[i] = Body(f, i)
        OBVIOUS
      <3>2. CASE i = 1
        BY <3>1, <3>2
      <3>3. CASE i # 1
        <4>1. i - 1 \in 1 .. n /\ i - 1 \in 1 .. n + 1
          BY <2>1, <3>3
        <4>2. h[i - 1] = f[i - 1]
          BY <2>2, <4>1
        <4> HIDE DEF h
        <4> QED  BY <3>1, <3>3, <4>2
      <3> QED  BY <3>2, <3>3
    <2> HIDE DEF h
    <2>4. \E g : Upto(n + 1, g)
      BY <2>3
    <2>5. n + 1 \in Nat
      BY <2>1
    <2> HIDE DEF Upto
    <2> QED  BY <2>4, <2>5
  <1> HIDE DEF A
  <1>3. Len(s) \in A
    <2>1. A \in SUBSET Nat
      BY DEF A
    <2>2. A = Nat
      BY <1>1, <1>2, <2>1, CountingUp
    <2> QED  BY <2>2, LenProperties
  <1>4. PICK f : Upto(Len(s), f)
    BY <1>3 DEF A
  <1> DEFINE g == [i \in 1 .. Len(s) |-> Body(f, i)]
  <1>5. ASSUME NEW i \in 1 .. Len(s) PROVE Body(f, i) = Body(g, i)
    <2>1. CASE i # 1
      <3>1. i - 1 \in 1 .. Len(s)
        BY <2>1, LenProperties
      <3>2. g[i - 1] = f[i - 1]
        BY <1>4, <3>1
      <3> HIDE DEF g
      <3> QED  BY <2>1, <3>2
    <2> QED  BY <2>1
  <1>6. g = [i \in 1 .. Len(s) |-> Body(g, i)]
    <2> DEFINE k == [i \in 1 .. Len(s) |-> Body(g, i)]
    <2>1. \A i \in 1 .. Len(s) : g[i] = k[i]
      BY <1>5
    <2>2. g = [i \in 1 .. Len(s) |-> g[i]] /\ k = [i \in 1 .. Len(s) |-> k[i]]
      OBVIOUS
    <2> HIDE DEF g, k
    <2>3. g = k
      BY <2>1, <2>2
    <2> QED  BY <2>3 DEF k
  <1> HIDE DEF g
  <1> QED  BY <1>6 DEF FlattensTo

LEMMA FlattenIsLast ==
    ASSUME NEW D, NEW s \in Seq(D), s # <<>>
    PROVE  \E f : FlattensTo(s, f) /\ FlattenSeq(s) = f[Len(s)]
  <1> DEFINE flatten[i \in 1 .. Len(s)] ==
                 IF i = 1 THEN s[i] ELSE flatten[i - 1] \o s[i]
  <1>1. Len(s) # 0
    OBVIOUS
  <1>2. FlattenSeq(s) = flatten[Len(s)]
    BY <1>1 DEF FlattenSeq
  <1>3. FlattensTo(s, flatten)
    BY FlattenExists DEF FlattensTo
  <1> HIDE DEF flatten
  <1> QED  BY <1>2, <1>3

LEMMA FlattenStep ==
    ASSUME NEW s, NEW f, FlattensTo(s, f), NEW i \in 1 .. Len(s)
    PROVE  f[i] = IF i = 1 THEN s[i] ELSE f[i - 1] \o s[i]
  <1> DEFINE g == [j \in 1 .. Len(s) |-> IF j = 1 THEN s[j] ELSE f[j - 1] \o s[j]]
  <1>1. g[i] = IF i = 1 THEN s[i] ELSE f[i - 1] \o s[i]
    OBVIOUS
  <1>2. f = g
    BY DEF FlattensTo
  <1> HIDE DEF g
  <1> QED  BY <1>1, <1>2, Zenon

LEMMA FlattenEmpty == FlattenSeq(<<>>) = <<>>
  BY DEF FlattenSeq

(* A prefix of a sequence of sequences is flattened as it is in the whole. *)
LEMMA FlattenPrefix ==
    ASSUME NEW s, NEW t, NEW f, NEW g, FlattensTo(s, f), FlattensTo(t, g),
           Len(s) \in Nat, Len(t) \in Nat, Len(s) <= Len(t),
           \A i \in 1 .. Len(s) : t[i] = s[i]
    PROVE  \A i \in 1 .. Len(s) : g[i] = f[i]
  <1> DEFINE A == {n \in Nat : n + 1 <= Len(s) => g[n + 1] = f[n + 1]}
  <1>1. 0 \in A
    <2>1. ASSUME 0 + 1 <= Len(s) PROVE g[0 + 1] = f[0 + 1]
      <3>1. 1 \in 1 .. Len(s) /\ 1 \in 1 .. Len(t)
        BY <2>1
      <3>2. f[1] = s[1] /\ g[1] = t[1]
        BY <3>1, FlattenStep
      <3> QED  BY <3>1, <3>2
    <2> QED  BY <2>1
  <1>2. ASSUME NEW n \in A PROVE n + 1 \in A
    <2>1. n \in Nat /\ (n + 1 <= Len(s) => g[n + 1] = f[n + 1])
      OBVIOUS
    <2>2. ASSUME (n + 1) + 1 <= Len(s) PROVE g[(n + 1) + 1] = f[(n + 1) + 1]
      <3> DEFINE i == (n + 1) + 1
      <3>1. i \in 1 .. Len(s) /\ i \in 1 .. Len(t) /\ i # 1 /\ i - 1 = n + 1
        BY <2>1, <2>2
      <3>2. g[i - 1] = f[i - 1]
        BY <2>1, <2>2, <3>1
      <3> HIDE DEF i
      <3>3. f[i] = f[i - 1] \o s[i]
        BY <3>1, FlattenStep
      <3>4. g[i] = g[i - 1] \o t[i]
        BY <3>1, FlattenStep
      <3>5. g[i] = f[i]
        BY <3>1, <3>2, <3>3, <3>4
      <3> QED  BY <3>5 DEF i
    <2>3. n + 1 \in Nat
      BY <2>1
    <2> QED  BY <2>2, <2>3
  <1> HIDE DEF A
  <1>3. A = Nat
    <2>1. A \in SUBSET Nat
      BY DEF A
    <2> QED  BY <1>1, <1>2, <2>1, CountingUp
  <1>4. ASSUME NEW i \in 1 .. Len(s) PROVE g[i] = f[i]
    <2>1. i - 1 \in Nat /\ (i - 1) + 1 = i /\ i <= Len(s)
      OBVIOUS
    <2>2. i - 1 \in A
      BY <1>3, <2>1
    <2> QED  BY <2>1, <2>2 DEF A
  <1> QED  BY <1>4

LEMMA FlattenAppend ==
    ASSUME NEW D, NEW s \in Seq(Seq(D)), NEW t \in Seq(D)
    PROVE  FlattenSeq(Append(s, t)) = FlattenSeq(s) \o t
  <1> DEFINE u == Append(s, t)
             n == Len(s)
  <1>1. /\ u \in Seq(Seq(D)) /\ Len(u) = n + 1 /\ n \in Nat
        /\ \A i \in 1 .. n : u[i] = s[i]
        /\ u[n + 1] = t
    BY AppendProperties, LenProperties
  <1> HIDE DEF u
  <1>2. u # <<>>
    BY <1>1
  <1>3. PICK g : FlattensTo(u, g) /\ FlattenSeq(u) = g[n + 1]
    BY <1>1, <1>2, FlattenIsLast
  <1>4. n + 1 \in 1 .. Len(u)
    BY <1>1
  <1>5. g[n + 1] = IF n + 1 = 1 THEN t ELSE g[(n + 1) - 1] \o t
    BY <1>1, <1>3, <1>4, FlattenStep
  <1>6. CASE s = <<>>
    <2>1. n = 0
      BY <1>6
    <2>2. g[n + 1] = t
      BY <1>5, <2>1
    <2>3. FlattenSeq(s) \o t = t
      BY <1>6, FlattenEmpty, ConcatEmptySeq
    <2> QED  BY <1>3, <2>2, <2>3 DEF u
  <1>7. CASE s # <<>>
    <2>1. PICK f : FlattensTo(s, f) /\ FlattenSeq(s) = f[n]
      BY <1>7, FlattenIsLast
    <2>2. n \in 1 .. n /\ n + 1 # 1 /\ (n + 1) - 1 = n
      <3>1. n # 0
        BY <1>7
      <3> HIDE DEF n
      <3> QED  BY <1>1, <3>1
    <2>3. Len(u) \in Nat /\ n <= Len(u)
      BY <1>1
    <2>4. g[n] = f[n]
      <3>1. Len(s) \in Nat /\ Len(s) <= Len(u) /\ \A i \in 1 .. Len(s) : u[i] = s[i]
        BY <1>1, <2>3
      <3>2. FlattensTo(s, f) /\ FlattensTo(u, g)
        BY <1>3, <2>1
      <3>3. \A i \in 1 .. Len(s) : g[i] = f[i]
        <4> HIDE DEF n
        <4>1. Len(u) \in Nat
          BY <2>3
        <4> QED  BY <3>1, <3>2, <4>1, FlattenPrefix
      <3> QED  BY <2>2, <3>3
    <2> HIDE DEF n
    <2>5. FlattenSeq(u) = FlattenSeq(s) \o t
      BY <1>3, <1>5, <2>1, <2>2, <2>4
    <2> QED  BY <2>5 DEF u
  <1> QED  BY <1>6, <1>7


LEMMA FlattenType ==
    ASSUME NEW D, NEW s \in Seq(Seq(D))
    PROVE  FlattenSeq(s) \in Seq(D)
  <1> DEFINE A == {n \in Nat : \A r \in Seq(Seq(D)) : Len(r) = n => FlattenSeq(r) \in Seq(D)}
  <1>1. 0 \in A
    <2>1. ASSUME NEW r \in Seq(Seq(D)), Len(r) = 0 PROVE FlattenSeq(r) \in Seq(D)
      <3>1. r = <<>>
        BY <2>1
      <3> QED  BY <3>1, FlattenEmpty, EmptySeq
    <2> QED  BY <2>1
  <1>2. ASSUME NEW n \in A PROVE n + 1 \in A
    <2>1. n \in Nat /\ \A r \in Seq(Seq(D)) : Len(r) = n => FlattenSeq(r) \in Seq(D)
      OBVIOUS
    <2>2. ASSUME NEW r \in Seq(Seq(D)), Len(r) = n + 1 PROVE FlattenSeq(r) \in Seq(D)
      <3>1. r # <<>>
        BY <2>1, <2>2
      <3>2. PICK q \in Seq(Seq(D)), e \in Seq(D) : r = Append(q, e)
        BY <3>1, SequenceEmptyOrAppend
      <3>3. Len(q) = n
        BY <2>1, <2>2, <3>2
      <3>4. FlattenSeq(q) \in Seq(D) /\ FlattenSeq(r) = FlattenSeq(q) \o e
        BY <2>1, <3>2, <3>3, FlattenAppend
      <3> QED  BY <3>4, ConcatProperties
    <2>3. n + 1 \in Nat
      BY <2>1
    <2> HIDE DEF A
    <2> QED  BY <2>2, <2>3 DEF A
  <1> HIDE DEF A
  <1>3. A = Nat
    <2>1. A \in SUBSET Nat
      BY DEF A
    <2> QED  BY <1>1, <1>2, <2>1, CountingUp
  <1>4. Len(s) \in A
    BY <1>3, LenProperties
  <1> QED  BY <1>4 DEF A

LEMMA FlattenHeadTail ==
    ASSUME NEW D, NEW s \in Seq(Seq(D)), s # <<>>
    PROVE  FlattenSeq(s) = Head(s) \o FlattenSeq(Tail(s))
  <1> DEFINE Splits(r) == r # <<>> => FlattenSeq(r) = Head(r) \o FlattenSeq(Tail(r))
             A == {n \in Nat : \A r \in Seq(Seq(D)) : Len(r) = n => Splits(r)}
  <1>1. 0 \in A
    OBVIOUS
  <1>2. ASSUME NEW n \in A PROVE n + 1 \in A
    <2>1. n \in Nat /\ \A r \in Seq(Seq(D)) : Len(r) = n => Splits(r)
      OBVIOUS
    <2>2. ASSUME NEW r \in Seq(Seq(D)), Len(r) = n + 1, r # <<>>
          PROVE  FlattenSeq(r) = Head(r) \o FlattenSeq(Tail(r))
      <3>1. PICK q \in Seq(Seq(D)), e \in Seq(D) : r = Append(q, e)
        BY <2>2, SequenceEmptyOrAppend
      <3>2. Len(q) = n
        BY <2>1, <2>2, <3>1
      <3>3. FlattenSeq(r) = FlattenSeq(q) \o e
        BY <3>1, FlattenAppend
      <3>4. CASE q = <<>>
        <4>1. Head(r) = e /\ Tail(r) = <<>>
          BY <3>1, <3>4, HeadTailAppend
        <4>2. <<>> \o e = e /\ e \o <<>> = e
          BY ConcatEmptySeq
        <4> QED  BY <3>3, <3>4, <4>1, <4>2, FlattenEmpty
      <3>5. CASE q # <<>>
        <4>1. Head(r) = Head(q) /\ Tail(r) = Append(Tail(q), e)
          BY <3>1, <3>5, HeadTailAppend
        <4>2. Head(q) \in Seq(D) /\ Tail(q) \in Seq(Seq(D))
          BY <3>5
        <4>3. FlattenSeq(q) = Head(q) \o FlattenSeq(Tail(q))
          BY <2>1, <3>2, <3>5
        <4>4. FlattenSeq(Tail(q)) \in Seq(D) /\ FlattenSeq(Tail(r)) = FlattenSeq(Tail(q)) \o e
          BY <4>1, <4>2, FlattenAppend, FlattenType
        <4>5. (Head(q) \o FlattenSeq(Tail(q))) \o e = Head(q) \o (FlattenSeq(Tail(q)) \o e)
          <5> DEFINE a == Head(q)
                     b == FlattenSeq(Tail(q))
          <5>1. a \in Seq(D) /\ b \in Seq(D) /\ e \in Seq(D)
            BY <4>2, <4>4
          <5> HIDE DEF a, b
          <5>2. (a \o b) \o e = a \o (b \o e)
            BY <5>1, ConcatAssociative, SMTT(30)
          <5> QED  BY <5>2 DEF a, b
        <4> QED  BY <3>3, <4>1, <4>3, <4>4, <4>5, Zenon
      <3> QED  BY <3>4, <3>5
    <2>3. n + 1 \in Nat
      BY <2>1
    <2> HIDE DEF A
    <2> QED  BY <2>2, <2>3 DEF A
  <1> HIDE DEF A
  <1>3. A = Nat
    <2>1. A \in SUBSET Nat
      BY DEF A
    <2> QED  BY <1>1, <1>2, <2>1, CountingUp
  <1>4. Len(s) \in A
    BY <1>3, LenProperties
  <1> QED  BY <1>4 DEF A


LEMMA HeadTailConcat ==
    ASSUME NEW D, NEW s \in Seq(D), s # <<>>, NEW t \in Seq(D)
    PROVE  s \o t # <<>> /\ Head(s \o t) = Head(s) /\ Tail(s \o t) = Tail(s) \o t
  <1>1. PICK m \in Nat, n \in Nat : Len(s) = m /\ Len(t) = n /\ m > 0
    <2>1. Len(s) \in Nat /\ Len(t) \in Nat /\ Len(s) # 0
      OBVIOUS
    <2> QED  BY <2>1
  <1>2. /\ s \o t \in Seq(D) /\ Len(s \o t) = m + n
        /\ \A i \in 1 .. m + n : (s \o t)[i] = IF i <= m THEN s[i] ELSE t[i - m]
    BY <1>1, ConcatProperties
  <1> DEFINE u == s \o t
             r == Tail(s)
  <1>3. u \in Seq(D) /\ Len(u) = m + n /\ u # <<>>
    BY <1>1, <1>2
  <1>4. r \in Seq(D) /\ Len(r) = m - 1 /\ \A i \in 1 .. m - 1 : r[i] = s[i + 1]
    BY <1>1, HeadTailProperties
  <1>5. Head(u) = Head(s)
    <2>1. Head(u) = u[1] /\ Head(s) = s[1] /\ 1 \in 1 .. m + n /\ 1 <= m
      BY <1>1, <1>3
    <2> QED  BY <1>2, <2>1
  <1> HIDE DEF r
  <1>6. /\ r \o t \in Seq(D) /\ Len(r \o t) = (m - 1) + n
        /\ \A i \in 1 .. (m - 1) + n : (r \o t)[i] = IF i <= m - 1 THEN r[i] ELSE t[i - (m - 1)]
    <2>1. /\ r \o t \in Seq(D) /\ Len(r \o t) = Len(r) + Len(t)
          /\ \A i \in 1 .. Len(r) + Len(t) :
                (r \o t)[i] = IF i <= Len(r) THEN r[i] ELSE t[i - Len(r)]
      BY <1>4, ConcatProperties, Zenon
    <2>2. Len(r) = m - 1 /\ Len(t) = n
      BY <1>1, <1>4
    <2> QED  BY <2>1, <2>2
  <1>7. /\ Tail(u) \in Seq(D) /\ Len(Tail(u)) = (m - 1) + n
        /\ \A i \in 1 .. (m - 1) + n : Tail(u)[i] = u[i + 1]
    <2> HIDE DEF u
    <2>1. /\ Tail(u) \in Seq(D) /\ Len(Tail(u)) = Len(u) - 1
          /\ \A i \in 1 .. Len(Tail(u)) : Tail(u)[i] = u[i + 1]
      BY <1>3, HeadTailProperties
    <2>2. Len(u) - 1 = (m - 1) + n
      BY <1>1, <1>3
    <2> QED  BY <2>1, <2>2
  <1>8. ASSUME NEW i \in 1 .. (m - 1) + n PROVE Tail(u)[i] = (r \o t)[i]
    <2>1. i + 1 \in 1 .. m + n
      BY <1>1
    <2>2. Tail(u)[i] = IF i + 1 <= m THEN s[i + 1] ELSE t[(i + 1) - m]
      BY <1>2, <1>7, <2>1
    <2> HIDE DEF u
    <2>3. CASE i <= m - 1
      <3>1. i \in 1 .. m - 1 /\ i + 1 <= m
        BY <1>1, <2>3
      <3> QED  BY <1>4, <1>6, <2>2, <2>3, <3>1
    <2>4. CASE ~ (i <= m - 1)
      <3>1. ~ (i + 1 <= m) /\ (i + 1) - m = i - (m - 1)
        BY <1>1, <2>4
      <3> QED  BY <1>6, <2>2, <2>4, <3>1
    <2> QED  BY <2>3, <2>4
  <1>9. Tail(u) = r \o t
    <2> DEFINE v == Tail(u)
               w == r \o t
    <2>1. v \in Seq(D) /\ w \in Seq(D) /\ Len(v) = (m - 1) + n /\ Len(w) = (m - 1) + n
      BY <1>6, <1>7
    <2>2. \A i \in 1 .. (m - 1) + n : v[i] = w[i]
      BY <1>8
    <2> HIDE DEF v, w, u
    <2>3. v = w
      BY <2>1, <2>2, SeqEqual
    <2> QED  BY <2>3 DEF v, w
  <1> QED  BY <1>3, <1>5, <1>9 DEF r

(* What a block brings, as the invariants say it.                           *)
LEMMA BlockBrings ==
    ASSUME NEW b
    PROVE  PacketIn(b) = IF BlockTaken(b) THEN <<BlockData(b)>> ELSE <<>>
  BY DEF PacketIn, BlockTaken, BlockData

-----------------------------------------------------------------------------
(* The packets on their way as the queue of Delivery. Data is Seq(Byte).   *)
LEMMA InStreamType ==
    ASSUME AlignInv, ChannelInv, SentInv
    PROVE  /\ InStream \in Seq(Seq(Seq(Byte)))
           /\ Len(InStream) = InFlight \div 8
           /\ FlattenSeq(InStream) \in Seq(Seq(Byte))
           /\ OnTheWay \in Seq(Seq(Byte))
           /\ \A b \in Blocks : b + 1 \in 1 .. Len(InStream) /\ InStream[b + 1] = PacketIn(b)
  <1>1. PICK n \in Nat : InFlight \div 8 = n
    <2>1. InFlight \in Nat
      BY InFlightIsCount DEF AlignInv
    <2> QED  BY <2>1
  <1>2. Blocks = 0 .. n - 1 /\ InStream = [k \in 1 .. n |-> PacketIn(k - 1)]
    BY <1>1 DEF Blocks, InStream
  <1>3. ASSUME NEW k \in 1 .. n PROVE PacketIn(k - 1) \in Seq(Seq(Byte))
    <2>1. k - 1 \in Blocks
      BY <1>2
    <2>2. CASE BlockTaken(k - 1)
      <3>1. BlockData(k - 1) \in Seq(Byte)
        BY <2>1, <2>2, SentBytes DEF SentInv
      <3>2. <<BlockData(k - 1)>> \in Seq(Seq(Byte))
        BY <3>1
      <3> QED  BY <2>2, <3>2, BlockBrings
    <2>3. CASE ~ BlockTaken(k - 1)
      <3>1. <<>> \in Seq(Seq(Byte))
        BY EmptySeq
      <3> QED  BY <2>3, <3>1, BlockBrings
    <2> QED  BY <2>2, <2>3
  <1>4. InStream \in Seq(Seq(Seq(Byte))) /\ Len(InStream) = n
    <2> DEFINE D == Seq(Seq(Byte))
    <2>1. \A k \in 1 .. n : PacketIn(k - 1) \in D
      BY <1>3
    <2> HIDE DEF D
    <2>2. InStream \in Seq(D) /\ Len(InStream) = n
      BY <1>2, <2>1
    <2> QED  BY <2>2 DEF D
  <1>5. FlattenSeq(InStream) \in Seq(Seq(Byte))
    BY <1>4, FlattenType
  <1>6. OnTheWay \in Seq(Seq(Byte))
    BY <1>5, ConcatProperties DEF OnTheWay, ChannelInv
  <1>7. \A b \in Blocks : b + 1 \in 1 .. n /\ InStream[b + 1] = PacketIn(b)
    <2> TAKE b \in Blocks
    <2>1. b + 1 \in 1 .. n /\ (b + 1) - 1 = b
      BY <1>2
    <2> QED  BY <1>2, <2>1
  <1> QED  BY <1>1, <1>4, <1>5, <1>6, <1>7

LEMMA SameOnTheWay ==
    ASSUME InFlight \in Nat, InFlight' \div 8 = InFlight \div 8,
           \A b \in Blocks : Block(b)' = Block(b), PACKET_CHANNEL' = PACKET_CHANNEL
    PROVE  OnTheWay' = OnTheWay
  <1>1. PICK n \in Nat : InFlight \div 8 = n
    OBVIOUS
  <1>2. ASSUME NEW k \in 1 .. n PROVE PacketIn(k - 1)' = PacketIn(k - 1)
    <2>1. k - 1 \in Blocks
      BY <1>1 DEF Blocks
    <2> QED  BY <2>1 DEF PacketIn
  <1>3. InStream' = InStream
    <2>1. InStream = [k \in 1 .. n |-> PacketIn(k - 1)]
      BY <1>1 DEF InStream
    <2>2. InStream' = [k \in 1 .. n |-> PacketIn(k - 1)']
      BY <1>1 DEF InStream
    <2> QED  BY <1>2, <2>1, <2>2
  <1> QED  BY <1>3 DEF OnTheWay


(* A byte changes the queue only when it completes a block that is taken.  *)
LEMMA ShiftOnTheWay ==
    ASSUME AlignInv, ChannelInv, SentInv, NEW byte \in Int, Shift(byte),
           buff' = buff, PACKET_CHANNEL' = PACKET_CHANNEL
    PROVE  /\ InFlight % 8 # 7 => OnTheWay' = OnTheWay
           /\ InFlight % 8 = 7 /\ ~ Taken(Received(Completed(byte))) => OnTheWay' = OnTheWay
           /\ /\ InFlight % 8 = 7
              /\ Taken(Received(Completed(byte)))
              /\ Decode(Received(Completed(byte))).value \in Seq(Byte)
              => OnTheWay' = Append(OnTheWay, Decode(Received(Completed(byte))).value)
  <1>1. PICK n \in Nat : InFlight = n /\ InFlight' = n + 1
    BY ShiftAddsOne DEF AlignInv
  <1>2. \A b \in Blocks : Block(b)' = Block(b)
    BY ShiftKeepsBlocks DEF AlignInv
  <1>3. ASSUME n % 8 # 7 PROVE OnTheWay' = OnTheWay
    <2>1. (n + 1) \div 8 = n \div 8
      BY <1>3
    <2> QED  BY <1>1, <1>2, <2>1, SameOnTheWay
  <1> DEFINE done == Completed(byte)
             item == IF Taken(Received(done)) THEN <<Decode(Received(done)).value>> ELSE <<>>
  <1>4. ASSUME n % 8 = 7, item \in Seq(Seq(Byte))
        PROVE  OnTheWay' = OnTheWay \o item
    <2>1. PICK m \in Nat : n \div 8 = m /\ (n + 1) \div 8 = m + 1
      BY <1>4
    <2>2. Blocks = 0 .. m - 1 /\ Blocks' = 0 .. m
      BY <1>1, <2>1 DEF Blocks
    <2>3. PICK b \in Blocks' : /\ Blocks' = Blocks \union {b}
                               /\ Block(b)' = [i \in 1 .. 8 |-> IF i = 8 THEN byte
                                                      ELSE StreamAt(InFlight - 7 + i)]
      BY <1>1, <1>4, ShiftKeepsBlocks DEF AlignInv
    <2>4. b = m
      <3>1. m \in Blocks' /\ m \notin Blocks
        BY <2>2
      <3> QED  BY <2>3, <3>1
    <2>5. Block(m)' = done
      BY <2>3, <2>4 DEF Completed
    <2> HIDE DEF done
    <2>6. PacketIn(m)' = item
      BY <2>5 DEF PacketIn
    <2>7. ASSUME NEW k \in 1 .. m PROVE PacketIn(k - 1)' = PacketIn(k - 1)
      <3>1. k - 1 \in Blocks
        BY <2>2
      <3> QED  BY <1>2, <3>1 DEF PacketIn
    <2> HIDE DEF item
    <2>8. InStream' = [k \in 1 .. m + 1 |-> PacketIn(k - 1)']
      BY <1>1, <2>1 DEF InStream
    <2>9. InStream \in Seq(Seq(Seq(Byte))) /\ Len(InStream) = m
      BY <1>1, <2>1, InStreamType
    <2>10. \A k \in 1 .. m : InStream[k] = PacketIn(k - 1)
      BY <1>1, <2>1 DEF InStream
    <2>11. InStream' = Append(InStream, item)
      <3> DEFINE D == Seq(Seq(Byte))
                 s == InStream
                 t == Append(s, item)
      <3>1. s \in Seq(D) /\ item \in D /\ Len(s) = m
        BY <1>4, <2>9
      <3> HIDE DEF D, s
      <3>2. /\ t \in Seq(D) /\ Len(t) = Len(s) + 1
            /\ \A k \in 1 .. Len(s) : t[k] = s[k]
            /\ t[Len(s) + 1] = item
        BY <3>1, AppendProperties
      <3> HIDE DEF t
      <3>3. ASSUME NEW k \in 1 .. m + 1 PROVE t[k] = PacketIn(k - 1)'
        <4>1. CASE k = m + 1
          <5>1. k - 1 = m
            BY <4>1
          <5> QED  BY <2>6, <3>1, <3>2, <4>1, <5>1
        <4>2. CASE k # m + 1
          <5>1. k \in 1 .. m
            BY <4>2
          <5> QED  BY <2>7, <2>10, <3>1, <3>2, <5>1 DEF s
        <4> QED  BY <4>1, <4>2
      <3>4. t = [k \in 1 .. m + 1 |-> t[k]]
        BY <3>1, <3>2
      <3>5. t = InStream'
        BY <2>8, <3>3, <3>4
      <3> QED  BY <3>5 DEF t, s
    <2>12. FlattenSeq(InStream') = FlattenSeq(InStream) \o item
      BY <1>4, <2>9, <2>11, FlattenAppend
    <2>13. OnTheWay' = PACKET_CHANNEL \o (FlattenSeq(InStream) \o item)
      BY <2>12 DEF OnTheWay
    <2> DEFINE a == FlattenSeq(InStream)
    <2>14. PACKET_CHANNEL \in Seq(Seq(Byte)) /\ a \in Seq(Seq(Byte)) /\ item \in Seq(Seq(Byte))
      BY <1>4, InStreamType DEF ChannelInv
    <2> HIDE DEF a
    <2>15. (PACKET_CHANNEL \o a) \o item = PACKET_CHANNEL \o (a \o item)
      <3> DEFINE D == Seq(Byte)
      <3>1. PACKET_CHANNEL \in Seq(D) /\ a \in Seq(D) /\ item \in Seq(D)
        BY <2>14
      <3> HIDE DEF D, item
      <3> QED  BY <3>1, ConcatAssociative
    <2> QED  BY <2>13, <2>15 DEF a, OnTheWay
  <1>5. OnTheWay \in Seq(Seq(Byte))
    BY InStreamType
  <1>6. ASSUME n % 8 = 7, ~ Taken(Received(done)) PROVE OnTheWay' = OnTheWay
    <2>1. item = <<>> /\ item \in Seq(Seq(Byte))
      BY <1>6, EmptySeq
    <2>2. OnTheWay' = OnTheWay \o <<>>
      BY <1>4, <1>6, <2>1
    <2> QED  BY <1>5, <2>2, ConcatEmptySeq
  <1>7. ASSUME n % 8 = 7, Taken(Received(done)), Decode(Received(done)).value \in Seq(Byte)
        PROVE  OnTheWay' = Append(OnTheWay, Decode(Received(done)).value)
    <2> DEFINE data == Decode(Received(done)).value
    <2>1. data \in Seq(Byte)
      BY <1>7
    <2>2. item = <<data>>
      BY <1>7
    <2> HIDE DEF data
    <2>3. item \in Seq(Seq(Byte))
      BY <2>1, <2>2
    <2>4. OnTheWay' = OnTheWay \o <<data>>
      BY <1>4, <1>7, <2>2, <2>3
    <2>5. OnTheWay' = Append(OnTheWay, data)
      BY <1>5, <2>1, <2>4, AppendIsConcat
    <2> QED  BY <2>5 DEF data
  <1> QED  BY <1>1, <1>3, <1>6, <1>7


(* The reader takes the first block: its packet moves to the channel, which*)
(* loses its oldest one if it is full.                                     *)
LEMMA ReadFlattens ==
    ASSUME AlignInv, ChannelInv, SentInv, ReadPacket
    PROVE  /\ FlattenSeq(InStream)' \in Seq(Seq(Byte))
           /\ PacketIn(0) \in Seq(Seq(Byte))
           /\ FlattenSeq(InStream) = PacketIn(0) \o FlattenSeq(InStream)'
  <1>1. PICK m \in Nat : InFlight \div 8 = m /\ InFlight' \div 8 = m - 1 /\ m > 0
    <2>1. PICK n \in Nat : InFlight = n /\ InFlight' = n - 8 /\ 8 <= n
      BY ReadTakes
    <2>2. PICK m \in Nat : n \div 8 = m /\ (n - 8) \div 8 = m - 1 /\ m > 0
      BY <2>1
    <2> QED  BY <2>1, <2>2
  <1>2. /\ InStream = [k \in 1 .. m |-> PacketIn(k - 1)]
        /\ InStream' = [k \in 1 .. m - 1 |-> PacketIn(k - 1)']
    BY <1>1 DEF InStream
  <1>3. ASSUME NEW k \in 1 .. m - 1 PROVE PacketIn(k - 1)' = InStream[k + 1]
    <2>1. k - 1 \in Blocks' /\ (k - 1) + 1 = k
      BY <1>1 DEF Blocks
    <2>2. PacketIn(k - 1)' = PacketIn(k)
      <3>1. PacketIn(k - 1)' = IF BlockTaken(k - 1)' THEN <<BlockData(k - 1)'>> ELSE <<>>
        BY DEF PacketIn, BlockTaken, BlockData
      <3>2. PacketIn(k) = IF BlockTaken(k) THEN <<BlockData(k)>> ELSE <<>>
        BY BlockBrings
      <3>3. BlockTaken(k - 1)' = BlockTaken(k) /\ BlockData(k - 1)' = BlockData(k)
        BY <2>1, ReadTakes
      <3> QED  BY <3>1, <3>2, <3>3
    <2>3. k + 1 \in 1 .. m /\ (k + 1) - 1 = k
      BY <1>1
    <2> QED  BY <1>2, <2>2, <2>3
  <1> DEFINE D == Seq(Seq(Byte))
             s == InStream
             t == Tail(s)
  <1>4. s \in Seq(D) /\ Len(s) = m /\ s # <<>>
    <2>1. s \in Seq(D) /\ Len(s) = m
      BY <1>1, InStreamType
    <2> HIDE DEF s, D
    <2> QED  BY <1>1, <2>1
  <1>5. Head(s) = PacketIn(0) /\ PacketIn(0) \in D
    <2>1. Head(s) = s[1] /\ 1 \in 1 .. m /\ 1 - 1 = 0
      BY <1>1, <1>4
    <2>2. s[1] = PacketIn(0)
      BY <1>2, <2>1
    <2> HIDE DEF s, D
    <2>3. Head(s) \in D
      BY <1>4, HeadTailProperties
    <2> QED  BY <2>1, <2>2, <2>3
  <1>6. InStream' = t /\ t \in Seq(D)
    <2> HIDE DEF s, D
    <2>1. t \in Seq(D) /\ Len(t) = Len(s) - 1 /\ \A k \in 1 .. Len(t) : t[k] = s[k + 1]
      BY <1>4, HeadTailProperties
    <2>2. Len(t) = m - 1
      BY <1>4, <2>1
    <2> HIDE DEF t
    <2>3. t = [k \in 1 .. m - 1 |-> t[k]]
      BY <2>1, <2>2
    <2>4. \A k \in 1 .. m - 1 : t[k] = PacketIn(k - 1)'
      BY <1>3, <2>1, <2>2 DEF s
    <2> QED  BY <1>2, <2>1, <2>3, <2>4
  <1>7. FlattenSeq(s) = Head(s) \o FlattenSeq(t) /\ FlattenSeq(t) \in Seq(Seq(Byte))
    <2> HIDE DEF s
    <2> QED  BY <1>4, <1>6, FlattenHeadTail, FlattenType
  <1> HIDE DEF s, t
  <1>8. FlattenSeq(InStream)' = FlattenSeq(t)
    BY <1>6
  <1> QED  BY <1>5, <1>7, <1>8 DEF s

LEMMA ReadOnTheWay ==
    ASSUME AlignInv, ChannelInv, SentInv, ReadPacket
    PROVE  OnTheWay' = OnTheWay \/ Delivery!Lose
  <1> DEFINE later == FlattenSeq(InStream)'
             p     == PacketIn(0)
             chan  == PACKET_CHANNEL
  <1>1. /\ later \in Seq(Seq(Byte)) /\ p \in Seq(Seq(Byte)) /\ chan \in Seq(Seq(Byte))
        /\ FlattenSeq(InStream) = p \o later
    BY ReadFlattens DEF ChannelInv
  <1>2. OnTheWay = chan \o (p \o later) /\ OnTheWay' = PACKET_CHANNEL' \o later
    BY <1>1 DEF OnTheWay
  <1>3. CASE ~ BlockTaken(0)
    <2>1. p = <<>> /\ PACKET_CHANNEL' = chan
      BY <1>3, ReadTakes, BlockBrings
    <2> HIDE DEF later
    <2>2. <<>> \o later = later
      BY <1>1, ConcatEmptySeq
    <2> QED  BY <1>2, <2>1, <2>2
  <1>4. CASE BlockTaken(0)
    <2> DEFINE data == BlockData(0)
    <2>1. p = <<data>> /\ PACKET_CHANNEL' = Publish(data)
      BY <1>4, ReadTakes, BlockBrings
    <2>2. data \in Seq(Byte)
      BY <1>4, ReadTakes, SentBytes DEF SentInv
    <2> HIDE DEF later, p, data
    <2>3. CASE Len(chan) < ChannelCapacity
      <3>1. PACKET_CHANNEL' = chan \o p
        <4>1. PACKET_CHANNEL' = Append(chan, data)
          BY <2>1, <2>3 DEF Publish
        <4> QED  BY <1>1, <2>1, <2>2, <4>1, AppendIsConcat
      <3> HIDE DEF chan
      <3>2. (chan \o p) \o later = chan \o (p \o later)
        <4> DEFINE D == Seq(Byte)
        <4>1. chan \in Seq(D) /\ p \in Seq(D) /\ later \in Seq(D)
          BY <1>1
        <4> HIDE DEF D
        <4> QED  BY <4>1, ConcatAssociative
      <3> QED  BY <1>2, <3>1, <3>2
    <2>4. CASE ~ (Len(chan) < ChannelCapacity)
      <3> DEFINE t == Tail(chan)
      <3>1. PICK c \in Nat : ChannelCapacity = c /\ c > 0 /\ Len(chan) = c
        <4>1. ChannelCapacity \in Nat /\ ChannelCapacity > 0 /\ Len(chan) \in Nat
          BY <1>1, ReceptionAssumption, LenProperties
        <4>2. Len(chan) <= ChannelCapacity
          BY DEF ChannelInv
        <4> QED  BY <2>4, <4>1, <4>2
      <3>2. chan # <<>> /\ t \in Seq(Seq(Byte))
        BY <1>1, <3>1
      <3>3. PACKET_CHANNEL' = t \o p
        <4>1. PACKET_CHANNEL' = Append(t, data)
          BY <2>1, <2>4 DEF Publish
        <4> HIDE DEF t
        <4> QED  BY <2>1, <2>2, <3>2, <4>1, AppendIsConcat
      <3> HIDE DEF chan
      <3>4. p \o later \in Seq(Seq(Byte)) /\ Len(p \o later) = 1 + Len(later)
        <4>1. Len(p) = 1
          BY <2>1
        <4> DEFINE D == Seq(Byte)
        <4>2. p \in Seq(D) /\ later \in Seq(D)
          BY <1>1
        <4> HIDE DEF D
        <4>3. p \o later \in Seq(D) /\ Len(p \o later) = Len(p) + Len(later)
          BY <4>2, ConcatProperties
        <4> QED  BY <4>1, <4>3 DEF D
      <3>5. Tail(OnTheWay) = t \o (p \o later)
        <4> DEFINE D     == Seq(Byte)
                   after == p \o later
        <4>1. chan \in Seq(D) /\ after \in Seq(D)
          BY <1>1, <3>4
        <4> HIDE DEF D, after
        <4>2. Tail(chan \o after) = t \o after
          BY <3>2, <4>1, HeadTailConcat
        <4> QED  BY <1>2, <4>2 DEF after
      <3> HIDE DEF t
      <3>6. (t \o p) \o later = t \o (p \o later)
        <4>1. t \in Seq(Seq(Byte)) /\ p \in Seq(Seq(Byte)) /\ later \in Seq(Seq(Byte))
          BY <1>1, <3>2
        <4> DEFINE D == Seq(Byte)
        <4>2. t \in Seq(D) /\ p \in Seq(D) /\ later \in Seq(D)
          BY <4>1
        <4> HIDE DEF D
        <4> QED  BY <4>2, ConcatAssociative
      <3>7. OnTheWay' = Tail(OnTheWay)
        BY <1>2, <3>3, <3>5, <3>6
      <3>8. Len(OnTheWay) > ChannelCapacity
        <4>1. Len(OnTheWay) = Len(chan) + Len(p \o later)
          BY <1>1, <1>2, <3>4, ConcatProperties
        <4>2. Len(later) \in Nat
          BY <1>1, LenProperties
        <4> QED  BY <3>1, <3>4, <4>1, <4>2
      <3>9. UNCHANGED handled
        BY DEF ReadPacket
      <3> QED  BY <3>7, <3>8, <3>9 DEF Delivery!Lose
    <2> QED  BY <2>3, <2>4
  <1> QED  BY <1>3, <1>4

LEMMA HandleOnTheWay ==
    ASSUME AlignInv, ChannelInv, SentInv, HandlePacket
    PROVE  Delivery!Handle
  <1>1. /\ PACKET_CHANNEL # <<>> /\ PACKET_CHANNEL \in Seq(Seq(Byte))
        /\ handled' = Head(PACKET_CHANNEL) /\ PACKET_CHANNEL' = Tail(PACKET_CHANNEL)
        /\ UNCHANGED <<isr, fifo, buff>>
    BY DEF HandlePacket, pioVars, ChannelInv
  <1>2. InStream' = InStream
    BY <1>1 DEF InStream, PacketIn, Block, StreamAt, InFlight
  <1> DEFINE a == FlattenSeq(InStream)
  <1>3. a \in Seq(Seq(Byte))
    BY InStreamType
  <1>4. OnTheWay = PACKET_CHANNEL \o a /\ OnTheWay' = Tail(PACKET_CHANNEL) \o a
    BY <1>1, <1>2 DEF OnTheWay
  <1> HIDE DEF a
  <1>5. /\ OnTheWay # <<>> /\ Head(OnTheWay) = Head(PACKET_CHANNEL)
        /\ Tail(OnTheWay) = Tail(PACKET_CHANNEL) \o a
    BY <1>1, <1>3, <1>4, HeadTailConcat
  <1> QED  BY <1>1, <1>4, <1>5 DEF Delivery!Handle


LEMMA ReceptionDelivers == ReceptionInv /\ [Next]_vars => [Delivery!Next]_(Delivery!vars)
  <1> SUFFICES ASSUME ReceptionInv, [Next]_vars
               PROVE  Delivery!Next \/ UNCHANGED Delivery!vars
    OBVIOUS
  <1>0. /\ AlignInv /\ ByteInv /\ PacketInv /\ ChannelInv /\ SentInv
        /\ InFlight \in Nat
    BY InFlightIsCount DEF ReceptionInv, AlignInv
  <1>1. ASSUME OnTheWay' = OnTheWay, handled' = handled
        PROVE  UNCHANGED Delivery!vars
    BY <1>1 DEF Delivery!vars
  <1>2. ASSUME UNCHANGED <<isr, fifo, buff, PACKET_CHANNEL, handled>>
        PROVE  UNCHANGED Delivery!vars
    <2>1. InFlight' = InFlight /\ \A b : Block(b)' = Block(b)
      BY <1>2 DEF InFlight, Block, StreamAt
    <2>2. OnTheWay' = OnTheWay
      BY <1>0, <1>2, <2>1, SameOnTheWay
    <2> QED  BY <1>1, <1>2, <2>2
  <1>3. CASE ReadByte
    <2>1. /\ pc = "byte" /\ Shift(255 - Head(rest)) /\ buff' = buff
          /\ UNCHANGED <<PACKET_CHANNEL, handled>>
          /\ rest \in Seq(Int) /\ rest # <<>>
      BY <1>0, <1>3 DEF ReadByte, PioAside, AlignInv, Registers
    <2>2. 255 - Head(rest) \in Int
      BY <2>1
    <2>3. PICK s \in Track \union Garbled : UnderWay(s)
      BY <1>0, <2>1 DEF PacketInv
    <2>4. InFlight % 8 = 7 => ~ Taken(Received(Completed(255 - Head(rest))))
      BY <1>0, <1>3, <2>3, DataBlockNotTaken
    <2>5. OnTheWay' = OnTheWay
      BY <1>0, <2>1, <2>2, <2>4, ShiftOnTheWay
    <2> QED  BY <1>1, <2>1, <2>5
  <1>4. CASE Pad
    <2>1. Shift(0) /\ buff' = buff /\ UNCHANGED <<PACKET_CHANNEL, handled>>
      BY <1>4 DEF Pad, PioAside
    <2>2. OnTheWay' = OnTheWay
      BY <1>0, <2>1, PaddedBlockNotTaken, ShiftOnTheWay
    <2> QED  BY <1>1, <2>1, <2>2
  <1>5. CASE PushCount
    <2> DEFINE count == y % 256
    <2>1. /\ Shift(count) /\ buff' = buff
          /\ UNCHANGED <<PACKET_CHANNEL, handled>>
      BY <1>5 DEF PushCount, PioAside
    <2>2. count \in Int
      BY <1>0 DEF AlignInv, Registers
    <2>3. /\ InFlight % 8 = 7
          /\ \/ ~ Taken(Received(Completed(count)))
             \/ \E raw \in Track : /\ Decode(raw) # IdlePacket
                                   /\ Received(Completed(count)) = raw
      BY <1>0, <1>5, CountTakes
    <2> HIDE DEF count
    <2>4. CASE ~ Taken(Received(Completed(count)))
      <3>1. OnTheWay' = OnTheWay
        BY <1>0, <2>1, <2>2, <2>3, <2>4, ShiftOnTheWay
      <3> QED  BY <1>1, <2>1, <3>1
    <2>5. ASSUME NEW raw \in Track, Decode(raw) # IdlePacket,
                 Received(Completed(count)) = raw
          PROVE  Delivery!Next
      <3>1. IsOk(Decode(raw)) /\ Decode(raw) = Ok(Decode(raw).value)
        BY TrackBytes, DecodeOk
      <3>2. Taken(Received(Completed(count))) /\ Decode(raw).value \in Seq(Byte)
        BY <2>5, <3>1, SentBytes DEF Taken, Sent
      <3>3. OnTheWay' = Append(OnTheWay, Decode(raw).value)
        BY <1>0, <2>1, <2>2, <2>3, <2>5, <3>2, ShiftOnTheWay
      <3>4. Delivery!Receive(Decode(raw).value)
        BY <2>1, <3>3 DEF Delivery!Receive
      <3> QED  BY <2>5, <3>4 DEF Delivery!Next
    <2> QED  BY <2>3, <2>4, <2>5
  <1>6. CASE DmaPull
    <2>1. UNCHANGED <<PACKET_CHANNEL, handled>>
      BY <1>6 DEF DmaPull
    <2>2. InFlight' = InFlight /\ \A k \in 1 .. InFlight : StreamAt(k)' = StreamAt(k)
      BY <1>0, <1>6, PullKeepsStream DEF AlignInv
    <2>3. ASSUME NEW b \in Blocks PROVE Block(b)' = Block(b)
      BY <1>0, <2>2, BlockInStream DEF Block
    <2>4. OnTheWay' = OnTheWay
      BY <1>0, <2>1, <2>2, <2>3, SameOnTheWay
    <2> QED  BY <1>1, <2>1, <2>4
  <1>7. CASE ReadPacket
    <2>1. UNCHANGED handled
      BY <1>7 DEF ReadPacket
    <2>2. OnTheWay' = OnTheWay \/ Delivery!Lose
      BY <1>0, <1>7, ReadOnTheWay
    <2> QED  BY <1>1, <2>1, <2>2 DEF Delivery!Next
  <1>8. CASE HandlePacket
    BY <1>0, <1>8, HandleOnTheWay DEF Delivery!Next
  <1>9. CASE (\E raw \in Track \union Noise : PacketStarts(raw)) \/ Overrun \/ UNCHANGED vars
    BY <1>2, <1>9 DEF PacketStarts, Overrun, PioAside, vars, pioVars
  <1> QED
    BY <1>3, <1>4, <1>5, <1>6, <1>7, <1>8, <1>9 DEF Next, Pio

(* FIFO, buffer and channel together are one queue (pio_decoder.rs:91,     *)
(* main.rs:120-136): packets are handled in the order in which they were   *)
(* received, none of them twice, and a packet is lost only while as many   *)
(* newer ones wait as the channel holds.                                   *)
THEOREM PacketsAreDelivered == Spec => DeliverySpec
  <1>1. Init => Delivery!Init
    <2> SUFFICES ASSUME Init PROVE Delivery!Init
      OBVIOUS
    <2>1. /\ isr = <<>> /\ fifo = <<>> /\ buff = <<>>
          /\ PACKET_CHANNEL = <<>> /\ handled = <<>>
      BY DEF Init
    <2>2. InFlight = 0
      BY <2>1 DEF InFlight
    <2>3. InStream = <<>>
      <3>1. 0 \div 8 = 0 /\ 1 .. 0 = {}
        OBVIOUS
      <3>2. InStream = [n \in {} |-> PacketIn(n - 1)]
        BY <2>2, <3>1 DEF InStream
      <3> QED  BY <3>2
    <2>4. OnTheWay = <<>> \o <<>>
      BY <2>1, <2>3, FlattenEmpty DEF OnTheWay
    <2>5. <<>> \in Seq(Int)
      OBVIOUS
    <2>6. OnTheWay = <<>>
      BY <2>4, <2>5, ConcatEmptySeq
    <2> QED  BY <2>1, <2>6 DEF Delivery!Init
  <1> QED
    BY <1>1, InitReception, NextReception, ReceptionDelivers, PTL DEF Spec, DeliverySpec, Delivery!Spec


=============================================================================
