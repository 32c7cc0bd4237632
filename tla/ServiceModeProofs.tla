------------------------- MODULE ServiceModeProofs -------------------------
(***************************************************************************)
(* Safety of service mode programming, for every set of CVs, defaults,     *)
(* packets and calibration results, with and without flash errors and      *)
(* power losses.                                                           *)
(***************************************************************************)
EXTENDS ServiceMode, TLAPS

(* Programming needs an open window, and a window that a reset packet      *)
(* opened. What makes NoProgrammingInOperations inductive is that writes   *)
(* under way keep `armed', because no packet is handled before their end.  *)
ArmedInv ==
    /\ timer = "running" => armed
    /\ mode = "run" /\ writes # <<>> => armed
    /\ stage # "idle" => writes # <<>>
    /\ mode = "boot" => writes = <<>>

LEMMA ArmedHandle ==
    ASSUME ArmedInv, Handle
    PROVE  ArmedInv'
<1>1. CASE HandleReset
  BY <1>1 DEF HandleReset, Listening, Perform, StoreAside, ArmedInv
<1>2. ASSUME NEW p \in Packets, LatchPacket(p) PROVE ArmedInv'
  BY <1>2 DEF LatchPacket, InWindow, Listening, Perform, StoreAside, ArmedInv
<1>3. ASSUME NEW p \in Packets, ExecutePacket(p) PROVE ArmedInv'
  BY <1>3 DEF ExecutePacket, InWindow, Listening, StoreAside, ArmedInv
<1>4. ASSUME NEW p \in Packets, HandleCommand(p) PROVE ArmedInv'
  BY <1>4 DEF HandleCommand, Listening, Perform, StoreAside, ArmedInv
<1>5. ASSUME NEW p \in Packets, IgnorePacket(p) PROVE ArmedInv'
  BY <1>5 DEF IgnorePacket, Listening, Perform, StoreAside, ArmedInv
<1> QED
  BY <1>1, <1>2, <1>3, <1>4, <1>5 DEF Handle

LEMMA ArmedWorking ==
    ASSUME ArmedInv, Working
    PROVE  ArmedInv'
<1>1. CASE WriteStep
  BY <1>1 DEF Working, WriteStep, SkipWrite, UpdateCache, EraseSector,
              ProgramSector, FlashError, HandlerAside, ArmedInv
<1>2. CASE BootStep
  BY <1>2 DEF Working, BootStep, ReadStore, MeasureOffset, StartTasks,
              HandlerAside, ArmedInv
<1> QED
  BY <1>1, <1>2 DEF Working

LEMMA ArmedStep == ArmedInv /\ [Next]_vars => ArmedInv'
<1> SUFFICES ASSUME ArmedInv, [Next]_vars PROVE ArmedInv'
  OBVIOUS
<1>1. CASE TimeoutElapses
  BY <1>1 DEF TimeoutElapses, storeVars, ArmedInv
<1>2. CASE Restart /\ HandlerLost
  BY <1>2 DEF Restart, HandlerLost, ArmedInv
<1>3. CASE UNCHANGED vars
  BY <1>3 DEF vars, storeVars, ArmedInv
<1> QED
  BY <1>1, <1>2, <1>3, ArmedHandle, ArmedWorking
     DEF Next, Rebooting, SystemReset, PowerLoss

LEMMA CacheChangesArmed ==
    ASSUME ArmedInv, [Next]_vars, mode = "run", cache' # cache
    PROVE  armed
<1>1. CASE Working
  BY <1>1 DEF Working, WriteStep, SkipWrite, UpdateCache, EraseSector,
              ProgramSector, FlashError, BootStep, ReadStore, MeasureOffset,
              StartTasks, ArmedInv
<1>2. CASE Handle
  BY <1>2 DEF Handle, HandleReset, LatchPacket, ExecutePacket, HandleCommand,
              IgnorePacket, StoreAside
<1>3. CASE TimeoutElapses \/ Restart \/ UNCHANGED vars
  BY <1>3 DEF TimeoutElapses, Restart, vars, storeVars
<1> QED
  BY <1>1, <1>2, <1>3 DEF Next, Rebooting, SystemReset, PowerLoss

(* Between a packet addressed to the decoder and the next reset packet no  *)
(* CV changes (handler.rs:64-75).                                          *)
THEOREM NothingIsProgrammedInOperations == Spec => NoProgrammingInOperations
<1>1. Init => ArmedInv
  BY DEF Init, StoreInit, ArmedInv
<1>2. ArmedInv /\ [Next]_vars => [mode = "run" /\ cache' # cache => armed]_vars
  BY CacheChangesArmed
<1> QED
  BY <1>1, <1>2, ArmedStep, PTL DEF Spec, NoProgrammingInOperations

-----------------------------------------------------------------------------
(* A store whose two addresses both are usable, so that CV29 may select    *)
(* either. write_byte() keeps the first byte of the extended address in    *)
(* 192..231; an erased one is 255.                                         *)
Addressable(s) ==
    /\ s[PrimaryAddress] # 0
    /\ s[ExtendedAddressMsb] \in 192 .. 255
    /\ s[ExtendedAddressLsb] \in Byte
    /\ ~ (s[ExtendedAddressMsb] = 192 /\ s[ExtendedAddressLsb] = 0)

AddressCVs == {PrimaryAddress, ExtendedAddressMsb, ExtendedAddressLsb}

(* What the theorem assumes: the decoder is delivered addressable, its     *)
(* defaults are, and nobody writes single bits of its addresses, which     *)
(* manipulate_bit() does not guard (see ShortAddressRange).                *)
Delivered == Addressable(DEFAULT_VALUES) /\ \A c \in Contents : Addressable(c)

NoAddressBits ==
    \A p \in Packets : p.kind = "ManipulateBit" => p.cv \notin AddressCVs

Harmless(w) == \A s : Addressable(s) => Addressable(Updated(s, w))

(* Writes to come: the first one suits the cache, the others any cache.    *)
SafeCalls(calls, store) ==
    /\ \E S : calls \in Seq(S)
    /\ calls # <<>> => Addressable(Updated(store, Head(calls)))
    /\ \A i \in 2 .. Len(calls) : Harmless(calls[i])

AddressInv ==
    /\ Addressable(flash)
    /\ Addressable(cache)
    /\ SafeCalls(writes, cache)

LEMMA AddressableHasAddress ==
    ASSUME NEW s, Addressable(s)
    PROVE  Addr(s) # 0
<1> DEFINE msb == s[ExtendedAddressMsb]
           lsb == s[ExtendedAddressLsb]
<1>1. msb \in 192 .. 255 /\ lsb \in 0 .. 255 /\ ~ (msb = 192 /\ lsb = 0)
  BY DEF Addressable, Byte
<1> HIDE DEF msb, lsb
<1>2. (msb % 64) * 256 + lsb # 0
  BY <1>1
<1> QED
  BY <1>2 DEF Addr, ExtendedAddress, Addressable, msb, lsb

LEMMA ErasedIsAddressable == Addressable(Erased)
BY StoreAssumption DEF Addressable, Erased, NamedCVs, Byte

LEMMA UpdateTwice ==
    ASSUME NEW s, NEW w
    PROVE  Updated(Updated(s, w), w) = Updated(s, w)
BY DEF Updated

LEMMA WriteByteUpdates ==
    ASSUME NEW s, NEW cv, NEW v, NEW x \in CVs
    PROVE  Updated(s, WriteByte(cv, v))[x] = IF x = cv THEN v ELSE s[x]
BY DEF Updated, WriteByte

LEMMA AddressCVsExist == AddressCVs \subseteq CVs
BY StoreAssumption DEF AddressCVs, NamedCVs

LEMMA OtherCVsAreHarmless ==
    ASSUME NEW cv, NEW v, cv \notin AddressCVs
    PROVE  Harmless(WriteByte(cv, v))
BY WriteByteUpdates, AddressCVsExist DEF Harmless, Addressable, AddressCVs

LEMMA PrimaryAddressIsHarmless ==
    ASSUME NEW v, v # 0
    PROVE  Harmless(WriteByte(PrimaryAddress, v))
BY WriteByteUpdates, AddressCVsExist
   DEF Harmless, Addressable, AddressCVs, PrimaryAddress, ExtendedAddressMsb,
       ExtendedAddressLsb

LEMMA ResetIsHarmless ==
    ASSUME Delivered
    PROVE  Harmless(ResetWrite)
<1>1. ASSUME NEW s PROVE Updated(s, ResetWrite) = DEFAULT_VALUES
  BY StoreAssumption DEF Updated, ResetWrite, Store
<1> QED
  BY <1>1 DEF Harmless, Delivered

LEMMA NoCallsAreSafe ==
    ASSUME NEW store PROVE SafeCalls(<<>>, store)
<1>1. <<>> \in Seq({})
  OBVIOUS
<1> QED
  BY <1>1 DEF SafeCalls

LEMMA OneSafeCall ==
    ASSUME NEW store, NEW w, Addressable(Updated(store, w))
    PROVE  SafeCalls(<<w>>, store)
<1>1. \E S : <<w>> \in Seq(S)
  <2>1. <<w>> \in Seq({w})
    OBVIOUS
  <2> QED
    BY <2>1
<1>2. Len(<<w>>) = 1 /\ Head(<<w>>) = w
  OBVIOUS
<1>3. \A i \in 2 .. Len(<<w>>) : Harmless(<<w>>[i])
  BY <1>2
<1> QED
  BY <1>1, <1>2, <1>3 DEF SafeCalls

LEMMA OneHarmlessCall ==
    ASSUME NEW store, Addressable(store), NEW w, Harmless(w)
    PROVE  SafeCalls(<<w>>, store)
BY OneSafeCall DEF Harmless

LEMMA ThreeHarmlessCalls ==
    ASSUME NEW store, Addressable(store),
           NEW u, Harmless(u), NEW v, Harmless(v), NEW w, Harmless(w)
    PROVE  SafeCalls(<<u, v, w>>, store)
<1> DEFINE calls == <<u, v, w>>
<1>1. \E S : calls \in Seq(S)
  <2>1. calls \in Seq({u, v, w})
    OBVIOUS
  <2> QED
    BY <2>1
<1>2. Len(calls) = 3 /\ Head(calls) = u /\ calls[2] = v /\ calls[3] = w
  OBVIOUS
<1>3. Addressable(Updated(store, u))
  BY DEF Harmless
<1> HIDE DEF calls
<1>4. \A i \in 2 .. Len(calls) : Harmless(calls[i])
  BY <1>2
<1> QED
  BY <1>1, <1>2, <1>3, <1>4 DEF SafeCalls, calls

(* Once the first call is done, the next one suits the cache it left.      *)
LEMMA SafeTail ==
    ASSUME NEW calls, NEW store, SafeCalls(calls, store), Addressable(store),
           calls # <<>>
    PROVE  SafeCalls(Tail(calls), store)
<1>1. PICK S : calls \in Seq(S)
  BY DEF SafeCalls
<1>2. Tail(calls) \in Seq(S) /\ Len(Tail(calls)) = Len(calls) - 1
  BY <1>1
<1>3. \A i \in 1 .. Len(Tail(calls)) : Tail(calls)[i] = calls[i + 1]
  BY <1>1
<1>4. \A i \in 1 .. Len(Tail(calls)) : Harmless(Tail(calls)[i])
  <2> SUFFICES ASSUME NEW i \in 1 .. Len(Tail(calls))
               PROVE  Harmless(calls[i + 1])
    BY <1>3
  <2>1. i + 1 \in 2 .. Len(calls)
    BY <1>1, <1>2
  <2> QED
    BY <2>1 DEF SafeCalls
<1>5. ASSUME Tail(calls) # <<>>
      PROVE  Addressable(Updated(store, Head(Tail(calls))))
  <2>1. 1 \in 1 .. Len(Tail(calls)) /\ Head(Tail(calls)) = Tail(calls)[1]
    BY <1>2, <1>5
  <2>2. Harmless(Head(Tail(calls)))
    BY <1>4, <2>1
  <2> QED
    BY <2>2 DEF Harmless
<1>6. \A i \in 2 .. Len(Tail(calls)) : Harmless(Tail(calls)[i])
  <2> TAKE i \in 2 .. Len(Tail(calls))
  <2>1. i \in 1 .. Len(Tail(calls))
    BY <1>2
  <2> QED
    BY <1>4, <2>1
<1> QED
  BY <1>2, <1>5, <1>6 DEF SafeCalls

-----------------------------------------------------------------------------
(* Whatever an instruction writes suits the cache at that moment.          *)

LEMMA NothingPerformed ==
    ASSUME NEW op, Perform(<<>>, op)
    PROVE  SafeCalls(writes', cache)
BY NoCallsAreSafe DEF Perform

LEMMA PrimaryAddressWrite ==
    ASSUME Addressable(cache), NEW v, WritePrimaryAddress(v)
    PROVE  SafeCalls(writes', cache)
<1>1. CASE v \in 1 .. 127
  <2> DEFINE w2 == WriteByte(DecoderConfiguration,
                             WithBit(cache[DecoderConfiguration], 5, 0))
             w3 == WriteByte(ConsistAddress, 0)
  <2>1. writes' = <<WriteByte(PrimaryAddress, v), w2, w3>>
    BY <1>1 DEF WritePrimaryAddress, Perform
  <2>2. Harmless(WriteByte(PrimaryAddress, v))
    BY <1>1, PrimaryAddressIsHarmless
  <2>3. Harmless(w2)
    BY OtherCVsAreHarmless DEF AddressCVs, PrimaryAddress, ExtendedAddressMsb,
       ExtendedAddressLsb, DecoderConfiguration
  <2>4. Harmless(w3)
    BY OtherCVsAreHarmless DEF AddressCVs, PrimaryAddress, ExtendedAddressMsb,
       ExtendedAddressLsb, ConsistAddress
  <2> HIDE DEF w2, w3
  <2> QED
    BY <2>1, <2>2, <2>3, <2>4, ThreeHarmlessCalls
<1> QED
  BY <1>1, NothingPerformed DEF WritePrimaryAddress

LEMMA FactoryResetWrite ==
    ASSUME Delivered, Addressable(cache), FactoryReset
    PROVE  SafeCalls(writes', cache)
BY OneHarmlessCall, ResetIsHarmless DEF FactoryReset, Perform

LEMMA ExtendedMsbWrite ==
    ASSUME Addressable(cache), NEW v, WriteExtendedMsb(v)
    PROVE  SafeCalls(writes', cache)
<1>1. CASE v \in 192 .. 231 /\ ~ (v = 192 /\ cache[ExtendedAddressLsb] = 0)
  <2>1. writes' = <<WriteByte(ExtendedAddressMsb, v)>>
    BY <1>1 DEF WriteExtendedMsb, Perform
  <2>2. Addressable(Updated(cache, WriteByte(ExtendedAddressMsb, v)))
    BY <1>1, WriteByteUpdates, AddressCVsExist
       DEF Addressable, AddressCVs, PrimaryAddress, ExtendedAddressMsb,
           ExtendedAddressLsb
  <2> QED
    BY <2>1, <2>2, OneSafeCall
<1> QED
  BY <1>1, NothingPerformed DEF WriteExtendedMsb

LEMMA ExtendedLsbWrite ==
    ASSUME Addressable(cache), NEW v \in Byte, WriteExtendedLsb(v)
    PROVE  SafeCalls(writes', cache)
<1>1. CASE ~ (cache[ExtendedAddressMsb] = 192 /\ v = 0)
  <2>1. writes' = <<WriteByte(ExtendedAddressLsb, v)>>
    BY <1>1 DEF WriteExtendedLsb, Perform
  <2>2. Addressable(Updated(cache, WriteByte(ExtendedAddressLsb, v)))
    BY <1>1, WriteByteUpdates, AddressCVsExist
       DEF Addressable, AddressCVs, PrimaryAddress, ExtendedAddressMsb,
           ExtendedAddressLsb
  <2> QED
    BY <2>1, <2>2, OneSafeCall
<1> QED
  BY <1>1, NothingPerformed DEF WriteExtendedLsb

LEMMA OtherWrite ==
    ASSUME Addressable(cache), NEW cv, cv \notin AddressCVs, NEW v, NEW op,
           Perform(<<WriteByte(cv, v)>>, op)
    PROVE  SafeCalls(writes', cache)
BY OneHarmlessCall, OtherCVsAreHarmless DEF Perform

LEMMA VersionNumberWrite ==
    ASSUME Addressable(cache), NEW v, WriteVersionNumber(v)
    PROVE  SafeCalls(writes', cache)
<1>1. EmfAdcOffset \notin AddressCVs
  BY DEF AddressCVs, PrimaryAddress, ExtendedAddressMsb, ExtendedAddressLsb,
         EmfAdcOffset
<1>2. CASE v = 7
  BY <1>1, <1>2, OtherWrite DEF WriteVersionNumber
<1> QED
  BY <1>2, NothingPerformed DEF WriteVersionNumber

LEMMA ByteWrite ==
    ASSUME Delivered, Addressable(cache), NEW cv, NEW v \in Byte,
           ExecuteWrite(cv, v)
    PROVE  SafeCalls(writes', cache)
<1>1. CASE WriteManufacturerId(v)
  BY <1>1, FactoryResetWrite, NothingPerformed DEF WriteManufacturerId
<1>2. CASE cv \notin GuardedCVs /\ Perform(<<WriteByte(cv, v)>>, "AcknowledgeCv")
  BY <1>2, OtherWrite DEF GuardedCVs, AddressCVs
<1> QED
  BY <1>1, <1>2, NothingPerformed, PrimaryAddressWrite, VersionNumberWrite,
     ExtendedMsbWrite, ExtendedLsbWrite DEF ExecuteWrite

LEMMA BitInstruction ==
    ASSUME Addressable(cache), NEW cv, cv \notin AddressCVs, NEW v,
           ExecuteBit(cv, v)
    PROVE  SafeCalls(writes', cache)
BY OtherWrite, NothingPerformed DEF ExecuteBit

(* Programming packets carry a CV and a byte.                              *)
LEMMA ProgrammingPacket ==
    ASSUME NEW p \in Packets, p.kind \in {"WriteByte", "ManipulateBit"}
    PROVE  p.cv \in CVs /\ p.data \in Byte
<1>1. \/ p \in {ResetPacket, LegacyReset} \/ \E a : p = Addressed(a)
      \/ \E cv \in CVs, v \in Byte :
            p = VerifyBytePkt(cv, v) \/ p = BitPkt(cv, v) \/ p = WriteBytePkt(cv, v)
  <2>1. p \in AllPackets
    BY PacketAssumption
  <2> QED
    BY <2>1 DEF AllPackets
<1>2. ~ (p \in {ResetPacket, LegacyReset} \/ \E a : p = Addressed(a))
  BY DEF ResetPacket, LegacyReset, Addressed, Pkt
<1>3. PICK cv \in CVs, v \in Byte :
          p = VerifyBytePkt(cv, v) \/ p = BitPkt(cv, v) \/ p = WriteBytePkt(cv, v)
  BY <1>1, <1>2
<1>4. p.cv = cv /\ p.data = v
  BY <1>3 DEF VerifyBytePkt, BitPkt, WriteBytePkt, Pkt
<1> QED
  BY <1>4

LEMMA InstructionWrites ==
    ASSUME Delivered, NoAddressBits, Addressable(cache), NEW p \in Packets,
           Execute(p)
    PROVE  SafeCalls(writes', cache)
<1>1. CASE p.kind = "WriteByte" /\ ExecuteWrite(p.cv, p.data)
  <2>1. p.data \in Byte
    BY <1>1, ProgrammingPacket
  <2> QED
    BY <1>1, <2>1, ByteWrite
<1>2. CASE p.kind = "ManipulateBit" /\ ExecuteBit(p.cv, p.data)
  BY <1>2, BitInstruction DEF NoAddressBits
<1> QED
  BY <1>1, <1>2, FactoryResetWrite, NothingPerformed DEF Execute, ExecuteVerify

-----------------------------------------------------------------------------
LEMMA AddressHandle ==
    ASSUME Delivered, NoAddressBits, AddressInv, Handle
    PROVE  AddressInv'
<1>1. Addressable(flash)' /\ Addressable(cache)' /\ cache' = cache
  BY DEF Handle, HandleReset, LatchPacket, ExecutePacket, HandleCommand,
         IgnorePacket, StoreAside, AddressInv, Addressable
<1>2. SafeCalls(writes', cache)
  <2>1. ASSUME NEW p \in Packets, ExecutePacket(p)
        PROVE  SafeCalls(writes', cache)
    BY <2>1, InstructionWrites DEF ExecutePacket, AddressInv
  <2> QED
    BY <2>1, NothingPerformed
       DEF Handle, HandleReset, LatchPacket, HandleCommand, IgnorePacket
<1> QED
  BY <1>1, <1>2 DEF AddressInv

LEMMA AddressWrites ==
    ASSUME AddressInv, ArmedInv, WriteStep
    PROVE  AddressInv'
<1>1. CASE SkipWrite
  BY <1>1, SafeTail DEF SkipWrite, AddressInv, Addressable
<1>2. CASE UpdateCache
  <2>1. cache' = Updated(cache, Head(writes)) /\ UNCHANGED <<flash, writes>>
    BY <1>2 DEF UpdateCache
  <2>2. Addressable(cache')
    BY <1>2, <2>1 DEF UpdateCache, AddressInv, SafeCalls
  <2>3. Updated(cache', Head(writes)) = cache'
    BY <2>1, UpdateTwice
  <2>4. SafeCalls(writes, cache')
    BY <2>2, <2>3 DEF AddressInv, SafeCalls
  <2> QED
    BY <2>1, <2>2, <2>4 DEF AddressInv
<1>3. CASE EraseSector
  BY <1>3, ErasedIsAddressable DEF EraseSector, AddressInv
<1>4. CASE ProgramSector
  <2>1. writes # <<>>
    BY <1>4 DEF ProgramSector, ArmedInv
  <2> QED
    BY <1>4, <2>1, SafeTail DEF ProgramSector, AddressInv
<1>5. CASE FlashError
  BY <1>5, NoCallsAreSafe DEF FlashError, AddressInv
<1> QED
  BY <1>1, <1>2, <1>3, <1>4, <1>5 DEF WriteStep

LEMMA AddressBoot ==
    ASSUME Delivered, AddressInv, BootStep
    PROVE  AddressInv'
<1>1. CASE ReadStore
  BY <1>1, NoCallsAreSafe, OneHarmlessCall, ResetIsHarmless
     DEF ReadStore, AddressInv
<1>2. CASE MeasureOffset
  <2>1. ASSUME NEW o PROVE Harmless(WriteByte(EmfAdcOffset, o))
    BY OtherCVsAreHarmless DEF AddressCVs, PrimaryAddress, ExtendedAddressMsb,
       ExtendedAddressLsb, EmfAdcOffset
  <2> QED
    BY <1>2, <2>1, NoCallsAreSafe, OneHarmlessCall DEF MeasureOffset, AddressInv
<1>3. CASE StartTasks
  BY <1>3 DEF StartTasks, AddressInv
<1> QED
  BY <1>1, <1>2, <1>3 DEF BootStep

LEMMA AddressStep ==
    ASSUME Delivered, NoAddressBits, AddressInv, ArmedInv, [Next]_vars
    PROVE  AddressInv'
<1>1. CASE TimeoutElapses \/ UNCHANGED vars
  BY <1>1 DEF TimeoutElapses, vars, storeVars, AddressInv
<1>2. CASE Restart
  BY <1>2, NoCallsAreSafe DEF Restart, AddressInv
<1> QED
  BY <1>1, <1>2, AddressHandle, AddressWrites, AddressBoot
     DEF Next, Working, Rebooting, SystemReset, PowerLoss

(* No sequence of byte writes, power losses and flash errors makes the     *)
(* address of the decoder 0, with which the next boot would erase its CVs  *)
(* (handler.rs:147-205, cv/store.rs:345-351).                              *)
THEOREM AddressStaysUsable ==
    ASSUME Delivered, NoAddressBits
    PROVE  Spec => []AddressNeverZero
<1>1. Init => AddressInv /\ ArmedInv
  BY NoCallsAreSafe DEF Init, StoreInit, AddressInv, ArmedInv, Delivered
<1>2. AddressInv /\ ArmedInv /\ [Next]_vars => AddressInv' /\ ArmedInv'
  BY AddressStep, ArmedStep
<1>3. AddressInv => AddressNeverZero
  BY AddressableHasAddress DEF AddressInv, AddressNeverZero
<1> QED
  BY <1>1, <1>2, <1>3, PTL DEF Spec

-----------------------------------------------------------------------------
(* The types of the store, the writes to come and the handler.             *)

LEMMA ByteRange == \A x : x \in Byte <=> x \in Nat /\ x <= 255
BY DEF Byte

LEMMA BitIsBinary ==
    ASSUME NEW byte \in Nat, NEW b \in 0 .. 7
    PROVE  Bit(byte, b) \in {0, 1}
<1>1. b = 0 \/ b = 1 \/ b = 2 \/ b = 3 \/ b = 4 \/ b = 5 \/ b = 6 \/ b = 7
  OBVIOUS
<1> QED
  BY <1>1 DEF Bit

(* A bit that is written is what it was to be, and the byte stays one.     *)
LEMMA BitWritten ==
    ASSUME NEW byte \in Nat, byte <= 255, NEW b \in 0 .. 7, NEW value \in {0, 1}
    PROVE  /\ Bit(WithBit(byte, b, value), b) = value
           /\ WithBit(byte, b, value) \in Nat /\ WithBit(byte, b, value) <= 255
<1>0. b = 0 \/ b = 1 \/ b = 2 \/ b = 3 \/ b = 4 \/ b = 5 \/ b = 6 \/ b = 7
  OBVIOUS
<1>1. CASE b = 0
  BY <1>1 DEF Bit, WithBit
<1>2. CASE b = 1
  BY <1>2 DEF Bit, WithBit
<1>3. CASE b = 2
  BY <1>3 DEF Bit, WithBit
<1>4. CASE b = 3
  BY <1>4 DEF Bit, WithBit
<1>5. CASE b = 4
  BY <1>5 DEF Bit, WithBit
<1>6. CASE b = 5
  BY <1>6 DEF Bit, WithBit
<1>7. CASE b = 6
  BY <1>7 DEF Bit, WithBit
<1>8. CASE b = 7
  BY <1>8 DEF Bit, WithBit
<1> QED
  BY <1>0, <1>1, <1>2, <1>3, <1>4, <1>5, <1>6, <1>7, <1>8

LEMMA BitOfStore ==
    ASSUME NEW store \in Store, NEW cv \in CVs, NEW b \in 0 .. 7, NEW value \in {0, 1}
    PROVE  /\ WithBit(store[cv], b, value) \in Byte
           /\ Bit(WithBit(store[cv], b, value), b) = value
<1>1. store[cv] \in Nat /\ store[cv] <= 255
  BY ByteRange DEF Store
<1> QED
  BY <1>1, BitWritten, ByteRange

LEMMA BitPacketData ==
    ASSUME NEW v \in Byte
    PROVE  BitPosition(v) \in 0 .. 7 /\ BitValue(v) \in {0, 1}
BY ByteRange, BitIsBinary DEF BitPosition, BitValue

LEMMA WriteByteType ==
    ASSUME NEW cv \in CVs, NEW v \in Byte
    PROVE  WriteByte(cv, v) \in WriteCalls
BY DEF WriteCalls

LEMMA UpdatedType ==
    ASSUME NEW store \in Store, NEW w \in WriteCalls
    PROVE  Updated(store, w) \in Store
<1>1. \A cv \in DOMAIN w.values : w.values[cv] \in Byte
  <2>1. CASE w = ResetWrite
    BY <2>1, StoreAssumption DEF ResetWrite, Store
  <2>2. CASE w # ResetWrite
    <3>1. PICK cv \in CVs, v \in Byte : w = WriteByte(cv, v)
      BY <2>2 DEF WriteCalls
    <3>2. w.values = [x \in {cv} |-> v]
      BY <3>1 DEF WriteByte
    <3> QED
      BY <3>2
  <2> QED
    BY <2>1, <2>2
<1> QED
  BY <1>1 DEF Updated, Store

LEMMA NoWrites == <<>> \in Seq(WriteCalls)
OBVIOUS

LEMMA NamedBytes == 0 \in Byte /\ 255 \in Byte /\ Offsets \subseteq Byte
BY StoreAssumption DEF Byte

LEMMA WritesType ==
    ASSUME StoreTypeOK, NEW p \in Packets, Execute(p)
    PROVE  writes' \in Seq(WriteCalls) /\ reply' \in Replies
<1>1. ASSUME NEW op \in Replies, Perform(<<>>, op)
      PROVE  writes' \in Seq(WriteCalls) /\ reply' \in Replies
  BY <1>1 DEF Perform
<1>2. ASSUME NEW cv \in CVs, NEW v \in Byte, NEW op \in Replies,
             Perform(<<WriteByte(cv, v)>>, op)
      PROVE  writes' \in Seq(WriteCalls) /\ reply' \in Replies
  BY <1>2, WriteByteType DEF Perform
<1>3. NamedCVs \subseteq CVs
  BY StoreAssumption
<1>4. ASSUME NEW v \in Byte, WritePrimaryAddress(v)
      PROVE  writes' \in Seq(WriteCalls) /\ reply' \in Replies
  <2> DEFINE w2 == WriteByte(DecoderConfiguration,
                             WithBit(cache[DecoderConfiguration], 5, 0))
  <2>1. WriteByte(PrimaryAddress, v) \in WriteCalls /\ WriteByte(ConsistAddress, 0) \in WriteCalls
    BY <1>3, WriteByteType, NamedBytes DEF NamedCVs
  <2>2. w2 \in WriteCalls
    BY <1>3, WriteByteType, BitOfStore DEF NamedCVs, StoreTypeOK
  <2> HIDE DEF w2
  <2>3. <<WriteByte(PrimaryAddress, v), w2, WriteByte(ConsistAddress, 0)>> \in Seq(WriteCalls)
    BY <2>1, <2>2
  <2> QED
    BY <1>1, <1>4, <2>3 DEF WritePrimaryAddress, Perform, Replies, w2
<1>5. ASSUME FactoryReset
      PROVE  writes' \in Seq(WriteCalls) /\ reply' \in Replies
  <2>1. ResetWrite \in WriteCalls
    BY DEF WriteCalls
  <2> QED
    BY <1>5, <2>1 DEF FactoryReset, Perform, Replies
<1>6. ASSUME p.kind = "WriteByte", ExecuteWrite(p.cv, p.data)
      PROVE  writes' \in Seq(WriteCalls) /\ reply' \in Replies
  <2>1. p.cv \in CVs /\ p.data \in Byte
    BY <1>6, ProgrammingPacket
  <2>2. CASE WriteVersionNumber(p.data)
    BY <1>1, <1>2, <1>3, <2>2, NamedBytes
       DEF WriteVersionNumber, NamedCVs, Replies
  <2>3. CASE WriteExtendedMsb(p.data) \/ WriteExtendedLsb(p.data)
    BY <1>1, <1>2, <1>3, <2>1, <2>3
       DEF WriteExtendedMsb, WriteExtendedLsb, NamedCVs, Replies
  <2>4. CASE WriteManufacturerId(p.data)
    BY <1>1, <1>5, <2>4 DEF WriteManufacturerId, Replies
  <2>5. CASE Perform(<<>>, "None") \/ Perform(<<WriteByte(p.cv, p.data)>>, "AcknowledgeCv")
    BY <1>1, <1>2, <2>1, <2>5 DEF Replies
  <2> QED
    BY <1>4, <1>6, <2>1, <2>2, <2>3, <2>4, <2>5 DEF ExecuteWrite
<1>7. ASSUME p.kind = "ManipulateBit", ExecuteBit(p.cv, p.data)
      PROVE  writes' \in Seq(WriteCalls) /\ reply' \in Replies
  <2>1. p.cv \in CVs /\ p.data \in Byte
    BY <1>7, ProgrammingPacket
  <2>2. WithBit(cache[p.cv], BitPosition(p.data), BitValue(p.data)) \in Byte
    BY <2>1, BitPacketData, BitOfStore DEF StoreTypeOK
  <2> QED
    BY <1>1, <1>2, <1>7, <2>1, <2>2 DEF ExecuteBit, Replies
<1> QED
  BY <1>1, <1>5, <1>6, <1>7 DEF Execute, ExecuteVerify, Replies

LEMMA TypeHandle ==
    ASSUME TypeOK, Handle
    PROVE  TypeOK'
<1>1. writes' \in Seq(WriteCalls) /\ reply' \in Replies
  <2>1. ASSUME NEW p \in Packets, ExecutePacket(p)
        PROVE  writes' \in Seq(WriteCalls) /\ reply' \in Replies
    BY <2>1, WritesType DEF ExecutePacket, TypeOK
  <2> QED
    BY <2>1, NoWrites
       DEF Handle, HandleReset, LatchPacket, HandleCommand, IgnorePacket, Perform,
           Replies
<1>2. StoreAside
  BY DEF Handle, HandleReset, LatchPacket, ExecutePacket, HandleCommand, IgnorePacket
<1>3. StoreTypeOK'
  BY <1>1, <1>2 DEF StoreAside, StoreTypeOK, TypeOK
<1>4. /\ timer' \in {"off", "running", "expired"}
      /\ clean' \in BOOLEAN /\ armed' \in BOOLEAN
  BY DEF Handle, HandleReset, LatchPacket, ExecutePacket, HandleCommand,
         IgnorePacket, TypeOK
<1>5. /\ pending' \in {{}} \union {{p} : p \in Packets}
      /\ executed' \in {{}} \union {{p} : p \in Packets}
  BY DEF Handle, HandleReset, LatchPacket, ExecutePacket, HandleCommand,
         IgnorePacket, TypeOK
<1> QED
  BY <1>3, <1>4, <1>5 DEF TypeOK

LEMMA TypeWorking ==
    ASSUME TypeOK, ArmedInv, Working
    PROVE  TypeOK'
<1>1. CASE SkipWrite \/ ProgramSector
  <2>1. writes' \in Seq(WriteCalls)
    <3>1. writes \in Seq(WriteCalls) /\ writes # <<>> /\ writes' = Tail(writes)
      BY <1>1 DEF SkipWrite, ProgramSector, ArmedInv, TypeOK, StoreTypeOK
    <3> QED
      BY <3>1
  <2> QED
    BY <1>1, <2>1 DEF SkipWrite, ProgramSector, Working, HandlerAside, TypeOK, StoreTypeOK
<1>2. CASE UpdateCache
  <2>1. Head(writes) \in WriteCalls
    BY <1>2 DEF UpdateCache, TypeOK, StoreTypeOK
  <2>2. cache' \in Store
    BY <1>2, <2>1, UpdatedType DEF UpdateCache, TypeOK, StoreTypeOK
  <2> QED
    BY <1>2, <2>2 DEF UpdateCache, Working, HandlerAside, TypeOK, StoreTypeOK
<1>3. CASE EraseSector
  <2>1. Erased \in Store
    BY NamedBytes DEF Erased, Store
  <2> QED
    BY <1>3, <2>1 DEF EraseSector, Working, HandlerAside, TypeOK, StoreTypeOK
<1>4. CASE FlashError
  BY <1>4 DEF FlashError, Working, HandlerAside, TypeOK, StoreTypeOK, Replies
<1>5. CASE BootStep
  <2>1. writes' \in Seq(WriteCalls)
    <3>1. ResetWrite \in WriteCalls
      BY DEF WriteCalls
    <3>2. \A o \in Offsets : WriteByte(EmfAdcOffset, o) \in WriteCalls
      BY WriteByteType, NamedBytes, StoreAssumption DEF NamedCVs
    <3> QED
      <4>1. CASE ReadStore
        BY <3>1, <4>1, NoWrites DEF ReadStore
      <4>2. CASE MeasureOffset
        <5>1. ASSUME NEW o \in Offsets, writes' = <<WriteByte(EmfAdcOffset, o)>>
              PROVE  writes' \in Seq(WriteCalls)
          BY <3>2, <5>1
        <5> QED
          BY <4>2, <5>1, NoWrites DEF MeasureOffset
      <4>3. CASE StartTasks
        BY <4>3 DEF StartTasks, TypeOK, StoreTypeOK
      <4> QED
        BY <1>5, <4>1, <4>2, <4>3 DEF BootStep
  <2> QED
    BY <1>5, <2>1 DEF BootStep, ReadStore, MeasureOffset, StartTasks, Working,
                      HandlerAside, TypeOK, StoreTypeOK
<1> QED
  BY <1>1, <1>2, <1>3, <1>4, <1>5 DEF Working, WriteStep

LEMMA TypeStep == TypeOK /\ ArmedInv /\ [Next]_vars => TypeOK'
<1> SUFFICES ASSUME TypeOK, ArmedInv, [Next]_vars PROVE TypeOK'
  OBVIOUS
<1>1. CASE TimeoutElapses \/ UNCHANGED vars
  BY <1>1 DEF TimeoutElapses, vars, storeVars, TypeOK, StoreTypeOK
<1>2. CASE Restart /\ HandlerLost
  BY <1>2, NoWrites DEF Restart, HandlerLost, TypeOK, StoreTypeOK, Replies
<1> QED
  BY <1>1, <1>2, TypeHandle, TypeWorking DEF Next, Rebooting, SystemReset, PowerLoss

LEMMA TypeInit == Init => TypeOK
<1> SUFFICES ASSUME Init PROVE TypeOK
  OBVIOUS
<1>1. StoreTypeOK
  BY NoWrites, StoreAssumption DEF Init, StoreInit, StoreTypeOK, Replies
<1> QED
  BY <1>1 DEF Init, TypeOK

(* Types, every byte that a bit instruction composes included              *)
(* (handler.rs:240-262).                                                   *)
THEOREM ProgrammingTypeCorrect == Spec => []TypeOK
<1>1. Init => ArmedInv
  BY DEF Init, StoreInit, ArmedInv
<1> QED
  BY <1>1, ArmedStep, TypeInit, TypeStep, PTL DEF Spec

-----------------------------------------------------------------------------
(* Without flash errors the sector mirrors the cache whenever no write is  *)
(* under way, and a write under way has reached the cache.                 *)
MirrorInv ==
    /\ stage # "idle" => cache = Updated(cache, Head(writes))
    /\ stage = "idle" /\ mode \in {"populate", "calibrate", "run"} => flash = cache
    /\ mode # "run" => reply # "AcknowledgeCv"

(* Once the writes to come are done, the CV has this value: none of them   *)
(* gives it another, and either it has it already or one gives it.         *)
WillHold(cv, v) ==
    /\ \A i \in 1 .. Len(writes) :
          cv \in DOMAIN writes[i].values => writes[i].values[cv] = v
    /\ \/ cache[cv] = v
       \/ \E i \in 1 .. Len(writes) : cv \in DOMAIN writes[i].values

(* What the acknowledgement of a packet promises.                          *)
Promised(p) ==
    /\ p.kind = "WriteByte" => WillHold(p.cv, p.data)
    /\ p.kind = "WriteByte" /\ p.cv = PrimaryAddress =>
          /\ WillHold(ConsistAddress, 0)
          /\ \E c : Bit(c, 5) = 0 /\ WillHold(DecoderConfiguration, c)
    /\ p.kind = "ManipulateBit" =>
          \E c : /\ Bit(c, BitPosition(p.data)) = BitValue(p.data)
                 /\ WillHold(p.cv, c)

AckInv ==
    \A p \in Packets :
        reply = "AcknowledgeCv" /\ executed = {p} => mode = "run" /\ Promised(p)

LEMMA UpdatedHead ==
    ASSUME NEW s, NEW w, NEW cv \in CVs
    PROVE  Updated(s, w)[cv] = IF cv \in DOMAIN w.values THEN w.values[cv] ELSE s[cv]
BY DEF Updated

(* A write that is done is no longer needed.                               *)
LEMMA HeadIsDone ==
    ASSUME NEW cv \in CVs, NEW v, WillHold(cv, v),
           writes \in Seq(WriteCalls), writes # <<>>,
           cache = Updated(cache, Head(writes)),
           writes' = Tail(writes), cache' = cache
    PROVE  WillHold(cv, v)'
<1>1. /\ Len(writes) \in Nat /\ Len(writes) > 0 /\ Head(writes) = writes[1]
      /\ Len(writes') = Len(writes) - 1
  OBVIOUS
<1>2. \A i \in 1 .. Len(writes') : writes'[i] = writes[i + 1]
  OBVIOUS
<1>3. \A i \in 1 .. Len(writes') :
          cv \in DOMAIN writes'[i].values => writes'[i].values[cv] = v
  <2> TAKE i \in 1 .. Len(writes')
  <2>1. i + 1 \in 1 .. Len(writes)
    BY <1>1
  <2> QED
    BY <1>2, <2>1 DEF WillHold
<1>4. ASSUME NEW i \in 1 .. Len(writes), cv \in DOMAIN writes[i].values, cache[cv] # v
      PROVE  \E j \in 1 .. Len(writes') : cv \in DOMAIN writes'[j].values
  <2>1. i # 1
    <3>1. 1 \in 1 .. Len(writes)
      BY <1>1
    <3>2. ASSUME cv \in DOMAIN writes[1].values PROVE FALSE
      <4>1. writes[1].values[cv] = v
        BY <3>1, <3>2 DEF WillHold
      <4>2. cache[cv] = writes[1].values[cv]
        BY <1>1, <3>2, UpdatedHead
      <4> QED
        BY <1>4, <4>1, <4>2
    <3> QED
      BY <1>4, <3>2
  <2>2. i - 1 \in 1 .. Len(writes') /\ (i - 1) + 1 = i
    BY <1>1, <2>1
  <2>3. writes'[i - 1] = writes[i]
    BY <1>2, <2>2
  <2> QED
    BY <1>4, <2>2, <2>3
<1> QED
  BY <1>3, <1>4 DEF WillHold

LEMMA CacheTakesHead ==
    ASSUME NEW cv \in CVs, NEW v, WillHold(cv, v),
           writes \in Seq(WriteCalls), writes # <<>>,
           cache' = Updated(cache, Head(writes)), writes' = writes
    PROVE  WillHold(cv, v)'
<1>1. 1 \in 1 .. Len(writes) /\ Head(writes) = writes[1]
  OBVIOUS
<1>2. cache'[cv] = v \/ \E i \in 1 .. Len(writes) : cv \in DOMAIN writes[i].values
  <2>1. CASE cv \in DOMAIN writes[1].values
    BY <1>1, <2>1
  <2>2. CASE cv \notin DOMAIN writes[1].values
    BY <1>1, <2>2, UpdatedHead DEF WillHold
  <2> QED
    BY <2>1, <2>2
<1> QED
  BY <1>2 DEF WillHold

LEMMA WillHoldWrites ==
    ASSUME TypeOK, ArmedInv, MirrorInv, ~ FlashErrors, WriteStep,
           NEW cv \in CVs, NEW v, WillHold(cv, v)
    PROVE  WillHold(cv, v)'
<1>1. writes \in Seq(WriteCalls)
  BY DEF TypeOK, StoreTypeOK
<1>2. CASE SkipWrite
  BY <1>1, <1>2, HeadIsDone DEF SkipWrite, Redundant
<1>3. CASE UpdateCache
  BY <1>1, <1>3, CacheTakesHead DEF UpdateCache
<1>4. CASE EraseSector
  BY <1>4 DEF EraseSector, WillHold
<1>5. CASE ProgramSector
  BY <1>1, <1>5, HeadIsDone DEF ProgramSector, ArmedInv, MirrorInv
<1> QED
  BY <1>2, <1>3, <1>4, <1>5 DEF WriteStep, FlashError

-----------------------------------------------------------------------------
LEMMA OneWriteHolds ==
    ASSUME NEW cv, NEW v, writes' = <<WriteByte(cv, v)>>
    PROVE  WillHold(cv, v)'
<1>1. Len(writes') = 1 /\ writes'[1] = WriteByte(cv, v) /\ 1 \in 1 .. Len(writes')
  OBVIOUS
<1>2. \A i \in 1 .. Len(writes') : i = 1
  BY <1>1
<1>3. DOMAIN WriteByte(cv, v).values = {cv} /\ WriteByte(cv, v).values[cv] = v
  BY DEF WriteByte
<1> QED
  BY <1>1, <1>2, <1>3 DEF WillHold

LEMMA PrimaryAddressHolds ==
    ASSUME NEW v, NEW c,
           writes' = <<WriteByte(PrimaryAddress, v), WriteByte(DecoderConfiguration, c),
                       WriteByte(ConsistAddress, 0)>>
    PROVE  /\ WillHold(PrimaryAddress, v)'
           /\ WillHold(DecoderConfiguration, c)'
           /\ WillHold(ConsistAddress, 0)'
<1>1. /\ Len(writes') = 3
      /\ writes'[1] = WriteByte(PrimaryAddress, v)
      /\ writes'[2] = WriteByte(DecoderConfiguration, c)
      /\ writes'[3] = WriteByte(ConsistAddress, 0)
  OBVIOUS
<1>2. \A i \in 1 .. Len(writes') : i = 1 \/ i = 2 \/ i = 3
  BY <1>1
<1>3. 1 \in 1 .. Len(writes') /\ 2 \in 1 .. Len(writes') /\ 3 \in 1 .. Len(writes')
  BY <1>1
<1>4. \A cv, x : DOMAIN WriteByte(cv, x).values = {cv} /\ WriteByte(cv, x).values[cv] = x
  BY DEF WriteByte
<1>5. /\ PrimaryAddress # DecoderConfiguration /\ PrimaryAddress # ConsistAddress
      /\ DecoderConfiguration # ConsistAddress
  BY DEF PrimaryAddress, DecoderConfiguration, ConsistAddress
<1>6. ASSUME NEW cv, NEW x, NEW k \in 1 .. Len(writes'),
             writes'[k] = WriteByte(cv, x),
             \A i \in 1 .. Len(writes') : i # k => DOMAIN writes'[i].values # {cv}
      PROVE  WillHold(cv, x)'
  <2>1. ASSUME NEW i \in 1 .. Len(writes'), cv \in DOMAIN writes'[i].values
        PROVE  i = k
    BY <1>1, <1>2, <1>4, <1>6, <2>1
  <2>2. cv \in DOMAIN writes'[k].values /\ writes'[k].values[cv] = x
    BY <1>4, <1>6
  <2> QED
    BY <2>1, <2>2 DEF WillHold
<1>7. WillHold(PrimaryAddress, v)'
  BY <1>1, <1>2, <1>3, <1>4, <1>5, <1>6
<1>8. WillHold(DecoderConfiguration, c)'
  BY <1>1, <1>2, <1>3, <1>4, <1>5, <1>6
<1>9. WillHold(ConsistAddress, 0)'
  BY <1>1, <1>2, <1>3, <1>4, <1>5, <1>6
<1> QED
  BY <1>7, <1>8, <1>9

(* An instruction that leads to an acknowledgement leaves the writes that  *)
(* keep its promise.                                                       *)
LEMMA ExecutePromises ==
    ASSUME TypeOK, NEW p \in Packets, Execute(p), cache' = cache,
           reply' = "AcknowledgeCv"
    PROVE  Promised(p)'
<1>0. PICK w : w = WithBit(cache[DecoderConfiguration], 5, 0)
  OBVIOUS
<1>1. Bit(w, 5) = 0
  <2>1. cache \in Store /\ DecoderConfiguration \in CVs
    BY StoreAssumption DEF NamedCVs, TypeOK, StoreTypeOK
  <2>2. 5 \in 0 .. 7 /\ 0 \in {0, 1}
    OBVIOUS
  <2> QED
    BY <1>0, <2>1, <2>2, BitOfStore
<1>2. CASE p.kind = "WriteByte" /\ p.cv = PrimaryAddress
  <2>1. ExecuteWrite(PrimaryAddress, p.data)
    BY <1>2 DEF Execute
  <2>2. WritePrimaryAddress(p.data)
    BY <2>1 DEF ExecuteWrite, GuardedCVs, PrimaryAddress, ManufacturerId,
                ManufacturerVersionNumber, ExtendedAddressMsb, ExtendedAddressLsb
  <2>3. writes' = <<WriteByte(PrimaryAddress, p.data), WriteByte(DecoderConfiguration, w),
                    WriteByte(ConsistAddress, 0)>>
    BY <1>0, <2>2 DEF WritePrimaryAddress, Perform
  <2> QED
    BY <1>1, <1>2, <2>3, PrimaryAddressHolds DEF Promised
<1>3. CASE p.kind = "WriteByte" /\ p.cv # PrimaryAddress
  <2>1. ExecuteWrite(p.cv, p.data)
    BY <1>3 DEF Execute
  <2>2. writes' = <<WriteByte(p.cv, p.data)>>
    BY <1>3, <2>1
       DEF ExecuteWrite, Perform, WriteManufacturerId, FactoryReset,
           WriteVersionNumber, WriteExtendedMsb, WriteExtendedLsb
  <2> QED
    BY <1>3, <2>2, OneWriteHolds DEF Promised
<1>4. CASE p.kind = "ManipulateBit"
  <2>1. p.cv \in CVs /\ p.data \in Byte
    BY <1>4, ProgrammingPacket
  <2> DEFINE n == BitPosition(p.data)
             b == BitValue(p.data)
  <2>2. n \in 0 .. 7 /\ b \in {0, 1}
    BY <2>1, BitPacketData
  <2>3. cache \in Store
    BY DEF TypeOK, StoreTypeOK
  <2>4. ExecuteBit(p.cv, p.data)
    BY <1>4 DEF Execute
  <2>5. PICK c : c = WithBit(cache[p.cv], n, b)
    OBVIOUS
  <2>6. PICK d : d = cache[p.cv]
    OBVIOUS
  <2>7. CASE writes' = <<WriteByte(p.cv, c)>>
    <3>1. Bit(c, n) = b
      BY <2>1, <2>2, <2>3, <2>5, BitOfStore
    <3>2. WillHold(p.cv, c)'
      BY <2>7, OneWriteHolds
    <3> QED
      BY <1>4, <3>1, <3>2 DEF Promised
  <2>8. CASE writes' = <<>> /\ Bit(d, n) = b
    <3>1. WillHold(p.cv, d)'
      BY <2>6, <2>8 DEF WillHold
    <3> QED
      BY <1>4, <2>8, <3>1 DEF Promised
  <2> HIDE DEF n, b
  <2> QED
    BY <2>4, <2>5, <2>6, <2>7, <2>8 DEF ExecuteBit, Perform, n, b
<1> QED
  BY <1>2, <1>3, <1>4 DEF Promised

-----------------------------------------------------------------------------
LEMMA MirrorStep ==
    ASSUME ~ FlashErrors, ArmedInv, MirrorInv, [Next]_vars
    PROVE  MirrorInv'
<1>1. CASE Handle
  BY <1>1 DEF Handle, HandleReset, LatchPacket, ExecutePacket, HandleCommand,
              IgnorePacket, Listening, StoreAside, ArmedInv, MirrorInv
<1>2. CASE SkipWrite
  BY <1>2 DEF SkipWrite, MirrorInv
<1>3. CASE UpdateCache
  BY <1>3, UpdateTwice DEF UpdateCache, MirrorInv
<1>4. CASE EraseSector \/ ProgramSector
  BY <1>4 DEF EraseSector, ProgramSector, MirrorInv
<1>5. CASE BootStep
  BY <1>5 DEF BootStep, ReadStore, MeasureOffset, StartTasks, ArmedInv, MirrorInv
<1>6. CASE Restart
  BY <1>6 DEF Restart, MirrorInv
<1>7. CASE TimeoutElapses \/ UNCHANGED vars
  BY <1>7 DEF TimeoutElapses, vars, storeVars, MirrorInv
<1> QED
  BY <1>1, <1>2, <1>3, <1>4, <1>5, <1>6, <1>7
     DEF Next, Working, WriteStep, FlashError, Rebooting, SystemReset, PowerLoss

LEMMA NamedCVsExist ==
    {PrimaryAddress, DecoderConfiguration, ConsistAddress} \subseteq CVs
BY StoreAssumption DEF NamedCVs

LEMMA PromiseKept ==
    ASSUME TypeOK, ArmedInv, MirrorInv, ~ FlashErrors, WriteStep,
           NEW p \in Packets, Promised(p)
    PROVE  Promised(p)'
<1>1. CASE p.kind = "WriteByte"
  <2>1. p.cv \in CVs
    BY <1>1, ProgrammingPacket
  <2>2. WillHold(p.cv, p.data)'
    BY <1>1, <2>1, WillHoldWrites DEF Promised
  <2>3. CASE p.cv = PrimaryAddress
    <3>1. PICK c : Bit(c, 5) = 0 /\ WillHold(DecoderConfiguration, c)
      BY <1>1, <2>3 DEF Promised
    <3>2. WillHold(DecoderConfiguration, c)'
      BY <3>1, NamedCVsExist, WillHoldWrites
    <3>3. WillHold(ConsistAddress, 0)'
      BY <1>1, <2>3, NamedCVsExist, WillHoldWrites DEF Promised
    <3> QED
      BY <1>1, <2>2, <3>1, <3>2, <3>3 DEF Promised
  <2> QED
    BY <1>1, <2>2, <2>3 DEF Promised
<1>2. CASE p.kind = "ManipulateBit"
  <2>1. p.cv \in CVs
    BY <1>2, ProgrammingPacket
  <2>2. PICK c : Bit(c, BitPosition(p.data)) = BitValue(p.data) /\ WillHold(p.cv, c)
    BY <1>2 DEF Promised
  <2>3. WillHold(p.cv, c)'
    BY <2>1, <2>2, WillHoldWrites
  <2> QED
    BY <1>2, <2>2, <2>3 DEF Promised
<1> QED
  BY <1>1, <1>2 DEF Promised

LEMMA AckHandle ==
    ASSUME TypeOK, Handle
    PROVE  AckInv'
<1> SUFFICES ASSUME NEW p \in Packets, reply' = "AcknowledgeCv", executed' = {p}
             PROVE  mode' = "run" /\ Promised(p)'
  BY DEF AckInv
<1>1. PICK q \in Packets : ExecutePacket(q)
  BY DEF Handle, HandleReset, LatchPacket, HandleCommand, IgnorePacket, Perform
<1>2. q = p /\ Execute(p) /\ cache' = cache /\ mode' = "run"
  BY <1>1 DEF ExecutePacket, Listening, StoreAside
<1> QED
  BY <1>2, ExecutePromises

LEMMA AckWrites ==
    ASSUME TypeOK, ArmedInv, MirrorInv, ~ FlashErrors, AckInv, WriteStep,
           HandlerAside
    PROVE  AckInv'
<1>1. reply' = reply /\ mode' = mode /\ executed' = executed
  BY DEF WriteStep, SkipWrite, UpdateCache, EraseSector, ProgramSector, FlashError,
         HandlerAside
<1> QED
  BY <1>1, PromiseKept DEF AckInv

LEMMA AckStep ==
    ASSUME TypeOK, ArmedInv, MirrorInv, ~ FlashErrors, AckInv, [Next]_vars
    PROVE  AckInv'
<1>1. CASE BootStep
  BY <1>1 DEF BootStep, ReadStore, MeasureOffset, StartTasks, MirrorInv, AckInv
<1>2. CASE Restart
  BY <1>2 DEF Restart, AckInv
<1>3. CASE TimeoutElapses \/ UNCHANGED vars
  BY <1>3 DEF TimeoutElapses, vars, storeVars, AckInv, Promised, WillHold
<1> QED
  BY <1>1, <1>2, <1>3, AckHandle, AckWrites
     DEF Next, Working, Rebooting, SystemReset, PowerLoss

(* With no write to come, what will hold holds, in flash too.              *)
LEMMA PromiseHolds ==
    ASSUME ArmedInv, MirrorInv, AckInv
    PROVE  AckedWritePersists
<1> SUFFICES ASSUME NEW p \in Packets, Acknowledged(p)
             PROVE  /\ p.kind = "WriteByte" => flash[p.cv] = p.data
                    /\ p.kind = "WriteByte" /\ p.cv = PrimaryAddress =>
                           Addr(flash) = p.data /\ flash[ConsistAddress] = 0
                    /\ p.kind = "ManipulateBit" =>
                           Bit(flash[p.cv], BitPosition(p.data)) = BitValue(p.data)
  BY DEF AckedWritePersists
<1>1. writes = <<>> /\ mode = "run" /\ Promised(p)
  BY DEF Acknowledged, AckInv
<1>2. flash = cache
  BY <1>1 DEF ArmedInv, MirrorInv
<1>3. ASSUME NEW cv, NEW v, WillHold(cv, v) PROVE flash[cv] = v
  <2>1. Len(writes) = 0
    BY <1>1
  <2> QED
    BY <1>2, <1>3, <2>1 DEF WillHold
<1>4. CASE p.kind = "WriteByte" /\ p.cv = PrimaryAddress
  <2>1. flash[PrimaryAddress] = p.data /\ flash[ConsistAddress] = 0
    BY <1>1, <1>3, <1>4 DEF Promised
  <2>2. Bit(flash[DecoderConfiguration], 5) = 0
    BY <1>1, <1>3, <1>4 DEF Promised
  <2> QED
    BY <1>4, <2>1, <2>2 DEF Addr
<1>5. CASE ~ (p.kind = "WriteByte" /\ p.cv = PrimaryAddress)
  BY <1>1, <1>3, <1>5 DEF Promised
<1> QED
  BY <1>4, <1>5

(* What is acknowledged is in flash, through every power loss and every    *)
(* write that is skipped as redundant (dcc/src/handler.rs:18, store/mod.rs:*)
(* 115-131), as long as the flash does not fail.                           *)
THEOREM AcknowledgedIsPersistent ==
    ASSUME ~ FlashErrors
    PROVE  Spec => []AckedWritePersists
<1> DEFINE Inv == TypeOK /\ ArmedInv /\ MirrorInv /\ AckInv
<1>1. Init => Inv
  BY TypeInit DEF Init, StoreInit, ArmedInv, MirrorInv, AckInv
<1>2. Inv /\ [Next]_vars => Inv'
  BY TypeStep, ArmedStep, MirrorStep, AckStep
<1>3. Inv => AckedWritePersists
  BY PromiseHolds
<1> QED
  BY <1>1, <1>2, <1>3, PTL DEF Spec

-----------------------------------------------------------------------------
(* What the refinement adds to the types and to MirrorInv: a sector being  *)
(* programmed is erased, which is why a power loss then costs everything,  *)
(* and without flash errors boot does not halt.                            *)
DurableInv ==
    /\ stage = "program" => flash = Erased
    /\ mode # "halted"

LEMMA DurableInvStep ==
    ASSUME ~ FlashErrors, ArmedInv, DurableInv, [Next]_vars
    PROVE  DurableInv'
<1>1. CASE Handle
  BY <1>1 DEF Handle, HandleReset, LatchPacket, ExecutePacket, HandleCommand,
              IgnorePacket, StoreAside, DurableInv
<1>2. CASE WriteStep
  BY <1>2 DEF WriteStep, SkipWrite, UpdateCache, EraseSector, ProgramSector,
              FlashError, Erased, DurableInv
<1>3. CASE BootStep
  BY <1>3 DEF BootStep, ReadStore, MeasureOffset, StartTasks, Erased, DurableInv
<1>4. CASE Restart
  BY <1>4 DEF Restart, DurableInv
<1>5. CASE TimeoutElapses \/ UNCHANGED vars
  BY <1>5 DEF TimeoutElapses, vars, storeVars, Erased, DurableInv
<1> QED
  BY <1>1, <1>2, <1>3, <1>4, <1>5 DEF Next, Working, Rebooting, SystemReset, PowerLoss

(* A write_bytes call changes one CV or all of them to their defaults.     *)
LEMMA OneChange ==
    ASSUME NEW store \in Store, NEW w \in WriteCalls
    PROVE  \/ \E cv \in CVs : \A other \in CVs \ {cv} : Updated(store, w)[other] = store[other]
           \/ Updated(store, w) = DEFAULT_VALUES
<1>1. CASE w = ResetWrite
  <2>1. w.values = DEFAULT_VALUES
    BY <1>1 DEF ResetWrite
  <2>2. DEFAULT_VALUES = [cv \in CVs |-> DEFAULT_VALUES[cv]] /\ DOMAIN DEFAULT_VALUES = CVs
    BY StoreAssumption DEF Store
  <2>3. Updated(store, w) = [cv \in CVs |-> DEFAULT_VALUES[cv]]
    BY <2>1, <2>2 DEF Updated
  <2> QED
    BY <2>2, <2>3
<1>2. CASE w # ResetWrite
  <2>1. PICK cv \in CVs, v \in Byte : w = WriteByte(cv, v)
    BY <1>2 DEF WriteCalls
  <2>2. DOMAIN w.values = {cv}
    BY <2>1 DEF WriteByte
  <2>3. \A other \in CVs \ {cv} : Updated(store, w)[other] = store[other]
    BY <2>2, UpdatedHead
  <2> QED
    BY <2>3
<1> QED
  BY <1>1, <1>2

(* A cache update is the change of the abstract store, the erasing saves   *)
(* it there, and the end of the programming makes it safe.                 *)
LEMMA DurableWrites ==
    ASSUME TypeOK, ArmedInv, MirrorInv, DurableInv, ~ FlashErrors, WriteStep
    PROVE  Durable!Next \/ UNCHANGED Durable!vars
<1>1. writes \in Seq(WriteCalls) /\ cache \in Store
  BY DEF TypeOK, StoreTypeOK
<1>2. CASE SkipWrite
  BY <1>2 DEF SkipWrite, Durable!vars
<1>3. CASE UpdateCache
  <2>1. flash = cache
    BY <1>3 DEF UpdateCache, ArmedInv, MirrorInv, DurableInv, TypeOK, StoreTypeOK
  <2>2. Head(writes) \in WriteCalls
    BY <1>1, <1>3 DEF UpdateCache
  <2>3. cache' = Updated(cache, Head(writes)) /\ cache' \in [CVs -> Byte]
    BY <1>1, <1>3, <2>2, UpdatedType DEF UpdateCache, Store
  <2>4. \/ \E cv \in CVs : \A other \in CVs \ {cv} : cache'[other] = cache[other]
        \/ cache' = DEFAULT_VALUES
    BY <1>1, <2>2, <2>3, OneChange
  <2>5. stage = "idle" /\ stage' = "erase" /\ flash' = flash
    BY <1>3 DEF UpdateCache
  <2>6. Durable!Change
    BY <2>1, <2>3, <2>4, <2>5 DEF Durable!Change
  <2> QED
    BY <2>6 DEF Durable!Next
<1>4. CASE EraseSector
  <2>1. Durable!Save
    BY <1>4 DEF EraseSector, Durable!Save
  <2> QED
    BY <2>1 DEF Durable!Next
<1>5. CASE ProgramSector
  <2>1. Durable!Saved
    BY <1>5 DEF ProgramSector, Durable!Saved
  <2> QED
    BY <2>1 DEF Durable!Next
<1> QED
  BY <1>2, <1>3, <1>4, <1>5 DEF WriteStep, FlashError

LEMMA DurableBoot ==
    ASSUME ArmedInv, BootStep
    PROVE  Durable!Next \/ UNCHANGED Durable!vars
<1>1. CASE ReadStore
  <2>1. stage = "idle"
    BY <1>1 DEF ReadStore, ArmedInv
  <2>2. Durable!Load
    BY <1>1, <2>1 DEF ReadStore, Durable!Load
  <2> QED
    BY <2>2 DEF Durable!Next
<1>2. CASE MeasureOffset \/ StartTasks
  BY <1>2 DEF MeasureOffset, StartTasks, Durable!vars
<1> QED
  BY <1>1, <1>2 DEF BootStep

LEMMA DurableRestart ==
    ASSUME DurableInv, Restart
    PROVE  Durable!Next \/ UNCHANGED Durable!vars
<1>1. CASE stage = "program"
  <2>1. Durable!LoseAll
    BY <1>1 DEF Restart, DurableInv, Durable!LoseAll
  <2> QED
    BY <2>1 DEF Durable!Next
<1>2. CASE stage # "program"
  BY <1>2 DEF Restart, Durable!vars
<1> QED
  BY <1>1, <1>2

LEMMA DurableStep ==
    ASSUME TypeOK, ArmedInv, MirrorInv, DurableInv, ~ FlashErrors, [Next]_vars
    PROVE  [Durable!Next]_(Durable!vars)
<1>1. CASE Handle
  BY <1>1 DEF Handle, HandleReset, LatchPacket, ExecutePacket, HandleCommand,
              IgnorePacket, StoreAside, Durable!vars
<1>2. CASE TimeoutElapses \/ UNCHANGED vars
  BY <1>2 DEF TimeoutElapses, vars, storeVars, Durable!vars
<1> QED
  BY <1>1, <1>2, DurableWrites, DurableBoot, DurableRestart
     DEF Next, Working, Rebooting, SystemReset, PowerLoss

(* Sector and cache implement one store that changes a CV at a time: as    *)
(* long as the flash does not fail, no power loss mixes two configurations *)
(* and no change is made on top of one that is not in flash (store/mod.rs: *)
(* 33-47 and 114-131).                                                     *)
THEOREM StoreIsDurable ==
    ASSUME ~ FlashErrors
    PROVE  Spec => DurableSpec
<1> DEFINE Inv == TypeOK /\ ArmedInv /\ MirrorInv /\ DurableInv
<1>1. Init => Inv /\ Durable!Init
  BY TypeInit DEF Init, StoreInit, ArmedInv, MirrorInv, DurableInv, Durable!Init
<1>2. Inv /\ [Next]_vars => Inv' /\ [Durable!Next]_(Durable!vars)
  BY TypeStep, ArmedStep, MirrorStep, DurableInvStep, DurableStep
<1> QED
  BY <1>1, <1>2, PTL DEF Spec, DurableSpec, Durable!Spec

=============================================================================
