------------------------------ MODULE CvFlash ------------------------------
(***************************************************************************)
(* The configuration variables: the flash sector that keeps them, the      *)
(* store's cache of it (application/src/store/mod.rs), and the boot that   *)
(* reads it back (main.rs, cv/store.rs). Flash calls block the executor,   *)
(* so nothing else runs while a write is under way, but power can be lost  *)
(* between any two of its steps. A power loss inside an erase or a program *)
(* call leaves what the step before or after it leaves.                    *)
(***************************************************************************)
EXTENDS CvAccess, Sequences

CONSTANTS
    CVs,            \* numbers of the CVs modelled
    DEFAULT_VALUES, \* their defaults
    Contents,       \* what the sector may hold at the first power-up
    Offsets,        \* results of the ADC offset measurement at boot
    FlashErrors,    \* TRUE iff an erase or program call may return an error
    PowerFails      \* TRUE iff power may be lost

NamedCVs == {PrimaryAddress, ManufacturerVersionNumber, ManufacturerId,
             ExtendedAddressMsb, ExtendedAddressLsb, ConsistAddress,
             DecoderConfiguration, EmfAdcOffset}

Store == [CVs -> Byte]
Erased == [cv \in CVs |-> 255]

ASSUME StoreAssumption ==
    /\ NamedCVs \subseteq CVs /\ CVs \subseteq 1 .. CV_SIZE
    /\ DEFAULT_VALUES \in Store
    /\ Contents \subseteq Store
    /\ Offsets \subseteq 0 .. 254
    /\ FlashErrors \in BOOLEAN /\ PowerFails \in BOOLEAN

VARIABLES
    flash,    \* the sector
    cache,    \* Flash.cache
    writes,   \* write_bytes calls the current operation has still to make
    stage,    \* progress of the first of them: "idle", "erase" or "program"
    mode,     \* "boot", "populate", "calibrate", "run", or "halted" by a panic
    reply     \* what the last packet led to once its writes are done

storeVars == <<flash, cache, writes, stage, mode, reply>>

(* A write_bytes call: values for some CVs, and whether to write them even *)
(* if the cache holds them already.                                        *)
WriteByte(cv, v) == [values |-> [x \in {cv} |-> v], force |-> FALSE]
ResetWrite       == [values |-> DEFAULT_VALUES, force |-> TRUE]

WriteCalls == {WriteByte(cv, v) : cv \in CVs, v \in Byte} \union {ResetWrite}

Replies == {"None", "AcknowledgeCv", "Reset", "Command", "Reboot", "Error"}

StoreTypeOK ==
    /\ flash \in Store /\ cache \in Store
    /\ writes \in Seq(WriteCalls)
    /\ stage \in {"idle", "erase", "program"}
    /\ mode \in {"boot", "populate", "calibrate", "run", "halted"}
    /\ reply \in Replies

StoreInit ==
    /\ flash \in Contents
    /\ cache = flash
    /\ writes = <<>> /\ stage = "idle"
    /\ mode = "boot" /\ reply = "None"

-----------------------------------------------------------------------------

(* Mutant: clears a bit that may not be set.                               *)
WithBitBlind(byte, b, value) == byte + (2 * value - 1) * 2^b

WithBit(byte, b, value) == byte + (value - Bit(byte, b)) * 2^b

Updated(store, w) ==
    [cv \in CVs |-> IF cv \in DOMAIN w.values THEN w.values[cv] ELSE store[cv]]

(* Nothing changes and the write is not forced: no flash access.           *)
Redundant(w) == ~ w.force /\ Updated(cache, w) = cache

SkipWrite ==
    /\ stage = "idle" /\ writes # <<>>
    /\ Redundant(Head(writes))
    /\ writes' = Tail(writes)
    /\ UNCHANGED <<flash, cache, stage, mode, reply>>

UpdateCache ==
    /\ stage = "idle" /\ writes # <<>>
    /\ ~ Redundant(Head(writes))
    /\ cache' = Updated(cache, Head(writes))
    /\ stage' = "erase"
    /\ UNCHANGED <<flash, writes, mode, reply>>

(* sync_cvs()                                                              *)
EraseSector ==
    /\ stage = "erase"
    /\ flash' = Erased
    /\ stage' = "program"
    /\ UNCHANGED <<cache, writes, mode, reply>>

ProgramSector ==
    /\ stage = "program"
    /\ flash' = cache
    /\ stage' = "idle"
    /\ writes' = Tail(writes)
    /\ UNCHANGED <<cache, mode, reply>>

(* Error::Io: the operation ends there, and boot unwraps it.               *)
FlashError ==
    /\ FlashErrors
    /\ stage # "idle"
    /\ writes' = <<>> /\ stage' = "idle"
    /\ reply' = "Error"
    /\ mode' = IF mode = "run" THEN "run" ELSE "halted"
    /\ UNCHANGED <<flash, cache>>

WriteStep ==
    SkipWrite \/ UpdateCache \/ EraseSector \/ ProgramSector \/ FlashError

-----------------------------------------------------------------------------
(* Boot: Flash::new, ensure_populated, and the ADC offset if there is none.*)

(* Mutant: takes over the cache that the reset has left in memory.         *)
ReadStoreWarm ==
    /\ mode = "boot"
    /\ writes' = IF Addr(cache) = 0 THEN <<ResetWrite>> ELSE <<>>
    /\ mode' = "populate"
    /\ UNCHANGED <<flash, cache, stage, reply>>

ReadStore ==
    /\ mode = "boot"
    /\ cache' = flash
    /\ writes' = IF Addr(flash) = 0 THEN <<ResetWrite>> ELSE <<>>
    /\ mode' = "populate"
    /\ UNCHANGED <<flash, stage, reply>>

MeasureOffset ==
    /\ mode = "populate" /\ writes = <<>>
    /\ IF AdcOffset(cache) = None
       THEN \/ writes' = <<>>                \* the measurement failed
            \/ \E o \in Offsets : writes' = <<WriteByte(EmfAdcOffset, o)>>
       ELSE writes' = <<>>
    /\ mode' = "calibrate"
    /\ UNCHANGED <<flash, cache, stage, reply>>

StartTasks ==
    /\ mode = "calibrate" /\ writes = <<>>
    /\ mode' = "run"
    /\ UNCHANGED <<flash, cache, writes, stage, reply>>

BootStep == ReadStore \/ MeasureOffset \/ StartTasks

Restart ==
    /\ mode' = "boot"
    /\ writes' = <<>> /\ stage' = "idle" /\ reply' = "None"
    /\ UNCHANGED <<flash, cache>>

PowerLoss == PowerFails /\ Restart

(* sys_reset(), once the operation that asked for it is done.              *)
SystemReset == mode = "run" /\ reply = "Reboot" /\ writes = <<>> /\ Restart

-----------------------------------------------------------------------------
(* As long as the flash does not fail, sector and cache are one store that *)
(* changes a CV at a time (store/mod.rs:114-131): no power loss between a  *)
(* cache update, the erasing and the programming, redundant write or reset *)
(* mixes two configurations, and none is written on top of an unsaved one. *)
Durable == INSTANCE DurableStore
    WITH saved    <- IF stage = "program" THEN cache ELSE flash,
         view     <- cache,
         saving   <- stage = "program",
         Values   <- Byte,
         Defaults <- DEFAULT_VALUES,
         Blank    <- Erased

DurableSpec == Durable!Spec

=============================================================================
