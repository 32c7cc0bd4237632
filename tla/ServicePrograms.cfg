\* Every kind of packet and every order of address writes, with power lost at
\* any step, on a programmed and on an erased chip.
SPECIFICATION Spec
CONSTANTS
    CVs <- MCCVs
    DEFAULT_VALUES <- MCDefaults
    Contents <- MCAnyChip
    Offsets <- MCOffsets
    FlashErrors = FALSE
    PowerFails = TRUE
    Packets <- MCAllWrites
INVARIANTS
    TypeOK
    AckedWritePersists
    AddressNeverZero
PROPERTIES
    NoProgrammingInOperations
    DurableSpec
