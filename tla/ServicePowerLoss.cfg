\* Power lost between erase and program: boot does not see that it is empty.
SPECIFICATION Spec
CONSTANTS
    CVs <- MCCVs
    DEFAULT_VALUES <- MCDefaults
    Contents <- MCProgrammed
    Offsets <- MCOffsets
    FlashErrors = FALSE
    PowerFails = TRUE
    Packets <- MCOneWrite
INVARIANTS
    EmptyStoreIsReset
