\* A latched packet survives what comes in between.
SPECIFICATION Spec
CONSTANTS
    CVs <- MCCVs
    DEFAULT_VALUES <- MCDefaults
    Contents <- MCProgrammed
    Offsets <- MCOffsets
    FlashErrors = FALSE
    PowerFails = FALSE
    Packets <- MCDriven
PROPERTIES
    TwoPacketRequired
