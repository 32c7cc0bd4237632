\* Every kind of packet with flash errors at any step, without power losses.
\* A flash error at boot is unwrapped: the panic halts the decoder for good.
SPECIFICATION Spec
CONSTANTS
    CVs <- MCCVs
    DEFAULT_VALUES <- MCDefaults
    Contents <- MCProgrammed
    Offsets <- MCOffsets
    FlashErrors = TRUE
    PowerFails = FALSE
    Packets <- MCEveryKind
PROPERTIES
    FactoryResetTakesEffect
CHECK_DEADLOCK FALSE
