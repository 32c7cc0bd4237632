\* A retry after a flash error is acknowledged. A flash error at boot is unwrapped:
\* the panic halts the decoder for good.
SPECIFICATION Spec
CONSTANTS
    CVs <- MCCVs
    DEFAULT_VALUES <- MCDefaults
    Contents <- MCProgrammed
    Offsets <- MCOffsets
    FlashErrors = TRUE
    PowerFails = FALSE
    Packets <- MCOneWrite
INVARIANTS
    AckedWritePersists
CHECK_DEADLOCK FALSE
