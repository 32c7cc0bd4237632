\* Operations worked off one at a time, both rates, ramps of two steps
\* and an index above every commandable one after a wrap; stops of both
\* kinds; functions of two groups on plain, dimmed and misconfigured outputs.
SPECIFICATION LocoPacedSpec
CONSTANTS
    MaxStep = 2
    StepModulus = 4
    AccelRates <- MCBothRates
    DecelRates <- MCBothRates
    SpeedTable <- MCSpeedTable
    Ops <- MCOps
    ChannelCapacity = 2
    BootStore <- MCStore
    FunctionGroups <- MCGroups
INVARIANTS
    LocoTypeOK
    OutputsFollowFunctions
    LightsFaceTravel
    ResetStopsMotor
    TimerArmedIffRamping
PROPERTIES
    TurnsOnlyAtStandstill
    RampsTowardsTarget
    TargetReached
    RampSpec
