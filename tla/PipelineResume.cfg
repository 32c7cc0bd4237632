\* Velocity, reset, the same velocity, worked off one at a time.
SPECIFICATION PacedSpec
CONSTANTS
    MaxStep = 1
    StepModulus = 2
    AccelRates <- MCZeroRate
    DecelRates <- MCZeroRate
    SpeedTable <- MCSpeedTable
    Ops <- MCResetOps
    ChannelCapacity = 2
INVARIANTS
    CommandedSpeedReachesMotor
