\* accel.rs:79 at standstill: the ramp away from a reversed stop.
SPECIFICATION AccelSpec
CONSTANTS
    MaxStep = 3
    StepModulus = 8
    AccelRates <- MCRates
    DecelRates <- MCSomeRate
    SpeedTable <- MCSpeedTable
PROPERTIES
    DeceleratesToZeroThenTurns
