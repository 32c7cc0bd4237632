\* A level of the other direction without a stop in between, as the accel
\* task signals it when CV4 is 0.
SPECIFICATION Spec
CONSTANTS
    BootStore <- MCStore
    Top = 5
    SweepSteps = 4
    RingLength = 2
    SpeedSteps <- MCSpeedSteps
    Samples <- MCSamples
INVARIANTS
    IntegralOfOneDirection
