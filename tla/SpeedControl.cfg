\* Two remembered starts, a sweep of five steps with a try at half the
\* level, both directions, levels in and above the gain schedule.
SPECIFICATION Spec
CONSTANTS
    BootStore <- MCStore
    Top = 5
    SweepSteps = 4
    RingLength = 2
    SpeedSteps <- MCSpeedSteps
    Samples <- MCSamples
INVARIANTS
    TypeOK
    SupervisedDrive
    ControllersTakeTurns
    GainInSchedule
PROPERTIES
    HandoverNotBySpikes
    
    StuckMotorIsPushed
