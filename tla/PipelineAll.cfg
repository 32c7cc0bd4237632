\* The whole pipeline with full channels (of one command, so that back-pressure
\* is common): reversals, the stop that wraps, acknowledgements and resets.
SPECIFICATION Spec
CONSTANTS
    MaxStep = 1
    StepModulus = 3
    AccelRates <- MCOneRate
    DecelRates <- MCOneRate
    SpeedTable <- MCSpeedTable
    Ops <- MCMixedOps
    ChannelCapacity = 1
INVARIANTS
    TypeOK
    NoShootThrough
    SupervisedOutput
    SignalCoherent
    CommandedLevelReachesMotor
PROPERTIES
    StopCommandStopsMotor
    HandlerNeverStuck
