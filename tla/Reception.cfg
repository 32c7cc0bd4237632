\* Packets of three to nine bytes in every order, a FIFO of one block and a
\* channel of two packets.
SPECIFICATION Spec
CONSTANTS
    MaxStep = 126
    StepModulus = 256
    Track <- MCTrack
    Noise <- MCNoise
    XModulus = 16
    FifoWords = 2
    ChannelCapacity = 2
    CvStore <- MCCvStore
INVARIANTS
    TypeOK
    BlocksAligned
    HandledWasSent
    NewestSurvives
PROPERTIES
    NewestIsHandled
    HearsAgain
    DeliverySpec
