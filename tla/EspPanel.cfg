SPECIFICATION Spec
CONSTANTS
    ChannelAddress <- MCChannelAddress
    InFlight = 1
    Queued = 2
    CommandsOut = 1
INVARIANTS
    IndicatorsExplained
    BlinksWhenCutOff
    QueueDrained
PROPERTIES
    SilentInCollision
    PressesFlip
    IndicatorsConverge
