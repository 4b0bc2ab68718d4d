SPECIFICATION Spec
CONSTANTS
    Wrap = 12
    Addresses = {1, 2}
    PulseMs = 2
    MaxGap = 2
    LastTick = 9
INVARIANTS
    OnlyPendingOutput
    PulseBounded
PROPERTIES
    ImplementsCoilPulse
