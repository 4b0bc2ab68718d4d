SPECIFICATION Spec
CONSTANTS
    Wrap = 12
    Addresses = {1, 2}
    PulseMs = 2
    MaxGap = 2
    LastTick = 12
INVARIANTS
    PulseBounded
