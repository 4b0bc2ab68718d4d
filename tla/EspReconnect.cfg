SPECIFICATION Spec
CONSTANTS
    ChannelAddress <- MCChannelAddress
    InFlight = 1
    Queued = 2
    CommandsOut = 1
INVARIANTS
    ShowsConfirmedOnly
