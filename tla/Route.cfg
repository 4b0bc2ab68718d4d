SPECIFICATION Spec
CONSTANTS
    Wrap = 8
    Addresses = {1, 2}
    PulseMs = 2
    SpacingMs = 3
    MaxGap = 2
    LastTick = 8
    Routes <- MCRoutes
INVARIANTS
    TypeOK
PROPERTIES
    RouteOnTime
    RoutePulsesWhole
    ImplementsRouteRun
    RoutesEnd
