SPECIFICATION Spec
CONSTANTS
    StationAddress <- MCStationAddress
    RouteOfButton <- MCRouteOfButton
    BufferSize = 2
INVARIANTS
    IndicatorsExplained
    RouteSetsTurnouts
PROPERTIES
    IndicatorsConverge
