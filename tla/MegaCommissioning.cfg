SPECIFICATION Spec
CONSTANTS
    Base = 4
    StationCount = 2
    MaxAddress = 5
    DefaultAddress <- MCDefaultAddress
    DefaultName = 1
    TypedAddresses = {0, 1, 6, 20}
    TypedNames = {2}
INVARIANTS
    TypeOK
    ValidSaveSurvives
PROPERTIES
    OneStationTorn
