SPECIFICATION Spec
CONSTANTS
    ChannelCount = 2
    MaxNodeId = 1
    MaxAddress = 6
    TypedIds = {0, 1}
    TypedSsids = {0, 1}
    TypedAddresses = {0, 6, 7}
INVARIANTS
    TypeOK
    StoredValid
    SavedIsStored
PROPERTIES
    FailureReported
    SetupOnRequest
    FormLeadsToNormal
