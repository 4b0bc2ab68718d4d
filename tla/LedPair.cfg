SPECIFICATION Spec
CONSTANTS
    Wrap = 15
    BlinkMs = 3
    IdentifyMs = 1
    MaxFlash = 7
    MaxGap = 2
INVARIANTS
    ShowsRequest
    Blinks
    Flashes
