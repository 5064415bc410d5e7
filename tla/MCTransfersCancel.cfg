\* A download that is cancelled while the end of the file is on its way.
SPECIFICATION TSpec
CONSTANTS
    MaxNumber = 1
    Window = 8
    MaxChunk = 4
    WireCap = 1
    Settings <- Cancelled
INVARIANT PlacedOnlyComplete
CHECK_DEADLOCK FALSE
