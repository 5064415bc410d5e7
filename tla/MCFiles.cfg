\* A Preview Tab over two files in twenty-one small worlds; forwards, downloads and uploads on
\* one connection in eight.
SPECIFICATION FairFilesSpec
CONSTANTS
    a = a
    b = b
    Paths = {a, b}
    NoPath = NoPath
    NoTab = NoTab
    NoEditor = NoEditor
    NoAnswer = NoAnswer
    Nothing = Nothing
    MaxIds = 12
    MaxNumber = 2
    Window = 8
    MaxChunk = 4
    WireCap = 1
    Settings <- Connections
INVARIANTS EditorIsSound EndsAgree TransferIsWhole
PROPERTIES NothingUnseenIsReplaced FilesSettle
CHECK_DEADLOCK FALSE
