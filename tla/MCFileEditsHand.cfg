\* A window disconnected by hand while its save is on its way.
SPECIFICATION HandSpec
CONSTANTS
    a = a
    b = b
    Paths = {a, b}
    NoPath = NoPath
    NoTab = NoTab
    NoEditor = NoEditor
    NoAnswer = NoAnswer
    Nothing = Nothing
    MaxIds = 12
INVARIANT SavesAreAwaited
CHECK_DEADLOCK FALSE
