\* A window whose queue overflows while its save is answered.
SPECIFICATION OverflowSpec
CONSTANTS
    a = a
    b = b
    Paths = {a, b}
    NoPath = NoPath
    NoTab = NoTab
    NoEditor = NoEditor
    NoAnswer = NoAnswer
    Nothing = Nothing
    MaxIds = 12
INVARIANT SavesAreAwaited
CHECK_DEADLOCK FALSE
