\* Two connections, one Worktree and two lives of the Server.
SPECIFICATION FairSpec
CONSTANTS
    Clients = {c1, c2}
    Monitors = {m1}
    Worktrees = {w1}
    WriteAttempts = 2
    RenameMayFail = FALSE
    MaxVersion = 2
    MaxStarts = 2
INVARIANTS UnsavedIsQueued CleanStopKeepsAll CheckoutsAgree TerminalsComeBack
PROPERTIES WritesGoForward ForeignIsKept StopsAndWritesEnd
CHECK_DEADLOCK FALSE
