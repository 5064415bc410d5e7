\* A Pane is split off while its Worktree is being removed.
SPECIFICATION Spec
CONSTANTS
    Clients = {c1}
    Monitors = {m1}
    Worktrees = {w1}
    WriteAttempts = 2
    RenameMayFail = FALSE
    MaxVersion = 2
    MaxStarts = 1
INVARIANTS StoppedBeforeGit
CHECK_DEADLOCK FALSE
