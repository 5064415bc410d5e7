\* An agent runs and the shell under it ends.
SPECIFICATION Spec
CONSTANTS
    Cases <- TheEnd
    t1 = t1
    t2 = t2
    a1 = a1
    a2 = a2
    claude = claude
    codex = codex
    Writers = {t1, t2}
    UserCapacity = 2
    ControlReserve = 1
    ReplyReserve = 1
    InputBytes = 3
    MaxWorkspaces = 2
    MaxTabs = 3
    MaxPanes = 4
    MaxDepth = 3
    MaxStableId = 11
    NoPane = NoPane
    Askers = {a1, a2}
    AgentKinds = {claude, codex}
    Hooked = {claude, codex}
    TurnNamed = {codex}
    StartupReports = {claude}
    NoKind = NoKind
    Misses = 2
    MaxReports = 2
    s1 = s1
    s2 = s2
    p1 = p1
    p2 = p2
    Seats = {s1, s2}
    HostSeats = {s1}
    Screens = {p1, p2}
    Unheld = Unheld
INVARIANTS ExitedHasNoAgent
CHECK_DEADLOCK FALSE
