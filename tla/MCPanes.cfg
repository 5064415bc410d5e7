\* One terminal's input queue, one Session's tree, one Pane's agent; two connections and two Panes.
SPECIFICATION FairSpec
CONSTANTS
    Cases <- Everything
    t1 = t1
    t2 = t2
    a1 = a1
    a2 = a2
    claude = claude
    codex = codex
    Writers = {t1, t2}
    UserCapacity = 2
    ControlReserve = 1
    ReplyReserve = 1
    InputBytes = 3
    MaxWorkspaces = 2
    MaxTabs = 3
    MaxPanes = 4
    MaxDepth = 3
    MaxStableId = 11
    NoPane = NoPane
    Askers = {a1, a2}
    AgentKinds = {claude, codex}
    Hooked = {claude, codex}
    TurnNamed = {codex}
    StartupReports = {claude}
    NoKind = NoKind
    Misses = 2
    MaxReports = 2
    s1 = s1
    s2 = s2
    p1 = p1
    p2 = p2
    Seats = {s1, s2}
    HostSeats = {s1}
    Screens = {p1, p2}
    Unheld = Unheld
INVARIANTS InputIsSafe TreeIsSound ConversationsReturn RequestsAreSound StopGoesThrough
PROPERTIES StepsAreExact PanesSettle
CHECK_DEADLOCK FALSE
