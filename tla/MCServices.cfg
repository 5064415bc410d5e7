\* A connection's writer with items of one and two units against caps of two items and
\* three units; a Git watcher; a link; Supervisors and commands; a
\* Device with two addresses, a port and one transfer at a time.
SPECIFICATION FairSpec
CONSTANTS
    h1 = h1
    h2 = h2
    w1 = w1
    w2 = w2
    t1 = t1
    t2 = t2
    s1 = s1
    s2 = s2
    s3 = s3
    c1 = c1
    c2 = c2
    Holders = {h1, h2}
    Sizes = {1, 2}
    MaxItems = 2
    MaxBytes = 3
    MaxAccepted = 4
    Workspaces = {w1, w2}
    MaxPending = 2
    NoGit = NoGit
    Callers = {t1, t2}
    NoConnection = NoConnection
    Slots = {s1, s2, s3}
    Commands = {c1, c2}
    NoOne = NoOne
    Window = 3
    MaxRestarts = 2
    p1 = p1
    p2 = p2
    x1 = x1
    Addresses = {p1, p2}
    Ports = {x1}
    NoWire = NoWire
    NoRuntime = NoRuntime
    NoForm = NoForm
    RunningPerDevice = 1
INVARIANTS StreamIsHonest QueueIsExact NoLostWakeup QuietIsFollowed SupervisorIsSound DeviceIsSound
PROPERTIES ServicesSettle
CHECK_DEADLOCK FALSE
