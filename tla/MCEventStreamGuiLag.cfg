\* One GUI window whose requested Bootstrap is discarded by an overflow.
SPECIFICATION Spec
CONSTANTS
    g1 = g1
    m1 = m1
    NoClient = NoClient
    Clients = {g1, m1}
    Guis = {g1}
    MaxItems = 2
    MaxBytes = 3
    BootstrapSize = 2
    HistoryLimit = 2
    WireCap = 1
    Settings <- Asking
INVARIANT AwaitedBootstrapIsComing
CHECK_DEADLOCK FALSE
