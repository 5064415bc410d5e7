\* A GUI window alone, a Companion alone, and both.
SPECIFICATION FairClientsSpec
CONSTANTS
    g1 = g1
    m1 = m1
    NoClient = NoClient
    Clients = {g1, m1}
    Guis = {g1}
    MaxItems = 2
    MaxBytes = 3
    BootstrapSize = 2
    HistoryLimit = 2
    WireCap = 1
    Settings <- Streamed
    d1 = d1
    d2 = d2
    h1 = h1
    h2 = h2
    p1 = p1
    p2 = p2
    Peers = {d1, d2}
    TheHost = TheHost
    Nobody = Nobody
    Homes = {h1, h2}
    Screens = {p1, p2}
    NoHome = NoHome
    NoScreen = NoScreen
    Alerting = {p1, p2}
    Phones = {d1, d2}
    MaxRecipients = 1
INVARIANTS StreamIsSound PairingIsSound PhoneIsSound PushesAreInOrder
PROPERTIES ReplicatesSession ClientsSettle
CHECK_DEADLOCK FALSE
