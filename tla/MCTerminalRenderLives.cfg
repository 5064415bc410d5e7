\* GUI windows and Companions, with chunks, visits, overflows and restarts.
SPECIFICATION FairSpec
CONSTANTS
    p = p
    q = q
    Panes = {p, q}
    WireCap = 1
    Settings <- Lives
INVARIANTS RenderIsSound
PROPERTIES MirrorsScreens BecomesCurrent
CHECK_DEADLOCK FALSE
