--------------------------- MODULE MCEventStream ---------------------------
(* EventStream with a GUI window g1 and a mobile Companion m1.             *)
EXTENDS EventStream

CONSTANTS g1, m1

Calm(clients, length) ==
    [clients |-> clients, sequence |-> length, gaps |-> 0, layouts |-> 0, failures |-> 0,
     drops |-> 0]

\* A GUI window alone, which asks by itself or only when it is told to, a
\* Companion alone, and both; gaps, Layout commands, failed Bootstraps, lost
\* connections.
Following ==
    {[Calm({g1}, 4) EXCEPT !.gaps = 1, !.layouts = 1, !.failures = 1, !.drops = 1],
     [Calm({g1}, 5) EXCEPT !.failures = 1, !.drops = 1],
     [Calm({m1}, 5) EXCEPT !.gaps = 2, !.failures = 1, !.drops = 1],
     [Calm({g1, m1}, 3) EXCEPT !.drops = 1],
     [Calm({g1, m1}, 2) EXCEPT !.layouts = 1, !.gaps = 1]}

\* A GUI window that asks by itself while its queue may overflow.
Asking == {[Calm({g1}, 5) EXCEPT !.gaps = 1]}
=============================================================================
