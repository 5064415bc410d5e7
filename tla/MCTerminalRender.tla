-------------------------- MODULE MCTerminalRender --------------------------
(* TerminalRender with two Panes, which are alike.                         *)
EXTENDS TerminalRender

CONSTANTS p, q

\* A connection on which nothing ever happens, with these Panes.
Quiet(used, chunked, isCompanion) ==
    [panes |-> used, absent |-> {}, large |-> chunked, companion |-> isCompanion,
     revisions |-> [pane \in Panes |-> 1], restarts |-> 0, shows |-> 0, lags |-> 0,
     unreadable |-> 0, gaps |-> 0, replies |-> 0]

\* A GUI window: frames in chunks, a gap and a frame from a newer protocol.
Gui(x) == [Quiet({x}, {x}, FALSE) EXCEPT !.gaps = 1, !.unreadable = 1]

\* A Companion that goes from one Pane to the other, one of which draws nothing
\* new.
Visitor(x) == [Quiet({p, q}, {}, TRUE) EXCEPT !.revisions[x] = 0, !.shows = 1]

\* A Companion that leaves a Pane and comes back, with other messages in
\* between, or whose frames come in chunks.
Returner(x) == [Quiet({x}, {}, TRUE) EXCEPT !.shows = 1, !.replies = 1]
ChunkedReturner(x) == [Quiet({x}, {x}, TRUE) EXCEPT !.shows = 2]

\* A Companion whose reliable queue overflows.
Laggard(x) == [Quiet({x}, {x}, TRUE) EXCEPT !.lags = 1]

\* A Pane that starts, and one whose terminal ends or is restarted.
Starter(x) == [Quiet({x}, {}, FALSE) EXCEPT !.absent = {x}]
Restarter(x) == [Quiet({x}, {}, FALSE) EXCEPT !.restarts = 1]

Lives ==
    {Gui(p), Visitor(p), Returner(p), ChunkedReturner(p), Laggard(p), Starter(p), Restarter(p)}

\* A Pane starts that the Companion does not watch, and is shown later.
UnwatchedStart == {[Visitor(p) EXCEPT !.revisions[p] = 1, !.absent = {p}]}
=============================================================================
