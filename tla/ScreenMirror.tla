---------------------------- MODULE ScreenMirror ----------------------------
(* What the visual stream promises: a Client shows, of each Pane, screens  *)
(* that its terminals really drew, skipping any number of them and never   *)
(* going back, or nothing (ADR 0004: latest-value coalescing).             *)
EXTENDS Integers

CONSTANT Panes

VARIABLES
    drawn,   \* per Pane: the view its terminal drew last
    shown    \* per Pane: the view the Client shows

vars == <<drawn, shown>>

Blank == [terminal |-> -1, revision |-> 0]

AsNewAs(v, w) ==
    \/ v.terminal > w.terminal
    \/ v.terminal = w.terminal /\ v.revision >= w.revision

Init == \A p \in Panes : shown[p] \in {Blank, drawn[p]}

(* A terminal draws, or another one takes its Pane.                        *)
Draw(p) ==
    /\ \/ /\ drawn'[p].terminal = drawn[p].terminal
          /\ drawn'[p].revision = drawn[p].revision + 1
       \/ /\ drawn'[p].terminal > drawn[p].terminal
          /\ drawn'[p].revision = 0
    /\ \A q \in Panes \ {p} : drawn'[q] = drawn[q]
    /\ UNCHANGED shown

Shows(p) ==
    \/ shown'[p] = shown[p]
    \/ shown'[p] = Blank
    \/ /\ shown'[p].terminal > 0
       /\ AsNewAs(drawn[p], shown'[p])
       /\ AsNewAs(shown'[p], shown[p])

Show ==
    /\ \A p \in Panes : Shows(p)
    /\ UNCHANGED drawn

Next == Show \/ \E p \in Panes : Draw(p)

Spec == Init /\ [][Next]_vars
=============================================================================
