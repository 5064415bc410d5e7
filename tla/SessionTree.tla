----------------------------- MODULE SessionTree -----------------------------
(***************************************************************************)
(* The Session every Client shares (condr-core/src/session.rs and          *)
(* session/*.rs): Workspaces in order, their Tabs in order, the Panes of a *)
(* terminal Tab in a tree of splits, and each Tab's focus.  The commands   *)
(* of condr-server/src/server/layout.rs:apply_layout_command change it; a  *)
(* Server that starts again reads it from its Snapshot.                    *)
(*                                                                         *)
(* Names, paths, working directories and Agent resumes are left out: no    *)
(* command's outcome depends on one another's.  A ratio is in tenths, and  *)
(* a Tab's area is Side by Side, so that every edge is a whole number.     *)
(***************************************************************************)
EXTENDS Integers, Sequences, FiniteSets, SequencesExt

CONSTANTS
    MaxWorkspaces, MaxTabs, MaxPanes,   \* MAX_SNAPSHOT_WORKSPACES, _TABS, _PANES
    MaxDepth,                           \* MAX_SNAPSHOT_LAYOUT_DEPTH
    MaxStableId,                        \* MAX_STABLE_ID
    NoPane                              \* no Pane zoomed, none split off

ASSUME TreeAssumption == {MaxWorkspaces, MaxTabs, MaxPanes, MaxDepth, MaxStableId} \subseteq Nat

VARIABLES
    session,    \* the Workspaces
    next_id,    \* NEXT_ID
    closed,     \* the CloseOutcome of the last command
    recency,    \* every Pane that had its Tab's focus, the latest last
    treeSpent   \* how many commands of what the setting allows

treeVars == <<session, next_id, closed, recency, treeSpent>>

-----------------------------------------------------------------------------
(* Layouts (session/layout.rs)                                             *)

PaneLeaf(p) == [pane |-> p]
IsPane(l) == "pane" \in DOMAIN l
SplitOf(direction, ratio, first, second) ==
    [direction |-> direction, ratio |-> ratio, first |-> first, second |-> second]
NoLayout == [pane |-> NoPane]

Sides == {"Left", "Right", "Up", "Down"}
DirectionOf(side) == IF side \in {"Left", "Right"} THEN "Horizontal" ELSE "Vertical"
Leading == {"Left", "Up"}

(* valid_split_ratio, of a finite ratio.                                   *)
Clamped(ratio) == CHOOSE r \in 1..9 : \A q \in 1..9 : (r - ratio)^2 <= (q - ratio)^2

RECURSIVE Leaves(_)
Leaves(l) == IF IsPane(l) THEN <<l.pane>> ELSE Leaves(l.first) \o Leaves(l.second)
Holds(l, p) == p \in ToSet(Leaves(l))

RECURSIVE DepthIn(_, _)
DepthIn(l, p) ==
    IF IsPane(l) THEN 1 ELSE 1 + DepthIn(IF Holds(l.first, p) THEN l.first ELSE l.second, p)

(* split_layout: new is put beside target, on this side of it.             *)
RECURSIVE SplitLayout(_, _, _, _)
SplitLayout(l, target, new, side) ==
    IF ~IsPane(l)
    THEN [l EXCEPT !.first = SplitLayout(@, target, new, side),
                   !.second = SplitLayout(@, target, new, side)]
    ELSE IF l.pane # target THEN l
    ELSE IF side \in Leading THEN SplitOf(DirectionOf(side), 5, PaneLeaf(new), l)
                             ELSE SplitOf(DirectionOf(side), 5, l, PaneLeaf(new))

(* remove_from_layout: the sibling takes the place of the split.           *)
RECURSIVE RemoveFrom(_, _)
RemoveFrom(l, p) ==
    IF IsPane(l) THEN IF l.pane = p THEN NoLayout ELSE l
    ELSE LET first == RemoveFrom(l.first, p)
             second == RemoveFrom(l.second, p)
         IN IF first = NoLayout THEN second
            ELSE IF second = NoLayout THEN first
            ELSE [l EXCEPT !.first = first, !.second = second]

RECURSIVE SwapIn(_, _, _)
SwapIn(l, p, q) ==
    IF IsPane(l)
    THEN PaneLeaf(CASE l.pane = p -> q [] l.pane = q -> p [] OTHER -> l.pane)
    ELSE [l EXCEPT !.first = SwapIn(@, p, q), !.second = SwapIn(@, p, q)]

(* apply_split_ratios, in preorder.                                        *)
RECURSIVE WithRatios(_, _)
WithRatios(l, ratios) ==
    IF IsPane(l) THEN l
    ELSE LET inFirst == Len(Leaves(l.first))
         IN [l EXCEPT !.ratio = Clamped(ratios[1]),
                      !.first = WithRatios(@, SubSeq(ratios, 2, inFirst)),
                      !.second = WithRatios(@, SubSeq(ratios, inFirst + 1, Len(ratios)))]

(* resize_between: the split that parts the two moves.                     *)
RECURSIVE ResizeBetween(_, _, _, _)
ResizeBetween(l, target, neighbor, amount) ==
    IF IsPane(l) THEN l
    ELSE LET targetFirst == Holds(l.first, target)
         IN IF targetFirst # Holds(l.first, neighbor)
            THEN [l EXCEPT !.ratio = Clamped(@ + (IF targetFirst THEN amount ELSE -amount))]
            ELSE IF targetFirst
            THEN [l EXCEPT !.first = ResizeBetween(@, target, neighbor, amount)]
            ELSE [l EXCEPT !.second = ResizeBetween(@, target, neighbor, amount)]

(* collect_pane_rects.                                                     *)
Side == 10^(MaxDepth - 1)
RECURSIVE RectsIn(_, _)
RectsIn(l, box) ==
    IF IsPane(l) THEN <<[pane |-> l.pane, box |-> box]>>
    ELSE IF l.direction = "Horizontal"
    THEN LET at == box.left + ((box.right - box.left) * l.ratio) \div 10
         IN RectsIn(l.first, [box EXCEPT !.right = at]) \o RectsIn(l.second, [box EXCEPT !.left = at])
    ELSE LET at == box.top + ((box.bottom - box.top) * l.ratio) \div 10
         IN RectsIn(l.first, [box EXCEPT !.bottom = at]) \o RectsIn(l.second, [box EXCEPT !.top = at])
PaneRects(l) == RectsIn(l, [left |-> 0, top |-> 0, right |-> Side, bottom |-> Side])

Distance(a, b) == IF a < b THEN b - a ELSE a - b
IntervalGap(a, b, c, d) == IF b < c THEN c - b ELSE IF d < a THEN a - d ELSE 0

(* directional_score: how far across, how far beside, how far off centre.  *)
IsTowards(t, c, side) ==
    CASE side = "Left" -> c.right <= t.left
      [] side = "Right" -> c.left >= t.right
      [] side = "Up" -> c.bottom <= t.top
      [] side = "Down" -> c.top >= t.bottom
Score(t, c, side) ==
    LET across == CASE side = "Left" -> t.left - c.right
                    [] side = "Right" -> c.left - t.right
                    [] side = "Up" -> t.top - c.bottom
                    [] side = "Down" -> c.top - t.bottom
        beside == IF DirectionOf(side) = "Horizontal"
                  THEN IntervalGap(t.top, t.bottom, c.top, c.bottom)
                  ELSE IntervalGap(t.left, t.right, c.left, c.right)
        centre == IF DirectionOf(side) = "Horizontal"
                  THEN Distance(t.top + t.bottom, c.top + c.bottom)
                  ELSE Distance(t.left + t.right, c.left + c.right)
    IN across * 100 + beside * 10 + centre

(* neighbor_pane_id: the first of the nearest, if there is one.            *)
Neighbor(l, p, side) ==
    LET rects == PaneRects(l)
        target == rects[CHOOSE i \in DOMAIN rects : rects[i].pane = p].box
        reached == {i \in DOMAIN rects : rects[i].pane # p /\ IsTowards(target, rects[i].box, side)}
        score(i) == Score(target, rects[i].box, side)
    IN IF reached = {} THEN NoPane
       ELSE rects[CHOOSE i \in reached : \A j \in reached \ {i} :
                    score(i) < score(j) \/ (score(i) = score(j) /\ i < j)].pane

-----------------------------------------------------------------------------
(* Workspaces, Tabs and Panes                                              *)

Single(p) == [panes |-> <<p>>, focused |-> p, history |-> <<>>, layout |-> PaneLeaf(p), zoomed |-> NoPane]
TerminalTab(t, p) == [id |-> t, kind |-> "Terminals", terminals |-> Single(p)]
ViewerTab(t, kind) == [id |-> t, kind |-> kind]
IsTerminal(tab) == tab.kind = "Terminals"
PanesOf(tab) == IF IsTerminal(tab) THEN ToSet(tab.terminals.panes) ELSE {}

WorkspaceIds == {session[i].id : i \in DOMAIN session}
Places == UNION {{<<i, j>> : j \in DOMAIN session[i].tabs} : i \in DOMAIN session}
TabAt(at) == session[at[1]].tabs[at[2]]
TerminalPlaces == {at \in Places : IsTerminal(TabAt(at))}
TabIds == {TabAt(at).id : at \in Places}
Panes == UNION {PanesOf(TabAt(at)) : at \in Places}

(* find_pane.                                                              *)
PlaceOfPane(p) == CHOOSE at \in TerminalPlaces : p \in PanesOf(TabAt(at))
TerminalsOf(p) == TabAt(PlaceOfPane(p)).terminals
PlaceOfTab(t) == CHOOSE at \in Places : TabAt(at).id = t
IndexOf(w) == CHOOSE i \in DOMAIN session : session[i].id = w

(* reserve_ids: the counter moves only when all of them are left.          *)
Reservable(count) == next_id + count <= MaxStableId + 1
Without(seq, x) == SelectSeq(seq, LAMBDA y : y # x)

Nothing == [panes |-> {}, tabs |-> {}, workspaces |-> {}]
Commanded ==
    /\ treeSpent.commands < treeSpent.setting.commands
    /\ treeSpent' = [treeSpent EXCEPT !.commands = @ + 1]
Allowed(command) == command \in treeSpent.setting.allowed /\ Commanded

(* Only the terminal layout of one Tab changes.                            *)
Relaid(p, terminals) ==
    LET at == PlaceOfPane(p) IN session' = [session EXCEPT ![at[1]].tabs[at[2]].terminals = terminals]
Looked(p) == recency' = Append(Without(recency, p), p)

(* Session::focus_pane.                                                    *)
Focused(terminals, p) ==
    IF terminals.focused = p THEN terminals
    ELSE [terminals EXCEPT !.focused = p,
              !.history = Append(Without(Without(@, p), terminals.focused), terminals.focused)]

-----------------------------------------------------------------------------
(* Creating                                                                *)

CreateWorkspace ==
    /\ Allowed("CreateWorkspace")
    /\ Len(session) < MaxWorkspaces /\ Cardinality(Places) < MaxTabs /\ Cardinality(Panes) < MaxPanes
    /\ Reservable(3)
    /\ session' = Append(session, [id |-> next_id, parent |-> 0, tabs |-> <<TerminalTab(next_id + 1, next_id + 2)>>])
    /\ Looked(next_id + 2)
    /\ next_id' = next_id + 3 /\ closed' = Nothing

CreateTab(i) ==
    /\ Allowed("CreateTab")
    /\ Cardinality(Places) < MaxTabs /\ Cardinality(Panes) < MaxPanes
    /\ Reservable(2)
    /\ session' = [session EXCEPT ![i].tabs = Append(@, TerminalTab(next_id, next_id + 1))]
    /\ Looked(next_id + 1)
    /\ next_id' = next_id + 2 /\ closed' = Nothing

(* show_viewer: the Workspace's Diff or Preview Tab, made the first time.  *)
ShowViewer(i, kind) ==
    /\ Allowed("ShowViewer")
    /\ \A j \in DOMAIN session[i].tabs : session[i].tabs[j].kind # kind
    /\ Cardinality(Places) < MaxTabs /\ Reservable(1)
    /\ session' = [session EXCEPT ![i].tabs = Append(@, ViewerTab(next_id, kind))]
    /\ next_id' = next_id + 1 /\ closed' = Nothing
    /\ UNCHANGED recency

(* split_pane and preserve_focus_from: the new Pane takes the focus unless *)
(* the command says it shall not.                                          *)
SplitPane(p, direction, focus) ==
    LET old == TerminalsOf(p)
        side == IF direction = "Horizontal" THEN "Right" ELSE "Down"
        split == [old EXCEPT !.panes = Append(@, next_id),
                             !.layout = SplitLayout(@, p, next_id, side)]
    IN /\ Allowed("SplitPane")
       /\ Cardinality(Panes) < MaxPanes
       /\ DepthIn(old.layout, p) < MaxDepth
       /\ Reservable(1)
       /\ next_id' = next_id + 1 /\ closed' = Nothing
       /\ IF focus
          THEN /\ Relaid(p, [split EXCEPT !.focused = next_id, !.zoomed = NoPane,
                                          !.history = Append(Without(@, old.focused), old.focused)])
               /\ Looked(next_id)
          ELSE Relaid(p, split) /\ UNCHANGED recency

-----------------------------------------------------------------------------
(* Focus, zoom, sizes and places                                           *)

FocusPane(p) ==
    /\ Allowed("FocusPane")
    /\ Relaid(p, Focused(TerminalsOf(p), p))
    /\ Looked(p)
    /\ closed' = Nothing /\ UNCHANGED next_id

FocusPaneDirection(p, side) ==
    LET neighbor == Neighbor(TerminalsOf(p).layout, p, side)
    IN /\ Allowed("FocusPaneDirection") /\ neighbor # NoPane
       /\ Relaid(p, Focused(TerminalsOf(p), neighbor))
       /\ Looked(neighbor)
       /\ closed' = Nothing /\ UNCHANGED next_id

TogglePaneZoom(p) ==
    LET focused == Focused(TerminalsOf(p), p)
    IN /\ Allowed("TogglePaneZoom")
       /\ Relaid(p, IF Len(focused.panes) = 1 THEN focused
                    ELSE [focused EXCEPT !.zoomed = IF @ = p THEN NoPane ELSE p])
       /\ Looked(p)
       /\ closed' = Nothing /\ UNCHANGED next_id

(* resize_pane: the trailing boundary moves when there is one, else the    *)
(* leading one.                                                            *)
Resized(l, p, side, amount) ==
    LET trailing == IF DirectionOf(side) = "Horizontal" THEN "Right" ELSE "Down"
        leading == IF DirectionOf(side) = "Horizontal" THEN "Left" ELSE "Up"
        after == Neighbor(l, p, trailing)
        before == Neighbor(l, p, leading)
        boundary == IF after # NoPane THEN trailing ELSE leading
        neighbor == IF after # NoPane THEN after ELSE before
    IN IF neighbor = NoPane THEN l
       ELSE IF side = boundary THEN ResizeBetween(l, p, neighbor, amount)
                               ELSE ResizeBetween(l, neighbor, p, amount)
ResizePane(p, side, amount) ==
    /\ Allowed("ResizePane")
    /\ Relaid(p, [TerminalsOf(p) EXCEPT !.layout = Resized(@, p, side, amount)])
    /\ closed' = Nothing /\ UNCHANGED <<next_id, recency>>

SetSplitRatios(at, ratios) ==
    /\ Allowed("SetSplitRatios") /\ IsTerminal(TabAt(at))
    /\ Len(ratios) = Len(TabAt(at).terminals.panes) - 1
    /\ session' = [session EXCEPT ![at[1]].tabs[at[2]].terminals.layout = WithRatios(@, ratios)]
    /\ closed' = Nothing /\ UNCHANGED <<next_id, recency>>

(* swap_pane and swap_panes: only the places change.                       *)
SwapPanes(p, q) ==
    /\ p # q /\ q \in ToSet(TerminalsOf(p).panes)
    /\ Allowed("SwapPanes")
    /\ Relaid(p, [TerminalsOf(p) EXCEPT !.layout = SwapIn(@, p, q)])
    /\ closed' = Nothing /\ UNCHANGED <<next_id, recency>>

(* Broken: the depth is looked at only when a Pane is split.               *)
MovePaneAnywhere(p, target, side) ==
    LET without == RemoveFrom(TerminalsOf(p).layout, p)
    IN /\ p # target /\ target \in ToSet(TerminalsOf(p).panes)
       /\ Allowed("MovePane")
       /\ Relaid(p, [TerminalsOf(p) EXCEPT !.layout = SplitLayout(without, target, p, side)])
       /\ closed' = Nothing /\ UNCHANGED <<next_id, recency>>

MovePane(p, target, side) ==
    LET without == RemoveFrom(TerminalsOf(p).layout, p)
    IN /\ p # target /\ target \in ToSet(TerminalsOf(p).panes)
       /\ Allowed("MovePane")
       /\ DepthIn(without, target) < MaxDepth
       /\ Relaid(p, [TerminalsOf(p) EXCEPT !.layout = SplitLayout(without, target, p, side)])
       /\ closed' = Nothing /\ UNCHANGED <<next_id, recency>>

MoveWorkspace(i, j) ==
    /\ Allowed("MoveWorkspace") /\ i # j
    /\ session' = InsertAt(RemoveAt(session, i), j, session[i])
    /\ closed' = Nothing /\ UNCHANGED <<next_id, recency>>

MoveTab(i, j, k) ==
    /\ Allowed("MoveTab") /\ j # k
    /\ session' = [session EXCEPT ![i].tabs = InsertAt(RemoveAt(@, j), k, @[j])]
    /\ closed' = Nothing /\ UNCHANGED <<next_id, recency>>

(* associate_worktree and clear_worktree_association.                      *)
AssociateWorktree(i, k) ==
    /\ Allowed("AssociateWorktree") /\ i # k
    /\ session' = [session EXCEPT ![i].parent = session[k].id]
    /\ closed' = Nothing /\ UNCHANGED <<next_id, recency>>
ClearWorktreeAssociation(i) ==
    /\ Allowed("AssociateWorktree") /\ session[i].parent # 0
    /\ session' = [session EXCEPT ![i].parent = 0]
    /\ closed' = Nothing /\ UNCHANGED <<next_id, recency>>

-----------------------------------------------------------------------------
(* Closing                                                                 *)

ClosesWorkspace(i) ==
    /\ session' = RemoveAt(session, i)
    /\ closed' = [panes |-> UNION {PanesOf(tab) : tab \in ToSet(session[i].tabs)},
                  tabs |-> {tab.id : tab \in ToSet(session[i].tabs)},
                  workspaces |-> {session[i].id}]

(* A Tab goes, and with the last one its Workspace.                        *)
ClosesTab(at) ==
    IF Len(session[at[1]].tabs) = 1 THEN ClosesWorkspace(at[1])
    ELSE /\ session' = [session EXCEPT ![at[1]].tabs = RemoveAt(@, at[2])]
         /\ closed' = [panes |-> PanesOf(TabAt(at)), tabs |-> {TabAt(at).id}, workspaces |-> {}]

(* What is left of a Tab when one of its Panes goes: the focus goes back   *)
(* to the Pane that had it last, or to the first one of the layout.        *)
WithoutPane(terminals, p) ==
    LET layout == RemoveFrom(terminals.layout, p)
        history == Without(terminals.history, p)
        left == [terminals EXCEPT !.layout = layout, !.panes = Without(@, p), !.history = history,
                                  !.zoomed = IF @ = p THEN NoPane ELSE @]
    IN IF terminals.focused # p THEN left
       ELSE IF history # <<>> /\ Last(history) \in ToSet(left.panes)
       THEN [left EXCEPT !.focused = Last(history), !.history = Front(history)]
       ELSE [left EXCEPT !.focused = Leaves(layout)[1]]

ClosePane(p) ==
    /\ Allowed("ClosePane")
    /\ IF Len(TerminalsOf(p).panes) > 1
       THEN /\ Relaid(p, WithoutPane(TerminalsOf(p), p))
            /\ closed' = [Nothing EXCEPT !.panes = {p}]
            /\ LET given == WithoutPane(TerminalsOf(p), p).focused
               IN recency' = IF TerminalsOf(p).focused = p THEN Append(Without(recency, given), given)
                                                           ELSE recency
       ELSE ClosesTab(PlaceOfPane(p)) /\ UNCHANGED recency
    /\ UNCHANGED next_id

CloseTab(at) ==
    /\ Allowed("CloseTab")
    /\ ClosesTab(at)
    /\ UNCHANGED <<next_id, recency>>

CloseWorkspace(i) ==
    /\ Allowed("CloseWorkspace")
    /\ ClosesWorkspace(i)
    /\ UNCHANGED <<next_id, recency>>

-----------------------------------------------------------------------------
(* The Snapshot                                                            *)

(* LayoutSnapshot::from_layout: the nodes in breadth-first order, a split  *)
(* naming its two by their index.                                          *)
RECURSIVE Flattened(_, _)
Flattened(pending, nodes) ==
    LET cursor == Len(nodes) + 1
    IN IF cursor > Len(pending) THEN nodes
       ELSE LET l == pending[cursor]
            IN IF IsPane(l) THEN Flattened(pending, Append(nodes, l))
               ELSE Flattened(pending \o <<l.first, l.second>>,
                              Append(nodes, [l EXCEPT !.first = Len(pending) + 1, !.second = Len(pending) + 2]))

RECURSIVE RestoreNode(_, _)
RestoreNode(nodes, i) ==
    IF IsPane(nodes[i]) THEN nodes[i]
    ELSE [nodes[i] EXCEPT !.first = RestoreNode(nodes, @), !.second = RestoreNode(nodes, @)]

(* Zoom is not in a Snapshot.                                              *)
SnapshotTab(tab) ==
    IF IsTerminal(tab)
    THEN [tab EXCEPT !.terminals.layout = Flattened(<<@>>, <<>>), !.terminals.zoomed = NoPane]
    ELSE tab
RestoredTab(tab) ==
    IF IsTerminal(tab) THEN [tab EXCEPT !.terminals.layout = RestoreNode(@, 1)] ELSE tab
MapTabs(s, f(_)) ==
    [i \in DOMAIN s |-> [s[i] EXCEPT !.tabs = [j \in DOMAIN s[i].tabs |-> f(s[i].tabs[j])]]]
Snapshot == MapTabs(session, SnapshotTab)
Restored(snapshot) == MapTabs(snapshot, RestoredTab)

(* Session::validate and validate_snapshot_resources.                      *)
ValidLayout(nodes, panes) ==
    LET layout == RestoreNode(nodes, 1)
    IN /\ Len(nodes) = 2 * Cardinality(panes) - 1
       /\ IsInjective(Leaves(layout)) /\ ToSet(Leaves(layout)) = panes
       /\ \A p \in panes : DepthIn(layout, p) <= MaxDepth
       /\ \A i \in DOMAIN nodes : ~IsPane(nodes[i]) => nodes[i].ratio \in 1..9
ValidTerminals(t) ==
    /\ t.panes # <<>> /\ t.focused \in ToSet(t.panes)
    /\ IsInjective(t.history) /\ ToSet(t.history) \subseteq ToSet(t.panes) \ {t.focused}
    /\ ValidLayout(t.layout, ToSet(t.panes))
AllTabs(s) == FlattenSeq([i \in DOMAIN s |-> s[i].tabs])
AllPanes(s) ==
    LET tabs == AllTabs(s)
    IN FlattenSeq([j \in DOMAIN tabs |-> IF IsTerminal(tabs[j]) THEN tabs[j].terminals.panes ELSE <<>>])
IdsOf(s) ==
    {s[i].id : i \in DOMAIN s} \cup {tab.id : tab \in ToSet(AllTabs(s))} \cup ToSet(AllPanes(s))
        \cup ({s[i].parent : i \in DOMAIN s} \ {0})
Valid(s) ==
    /\ Len(s) <= MaxWorkspaces /\ Len(AllTabs(s)) <= MaxTabs /\ Len(AllPanes(s)) <= MaxPanes
    /\ IsInjective([i \in DOMAIN s |-> s[i].id])
    /\ IsInjective([j \in DOMAIN AllTabs(s) |-> AllTabs(s)[j].id])
    /\ IsInjective(AllPanes(s))
    /\ IdsOf(s) \subseteq 1..MaxStableId
    /\ \A i \in DOMAIN s :
         /\ s[i].tabs # <<>> /\ s[i].parent # s[i].id
         /\ \A j, k \in DOMAIN s[i].tabs :
              s[i].tabs[j].kind = s[i].tabs[k].kind => j = k \/ IsTerminal(s[i].tabs[j])
         /\ \A tab \in ToSet(s[i].tabs) : IsTerminal(tab) => ValidTerminals(tab.terminals)

(* Broken: the parents that are closed do not count.                       *)
NextIdOfOpen(s) ==
    LET ids == IdsOf([i \in DOMAIN s |-> [s[i] EXCEPT !.parent = 0]])
    IN 1 + (CHOOSE n \in {0} \cup ids : \A m \in ids : m <= n)

(* A new process counts its ids from 1, and past all it restored.          *)
NextId(s) == 1 + (CHOOSE n \in {0} \cup IdsOf(s) : \A m \in IdsOf(s) : m <= n)

Restart ==
    /\ "Restart" \in treeSpent.setting.allowed
    /\ Commanded
    /\ Valid(Snapshot)
    /\ session' = Restored(Snapshot)
    /\ next_id' = NextId(Snapshot)
    /\ closed' = Nothing
    /\ recency' = SelectSeq(recency, LAMBDA p : p \in Panes)

-----------------------------------------------------------------------------

TreeInit(setting) ==
    /\ session = <<>> /\ next_id = 1 /\ closed = Nothing /\ recency = <<>>
    /\ treeSpent = [setting |-> setting, commands |-> 0]

TreeNext ==
    \/ CreateWorkspace
    \/ \E i \in DOMAIN session :
         \/ CreateTab(i)
         \/ \E kind \in {"Diff", "File"} : ShowViewer(i, kind)
         \/ \E k \in DOMAIN session : MoveWorkspace(i, k) \/ AssociateWorktree(i, k)
         \/ ClearWorktreeAssociation(i)
         \/ \E j, k \in DOMAIN session[i].tabs : MoveTab(i, j, k)
         \/ CloseWorkspace(i)
    \/ \E at \in Places :
         \/ \E ratios \in treeSpent.setting.ratios : SetSplitRatios(at, ratios)
         \/ CloseTab(at)
    \/ \E p \in Panes :
         \/ \E direction \in {"Horizontal", "Vertical"}, focus \in BOOLEAN : SplitPane(p, direction, focus)
         \/ FocusPane(p)
         \/ \E side \in Sides :
              \/ FocusPaneDirection(p, side)
              \/ \E amount \in treeSpent.setting.amounts : ResizePane(p, side, amount)
         \/ TogglePaneZoom(p)
         \/ \E q \in Panes : SwapPanes(p, q) \/ \E side \in Sides : MovePane(p, q, side)
         \/ ClosePane(p)
    \/ Restart

-----------------------------------------------------------------------------

TreeTypeOK ==
    /\ next_id \in 1..(MaxStableId + 1)
    /\ \A i \in DOMAIN session : {session[i].id} \cup {session[i].parent} \subseteq 0..MaxStableId
    /\ Panes \cup TabIds \cup WorkspaceIds \subseteq 1..(next_id - 1)

(* A Server that stops at any moment starts again with the Session its     *)
(* Clients left, but for zoom: the Snapshot of what the commands make of   *)
(* it passes every check of restore, and gives the same Workspaces, Tabs,  *)
(* layouts, focus and focus history.                                       *)
WithoutZoom(tab) == IF IsTerminal(tab) THEN [tab EXCEPT !.terminals.zoomed = NoPane] ELSE tab
SnapshotRestores == Valid(Snapshot) /\ Restored(Snapshot) = MapTabs(session, WithoutZoom)

(* A Tab remembers exactly the order in which its Panes had the focus:     *)
(* closing one after the other always goes back to the one used last.      *)
FocusIsRecency ==
    \A at \in TerminalPlaces :
        LET t == TabAt(at).terminals
        IN Append(t.history, t.focused) = SelectSeq(recency, LAMBDA p : p \in ToSet(t.panes))

(* What a command says it closed is all that it closed, and it is all gone *)
(* from the Session: the Server ends the terminals of these Panes only.    *)
ClosedExactly ==
    [][ /\ Panes' \cap closed'.panes = {} /\ Panes \ Panes' = closed'.panes
        /\ TabIds' \cap closed'.tabs = {} /\ TabIds \ TabIds' = closed'.tabs
        /\ WorkspaceIds \ WorkspaceIds' = closed'.workspaces ]_treeVars

(* An id given out is new: no Workspace, Tab or Pane has it, and no        *)
(* Worktree names it as its closed parent, also after a restart.           *)
NewIdsAreUnused ==
    [][IdsOf(session) \cap UNION {WorkspaceIds' \ WorkspaceIds, TabIds' \ TabIds, Panes' \ Panes} = {}]_treeVars

(* Every split of a layout with its axis and ratio.                        *)
RECURSIVE Dividers(_, _)
Dividers(l, path) ==
    IF IsPane(l) THEN {}
    ELSE {[path |-> path, direction |-> l.direction, ratio |-> l.ratio]}
           \cup Dividers(l.first, Append(path, 1)) \cup Dividers(l.second, Append(path, 2))

(* "the same key moves the same divider the same way from either side of   *)
(* it" (session/pane.rs:165): the key moves at most one divider, of its    *)
(* axis, its way; and the Pane before a divider and the last Pane behind   *)
(* it move the same one.                                                   *)
DividerFollowsKey ==
    \A at \in TerminalPlaces : \A p \in PanesOf(TabAt(at)), side \in Sides :
        LET l == TabAt(at).terminals.layout
            moved(q) == Dividers(Resized(l, q, side, 1), <<>>) \ Dividers(l, <<>>)
            trailing == IF DirectionOf(side) = "Horizontal" THEN "Right" ELSE "Down"
            next == Neighbor(l, p, trailing)
        IN /\ Cardinality(moved(p)) <= 1
           /\ \A d \in moved(p), e \in Dividers(l, <<>>) :
                e.path = d.path => /\ e.direction = DirectionOf(side)
                                   /\ (e.ratio < d.ratio) = (side \notin Leading)
           /\ next # NoPane /\ Neighbor(l, next, trailing) = NoPane => moved(next) = moved(p)

(* The three of them, and the two about steps, whatever commands follow    *)
(* one another.                                                            *)
TreeIsSound == TreeTypeOK /\ SnapshotRestores /\ FocusIsRecency /\ DividerFollowsKey
StepsAreExact == ClosedExactly /\ NewIdsAreUnused
=============================================================================
