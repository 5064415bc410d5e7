------------------------------ MODULE MCPanes ------------------------------
(* What the Server keeps for its Panes: the input queue of a terminal, the  *)
(* Session's tree, the agent of a Pane, and what Clients ask of terminals and *)
(* of the Server.  They share no state, and each initial state gives one of  *)
(* them something to do.                                                    *)
EXTENDS InputQueue, SessionTree, AgentControl, ClientRequests

CONSTANTS t1, t2,          \* threads that write to a terminal
          a1, a2,          \* connections that ask about an agent
          claude, codex,
          s1, s2,          \* connections of Clients
          p1, p2           \* Panes

(* The input queue                                                         *)
NoInputs == [writes |-> 0, replies |-> 0, kinds |-> {}, sizes |-> {1}, stops |-> FALSE, breaks |-> FALSE]
Inputs ==
    {[NoInputs EXCEPT !.writes = 3, !.replies = 1, !.kinds = {"keys", "control"}],
     [NoInputs EXCEPT !.writes = 3, !.kinds = {"keys", "submission"}, !.sizes = {1, 2}],
     [NoInputs EXCEPT !.writes = 1, !.replies = 3, !.kinds = {"submission"}, !.stops = TRUE],
     [NoInputs EXCEPT !.writes = 1, !.replies = 3, !.kinds = {"submission", "control"}, !.breaks = TRUE]}

(* The Session's tree                                                      *)
NoCommands == [allowed |-> {}, commands |-> 0, amounts |-> {}, ratios |-> {}]
Doing(n, which) == [NoCommands EXCEPT !.commands = n, !.allowed = which]
Trees ==
    {Doing(5, {"CreateWorkspace", "CreateTab", "SplitPane", "FocusPane", "TogglePaneZoom",
                   "ClosePane", "Restart"}),
     [Doing(5, {"CreateWorkspace", "SplitPane", "ResizePane", "SwapPanes", "MovePane",
                    "SetSplitRatios"}) EXCEPT !.amounts = {4}, !.ratios = {<<1, 5>>}],
     Doing(6, {"CreateWorkspace", "CreateTab", "ShowViewer", "MoveWorkspace", "MoveTab",
                   "AssociateWorktree", "CloseTab", "CloseWorkspace", "Restart"}),
     Doing(5, {"CreateWorkspace", "SplitPane", "FocusPaneDirection", "MovePane", "ClosePane"})}

(* Agents                                                                  *)
Hook(k, event, c, turn) ==
    [type |-> "hook", agent |-> k, event |-> event, compact |-> FALSE, conversation |-> c,
     turn |-> turn, detail |-> NoDetail]
Status(app, state) ==
    [type |-> "status", app |-> app, state |-> state, child |-> FALSE, detail |-> NoDetail]
Starts == Hook(claude, "session_start", "c1", NoTurn)
Works  == Hook(claude, "prompt_submit", "c1", NoTurn)
Stops  == Hook(claude, "stop", "c1", NoTurn)

Some(ran, asked, reported) ==
    [NothingHappens EXCEPT !.runs = ran, !.asks = asked, !.reports = reported]
Lone == [Alone EXCEPT !.present = TRUE, !.agents = {<<claude, FALSE>>}]
Asked(by, what) == [Lone EXCEPT !.askers = by, !.asks = what, !.until = {{"idle", "done"}}]
FromBefore == [Lone EXCEPT !.restored = Reference(claude, "c0")]

Prompted == [Asked({a1}, {"prompt", "wait"}) EXCEPT !.notices = {Works, Stops},
                !.budget = [Some(1, 1, 3) EXCEPT !.looks = 1]]
Launched == [Asked({a1, a2}, {"start", "wait"}) EXCEPT !.notices = {Starts},
                !.budget = [Some(1, 2, 1) EXCEPT !.refused = 1]]
Typing   == [FromBefore EXCEPT !.clone = TRUE,
                !.budget = [Some(0, 0, 0) EXCEPT !.ends = 1, !.refused = 1, !.removals = 1]]
Resumed  == [FromBefore EXCEPT !.clone = TRUE, !.budget = [Some(1, 0, 0) EXCEPT !.removals = 1]]
Stopped  == [FromBefore EXCEPT !.notices = {Starts, Hook(claude, "prompt_submit", NoConversation, NoTurn)},
                !.budget = [Some(1, 0, 2) EXCEPT !.stops = 1]]
Turning  == [Lone EXCEPT !.agents = {<<codex, FALSE>>},
                !.notices = {Hook(codex, "prompt_submit", "c1", 1), Hook(codex, "stop", "c1", 1),
                             Hook(codex, "session_start", "c2", NoTurn)},
                !.budget = [Some(1, 0, 2) EXCEPT !.stops = 1]]
Hidden   == [Lone EXCEPT !.agents = {<<claude, FALSE>>, <<claude, TRUE>>},
                !.notices = {Stops, Status(NoKind, "blocked"), Status(claude, "working"),
                             [type |-> "prompt"], [type |-> "reset"]},
                !.budget = [Some(1, 0, 2) EXCEPT !.blind = 1, !.panics = 1]]
Closing  == [Asked({a1}, {"wait"}) EXCEPT !.notices = {Stops},
                !.budget = [Some(1, 1, 0) EXCEPT !.ends = 1, !.closes = 1, !.removals = 1,
                                                !.stops = 1, !.leaves = 1]]
TooLate  == [Asked({a1}, {"start"}) EXCEPT !.agents = {}, !.budget = [Some(0, 1, 0) EXCEPT !.stops = 1]]
Agents == {Prompted, Launched, TooLate, Typing, Resumed, Stopped, Turning, Hidden, Closing}

\* An agent is there, and its shell ends.
Ending == {[Lone EXCEPT !.budget = [Some(1, 0, 0) EXCEPT !.ends = 1]]}

(* Requests of Clients                                                     *)
NoRequests == [a \in SeatActs |-> 0]
OneEach(acts) == [a \in SeatActs |-> IF a \in acts THEN 1 ELSE 0]
Requests ==
    {[OneEach({"leaves", "ends", "rings", "opens"}) EXCEPT !["focuses"] = 3],
     [OneEach({"leaves", "removes", "rings"}) EXCEPT !["presses"] = 2, !["focuses"] = 2],
     OneEach({"resizes", "opens", "colors", "closes", "leaves", "focuses"}),
     [OneEach({"removes", "leaves", "faults", "stops"}) EXCEPT !["pastes"] = 2],
     [OneEach({"crashes", "starts", "leaves"}) EXCEPT !["pastes"] = 3, !["days"] = 2],
     [OneEach({"faults", "crashes", "starts"}) EXCEPT !["sets"] = 3],
     OneEach({"asks", "reads", "restarts", "stops", "leaves"}),
     OneEach({"asks", "stops", "leaves", "ends", "pastes"}),
     OneEach({"restarts", "stops", "sets", "removes", "opens"})}

CONSTANT Cases
NoCase == [input |-> NoInputs, tree |-> NoCommands, agent |-> Alone, requests |-> NoRequests]
Everything ==
    {[NoCase EXCEPT !.input = i] : i \in Inputs} \cup {[NoCase EXCEPT !.tree = t] : t \in Trees}
    \cup {[NoCase EXCEPT !.agent = a] : a \in Agents}
    \cup {[NoCase EXCEPT !.requests = r] : r \in Requests}
TheEnd == {[NoCase EXCEPT !.agent = a] : a \in Ending}

Init ==
    \E c \in Cases :
        InputInit(c.input) /\ TreeInit(c.tree) /\ AgentInit(c.agent) /\ RequestsInit(c.requests, {p1})
Next ==
    \/ InputNext /\ UNCHANGED <<treeVars, agentVars, seatVars>>
    \/ TreeNext /\ UNCHANGED <<inputVars, agentVars, seatVars>>
    \/ AgentNext /\ UNCHANGED <<inputVars, treeVars, seatVars>>
    \/ RequestsNext /\ UNCHANGED <<inputVars, treeVars, agentVars>>

Spec == Init /\ [][Next]_<<inputVars, treeVars, agentVars, seatVars>>
FairSpec == Spec /\ InputFairness /\ AgentFairness

(* Input that was accepted is written, a wait that is due is answered, and   *)
(* an agent that ended is forgotten.                                        *)
PanesSettle == InputDrains /\ AnswersComeDue /\ ForgetsTheDead
=============================================================================
