----------------------------- MODULE StreamLink -----------------------------
(***************************************************************************)
(* A GUI's Stream connection to one Device (condr-client/src/forward.rs):  *)
(* forwards and transfers, each on a thread of its own, retain and release *)
(* it; the terminal connection comes and goes; and a worker waits for the  *)
(* connection to end and dials again while it is needed.  All of them      *)
(* share one LinkState under its lock, and dial outside it.                *)
(***************************************************************************)
EXTENDS Integers, FiniteSets

CONSTANTS
    Callers,        \* the threads that need the connection
    NoConnection

VARIABLES
    link,           \* LinkState
    connections,    \* the connections dialled so far: open or not
    caller,         \* where each thread is in retain
    keeper,         \* where the worker is in keep
    linkSpent       \* what has happened of what the setting allows

linkVars == <<link, connections, caller, keeper, linkSpent>>

IsOpen(c) == c # NoConnection /\ connections[c]
CloseConnection(c) == IF c = NoConnection THEN connections ELSE [connections EXCEPT ![c] = FALSE]
Dialled == DOMAIN connections
New == Cardinality(Dialled) + 1
WithNew == [c \in Dialled \cup {New} |-> IF c = New THEN TRUE ELSE connections[c]]

(* Condvar::notify_all, as the worker's wait sees it.                      *)
Notified == [keeper EXCEPT !.woken = TRUE]

-----------------------------------------------------------------------------
(* retain and release                                                      *)

Out == [stage |-> "out"]
Holding == [stage |-> "holding"]
Dialing == [stage |-> "dialing"]
Waiting(dials) == [stage |-> "waiting", dials |-> dials]

(* retain from its start, or after a dial of another one ended.            *)
Enter(t) ==
    \/ /\ link.dialing
       /\ caller' = [caller EXCEPT ![t] = Waiting(link.dials)]
       /\ UNCHANGED <<link, connections, keeper>>
    \/ /\ ~link.dialing /\ link.users > 0 /\ link.connection # NoConnection
       /\ link' = [link EXCEPT !.users = @ + 1]
       /\ caller' = [caller EXCEPT ![t] = Holding]
       /\ UNCHANGED <<connections, keeper>>
    \/ /\ ~link.dialing /\ link.users > 0 /\ link.connection = NoConnection
       /\ link' = [link EXCEPT !.users = @ + 1, !.status = "reconnecting", !.nudge = @ + 1]
       /\ keeper' = Notified
       /\ caller' = [caller EXCEPT ![t] = Holding]
       /\ UNCHANGED connections
    \/ /\ ~link.dialing /\ link.users = 0
       /\ link' = [link EXCEPT !.dialing = TRUE]
       /\ caller' = [caller EXCEPT ![t] = Dialing]
       /\ UNCHANGED <<connections, keeper>>

Retain(t) ==
    /\ caller[t] = Out /\ linkSpent.retains < linkSpent.setting.retains
    /\ linkSpent' = [linkSpent EXCEPT !.retains = @ + 1]
    /\ Enter(t)

(* The dial that t waited for ended; its error is shared.                  *)
SharesError == link.users = 0 /\ link.dial_error

WaitEnds(t) ==
    /\ caller[t].stage = "waiting" /\ link.dials # caller[t].dials
    /\ IF SharesError THEN /\ caller' = [caller EXCEPT ![t] = Out]
                           /\ UNCHANGED <<link, connections, keeper>>
       ELSE Enter(t)
    /\ UNCHANGED linkSpent

(* The outcomes of a dial: a connection, a failure or a refusal.           *)
Outcomes == {"connected"} \cup (IF linkSpent.failures < linkSpent.setting.failures
                                THEN {"reconnecting", "refused"} ELSE {})
Counted(outcome) == [linkSpent EXCEPT !.failures = IF outcome = "connected" THEN @ ELSE @ + 1]

(* The first retain's own dial ends; a failure leaves nothing held.        *)
RetainDialed(t) ==
    /\ caller[t] = Dialing
    /\ \E outcome \in Outcomes :
         LET ended == [link EXCEPT !.dialing = FALSE, !.dials = @ + 1,
                                   !.dial_error = outcome # "connected"]
         IN  /\ linkSpent' = Counted(outcome)
             /\ IF outcome = "connected"
                THEN /\ link' = [ended EXCEPT !.users = @ + 1, !.connection = New,
                                              !.status = "connected"]
                     /\ connections' = WithNew
                     /\ caller' = [caller EXCEPT ![t] = Holding]
                     /\ keeper' = IF keeper.at = "none"
                                  THEN [keeper EXCEPT !.at = "top", !.immediate = FALSE]
                                  ELSE Notified
                ELSE /\ link' = ended /\ keeper' = Notified
                     /\ caller' = [caller EXCEPT ![t] = Out]
                     /\ UNCHANGED connections

(* A forward or transfer ends; the last one closes the connection.         *)
Release(t) ==
    /\ caller[t] = Holding
    /\ caller' = [caller EXCEPT ![t] = Out]
    /\ IF link.users = 1
       THEN /\ link' = [link EXCEPT !.users = 0, !.connection = NoConnection, !.status = "idle"]
            /\ connections' = CloseConnection(link.connection)
            /\ keeper' = Notified
       ELSE /\ link' = [link EXCEPT !.users = @ - 1]
            /\ UNCHANGED <<connections, keeper>>
    /\ UNCHANGED linkSpent

(* The terminal connection is lost, or came back with its Bootstrap.       *)
SetTerminalConnected ==
    /\ linkSpent.flips < linkSpent.setting.flips
    /\ linkSpent' = [linkSpent EXCEPT !.flips = @ + 1]
    /\ IF link.terminal_up
       THEN /\ link' = [link EXCEPT !.terminal_up = FALSE, !.connection = NoConnection,
                                    !.status = "idle"]
            /\ connections' = CloseConnection(link.connection)
       ELSE /\ link' = [link EXCEPT !.terminal_up = TRUE, !.nudge = @ + 1]
            /\ UNCHANGED connections
    /\ keeper' = Notified
    /\ UNCHANGED caller

(* The network ends a connection.                                          *)
Lose(c) ==
    /\ IsOpen(c) /\ linkSpent.losses < linkSpent.setting.losses
    /\ linkSpent' = [linkSpent EXCEPT !.losses = @ + 1]
    /\ connections' = CloseConnection(c)
    /\ UNCHANGED <<link, caller, keeper>>

-----------------------------------------------------------------------------
(* The worker                                                              *)

(* The top of its loop: there is a connection to wait for, or one to dial, *)
(* or nothing to do until it is woken.                                     *)
Top(seen) ==
    \/ /\ seen.users = 0
       /\ keeper' = [keeper EXCEPT !.at = "none"]
    \/ /\ seen.users > 0 /\ seen.connection # NoConnection
       /\ keeper' = [keeper EXCEPT !.at = "watching", !.connection = seen.connection]
    \/ /\ seen.users > 0 /\ seen.connection = NoConnection
       /\ seen.terminal_up /\ seen.status # "refused"
       /\ keeper' = [keeper EXCEPT !.at = "dialing", !.immediate = FALSE]
       /\ keeper.immediate
    \/ /\ seen.users > 0 /\ seen.connection = NoConnection
       /\ seen.terminal_up /\ seen.status # "refused"
       /\ keeper' = [keeper EXCEPT !.at = "backoff", !.nudge = seen.nudge]
       /\ ~keeper.immediate
    \/ /\ seen.users > 0 /\ seen.connection = NoConnection
       /\ ~seen.terminal_up \/ seen.status = "refused"
       /\ keeper' = [keeper EXCEPT !.at = "idle", !.nudge = seen.nudge, !.woken = FALSE]

AtTop ==
    /\ keeper.at = "top" /\ Top(link)
    /\ UNCHANGED <<link, connections, caller, linkSpent>>

(* It is woken; a nudge ends a refusal, and the next dial waits for        *)
(* nothing.                                                                *)
Woken ==
    /\ keeper.at = "idle" /\ keeper.woken
    /\ LET nudged == link.nudge # keeper.nudge IN
       /\ link' = IF nudged /\ link.status = "refused" /\ link.users > 0
                  THEN [link EXCEPT !.status = "reconnecting"] ELSE link
       /\ keeper' = [keeper EXCEPT !.at = "top", !.immediate = @ \/ nudged]
    /\ UNCHANGED <<connections, caller, linkSpent>>

(* The connection it waited for has ended.                                 *)
Ended(seen) ==
    IF seen.users > 0 /\ seen.terminal_up THEN [seen EXCEPT !.status = "reconnecting"] ELSE seen

Watched ==
    /\ keeper.at = "watching" /\ ~IsOpen(keeper.connection)
    /\ link' = Ended([link EXCEPT !.connection = IF @ = keeper.connection THEN NoConnection ELSE @])
    /\ keeper' = [keeper EXCEPT !.at = "top", !.immediate = FALSE]
    /\ UNCHANGED <<connections, caller, linkSpent>>

(* The backoff is over, at its end or because it need not go on.           *)
BackedOff ==
    /\ keeper.at = "backoff"
    /\ keeper' = [keeper EXCEPT !.at = IF link.users = 0 \/ ~link.terminal_up THEN "top"
                                       ELSE "dialing"]
    /\ UNCHANGED <<link, connections, caller, linkSpent>>

(* A retain may have dialled meanwhile: the one in place is kept.          *)
Unwanted == link.users = 0 \/ ~link.terminal_up \/ link.connection # NoConnection

KeeperDialed ==
    /\ keeper.at = "dialing"
    /\ keeper' = [keeper EXCEPT !.at = "top"]
    /\ \E outcome \in Outcomes :
         /\ linkSpent' = Counted(outcome)
         /\ CASE outcome = "connected" /\ Unwanted -> UNCHANGED <<link, connections>>
              [] outcome = "connected" /\ ~Unwanted ->
                   /\ link' = [link EXCEPT !.connection = New, !.status = "connected"]
                   /\ connections' = WithNew
              [] OTHER -> /\ link' = [link EXCEPT !.status = outcome]
                          /\ UNCHANGED connections
    /\ UNCHANGED caller

-----------------------------------------------------------------------------
LinkInit(setting) ==
    /\ link = [users |-> 0, terminal_up |-> TRUE, connection |-> NoConnection, status |-> "idle",
               dialing |-> FALSE, dials |-> 0, dial_error |-> FALSE, nudge |-> 0]
    /\ connections = << >>
    /\ caller = [t \in Callers |-> Out]
    /\ keeper = [at |-> "none", connection |-> NoConnection, nudge |-> 0, immediate |-> FALSE,
                 woken |-> FALSE]
    /\ linkSpent = [setting |-> setting, retains |-> 0, failures |-> 0, flips |-> 0, losses |-> 0]

Keeps == AtTop \/ Woken \/ Watched \/ BackedOff \/ KeeperDialed

LinkNext ==
    \/ \E t \in Callers : Retain(t) \/ WaitEnds(t) \/ RetainDialed(t) \/ Release(t)
    \/ SetTerminalConnected
    \/ \E c \in Dialled : Lose(c)
    \/ Keeps

(* Threads run and dials end; nobody has to need the connection, and       *)
(* nothing has to be lost.                                                 *)
LinkFairness ==
    /\ \A t \in Callers : WF_linkVars(WaitEnds(t)) /\ WF_linkVars(RetainDialed(t))
    /\ WF_linkVars(Keeps)

-----------------------------------------------------------------------------
(* Properties                                                              *)

Places == {"none", "top", "idle", "watching", "backoff", "dialing"}
Statuses == {"idle", "connected", "reconnecting", "refused"}

LinkTypeOK ==
    /\ link.users = Cardinality({t \in Callers : caller[t] = Holding})
    /\ link.connection \in Dialled \cup {NoConnection} /\ link.status \in Statuses
    /\ link.dialing = (\E t \in Callers : caller[t] = Dialing)
    /\ keeper.at \in Places /\ keeper.connection \in Dialled \cup {NoConnection}
    /\ \A c \in Dialled : connections[c] \in BOOLEAN

(* Every open connection is the link's, and somebody holds it: threads     *)
(* that dial at the same time leave none behind that nobody will close     *)
(* ("keep the one in place").                                              *)
NoStrayConnection ==
    \A c \in Dialled : IsOpen(c) => link.connection = c /\ link.users > 0

(* In the end a link that is needed, and not refused, is connected while   *)
(* the terminal connection is up ("reopened by itself after a loss"), and  *)
(* no thread waits in retain.                                              *)
Needed == link.users > 0 /\ link.terminal_up /\ link.status # "refused"

LinkComesBack ==
    <>[](/\ Needed => IsOpen(link.connection)
         /\ \A t \in Callers : caller[t] \in {Out, Holding})

(* A link is kept: it comes back, and leaves no connection behind.          *)
LinkIsKept == [](LinkTypeOK /\ NoStrayConnection) /\ LinkComesBack
=============================================================================
