-------------------------- MODULE DeviceConnection --------------------------
(* A Device in the GUI: the life of its connection (server_management.rs),  *)
(* dialled on threads whose results come back in a channel, lost, probed    *)
(* after a sleep, tried again until a deadline, ended by hand, moved to     *)
(* another address or removed; and what follows it, the Device's forwarded   *)
(* ports (ports.rs) and its queue of transfers (transfers.rs).              *)
(*                                                                          *)
(* A place is an address.  A Server's runtime is its place and how often it  *)
(* was started there.  How a StreamLink dials and what a transfer sends are  *)
(* StreamLink's and Transfers': here a link is held, open or not.            *)
EXTENDS Integers, Sequences, SequencesExt, FiniteSets

CONSTANTS
    Addresses,
    Ports,
    NoWire, NoRuntime, NoForm,
    RunningPerDevice

ASSUME DeviceAssumption == RunningPerDevice \in Nat \ {0}

VARIABLES
    device,       \* at each place: how often it was started, and its state
    gui,          \* the GUI's side of the Device
    deviceLeft    \* bounds: how often each of these may still happen

deviceVars == <<device, gui, deviceLeft>>

DeviceActs == {"connects", "disconnects", "edits", "removes", "restarts", "stops", "crashes",
               "breaks", "sleeps", "wakes", "deadlines", "refusals", "threads", "unreadables",
               "lags", "forwards", "ends", "downloads", "uploads", "cancels", "fails", "dials"}
SpendDevice(what) ==
    deviceLeft[what] > 0 /\ deviceLeft' = [deviceLeft EXCEPT ![what] = @ - 1]
DeviceSpendsNothing == UNCHANGED deviceLeft

Runtime(p) == <<p, device[p].starts>>
Reachable(p) == device[p].state # "down"

(* A connection as the GUI has it: what the Server sent and what it has not *)
(* read yet.                                                                *)
Wire(number, p) ==
    [number |-> number, place |-> p, runtime |-> Runtime(p), inbox |-> <<>>, out |-> <<>>,
     deaf |-> FALSE]
Delivered(w, message) ==
    IF w = NoWire \/ w.deaf THEN w ELSE [w EXCEPT !.inbox = Append(@, message)]
Says(w, message) == [w EXCEPT !.out = Append(@, message)]

-----------------------------------------------------------------------------
(* The Device's Stream link, forwards and transfers; c stands for gui.      *)

NewLink(p) == [place |-> p, up |-> TRUE, users |-> 0, open |-> FALSE]

(* DeviceForwards::link, made on first use.                                 *)
WithLink(c) ==
    IF c.link # 0 THEN c
    ELSE [c EXCEPT !.links = Append(@, NewLink(c.place)), !.link = Len(c.links) + 1]

Released(c, l) ==
    [c EXCEPT !.links[l] = [@ EXCEPT !.users = @ - 1, !.open = (@ /\ c.links[l].users > 1)]]
ReleasedAll(c, entries) == FoldSet(LAMBDA e, s : Released(s, e.link), c, entries)

(* StreamLink::set_terminal_connected                                       *)
TerminalConnected(c, up) ==
    IF c.link = 0 THEN c
    ELSE [c EXCEPT !.links[c.link] = [@ EXCEPT !.up = up, !.open = (@ /\ up)]]

(* DeviceForwards::end                                                      *)
ForwardsEnded(c) ==
    [TerminalConnected(ReleasedAll(c, c.entries), FALSE) EXCEPT !.entries = {}, !.link = 0]

With(c, state) == {i \in DOMAIN c.transfers : c.transfers[i].state = state}
Oldest(s, n) == {i \in s : Cardinality({j \in s : j <= i}) <= n}

(* start_transfers: what waits fails where the Device is gone.              *)
StartTransfers(c) ==
    LET queued == With(c, "queued")
        free   == RunningPerDevice - Cardinality(With(c, "running"))
        starts == IF free > 0 THEN Oldest(queued, free) ELSE {}
        linked == WithLink(c)
    IN  IF c.status # "connected"
        THEN [c EXCEPT !.transfers = [i \in DOMAIN @ |->
                 IF i \in queued THEN [@[i] EXCEPT !.state = "failed"] ELSE @[i]]]
        ELSE [linked EXCEPT !.transfers = [i \in DOMAIN @ |->
                 IF i \in starts
                 THEN [@[i] EXCEPT !.state = "running", !.task = "retains", !.link = linked.link]
                 ELSE @[i]]]

(* queue_transfer: a Device that is not connected refuses it.               *)
QueueTransferTo(c, upload, replace) ==
    IF c.status # "connected" THEN c
    ELSE StartTransfers(
           [c EXCEPT !.transfers = Append(@, [state |-> "queued", upload |-> upload,
                         replace |-> replace, cancelled |-> FALSE, task |-> "none", link |-> 0])])

-----------------------------------------------------------------------------
(* The connection                                                           *)

(* The next connect_generation: only those still around can be mistaken for *)
(* it, and the least of the others stands for it.                           *)
InUse(c) ==
    {c.generation, c.token} \cup {d.number : d \in c.dials} \cup {w.number : w \in ToSet(c.results)}
    \cup ToSet(c.pinged)
NextGeneration(c) == CHOOSE n \in 1 .. Cardinality(InUse(c)) + 1 :
    n \notin InUse(c) /\ \A k \in 1 .. n - 1 : k \in InUse(c)

ResetSyncState(c) == [c EXCEPT !.wake_probe = 0]

(* Cancellation::cancel: the dial that has this token fails, a connection   *)
(* is shut.                                                                 *)
Cancelled(c) ==
    [c EXCEPT !.dials = {IF d.number = c.token THEN [d EXCEPT !.cancelled = TRUE] ELSE d : d \in @},
              !.io = NoWire]

(* start_connect.  The io dropped here has been told to detach.             *)
StartConnect(c) ==
    IF c.status = "connecting" THEN c
    ELSE LET ended == TerminalConnected(Cancelled(c), FALSE)
             number == NextGeneration(c)
         IN  ResetSyncState([ended EXCEPT
                !.generation = number, !.status = "connecting", !.token = number,
                !.dials = @ \cup {[number |-> number, place |-> c.place, cancelled |-> FALSE]}])

(* disconnect_server                                                        *)
DisconnectedByHand(c) ==
    ResetSyncState([ForwardsEnded(Cancelled(c)) EXCEPT
        !.generation = NextGeneration(c), !.status = "disconnected", !.deadline = "none",
        !.late = (@ \/ c.form # NoForm)])

(* mark_disconnected                                                        *)
MarkDisconnected(c) ==
    ResetSyncState([TerminalConnected(Cancelled(c), FALSE) EXCEPT
        !.generation = NextGeneration(c), !.status = "disconnected"])

(* schedule_reconnect                                                       *)
ScheduleReconnect(c) ==
    CASE c.deadline = "none"   -> c
      [] c.deadline = "passed" -> [c EXCEPT !.deadline = "none"]
      [] c.deadline = "stands" -> [c EXCEPT !.retries = @ + 1]

(* begin_reconnect                                                          *)
BeginReconnect(c) ==
    ScheduleReconnect([c EXCEPT !.deadline = IF @ = "none" THEN "stands" ELSE @])

Lost(c) == BeginReconnect(MarkDisconnected(c))

-----------------------------------------------------------------------------
(* The dial threads and their results                                       *)

GuiOnly == UNCHANGED device

(* connect_to_server: the handshake and the Bootstrap came, or an error.    *)
DialEnds(d) ==
    /\ d \in gui.dials
    /\ \/ /\ ~d.cancelled /\ Reachable(d.place)
          /\ gui' = [gui EXCEPT !.dials = @ \ {d}, !.results = Append(@, Wire(d.number, d.place))]
          /\ DeviceSpendsNothing
       \/ /\ IF d.cancelled \/ ~Reachable(d.place) THEN DeviceSpendsNothing ELSE SpendDevice("dials")
          /\ gui' = [gui EXCEPT !.dials = @ \ {d},
                        !.results = Append(@, [Wire(d.number, d.place) EXCEPT !.runtime = NoRuntime])]
    /\ GuiOnly

(* install_connection, for a result that brought a Bootstrap: a Server that *)
(* said it stops is refused.                                                *)
Unavailable(c, w) == w.runtime = NoRuntime \/ w.runtime = c.stopping
Installed(c, w) ==
    [ResetSyncState(TerminalConnected(c, TRUE)) EXCEPT
        !.status = "connected", !.runtime = w.runtime, !.token = w.number, !.io = w,
        !.deadline = "none"]

(* The two ways in which a Bootstrap is not taken over: it is not a         *)
(* Session, and then no retry follows; or no thread starts for it, after    *)
(* the model and the link have seen it.                                     *)
InvalidSession(c) == ScheduleReconnect([c EXCEPT !.status = "disconnected", !.deadline = "none"])
NoThread(c, w) ==
    ScheduleReconnect([TerminalConnected(c, TRUE) EXCEPT
        !.status = "disconnected", !.runtime = w.runtime, !.token = w.number, !.threadless = TRUE])

(* Broken: any result is taken while one is waited for.                     *)
AwaitedAny(c, w) == c.listed /\ c.status = "connecting"

(* A result is of the connection that waits for it; its address becomes the *)
(* Device's.                                                                *)
Awaited(c, w) == c.listed /\ c.status = "connecting" /\ c.generation = w.number

HandleConnectionResult ==
    /\ gui.results # <<>>
    /\ LET w == Head(gui.results)
           taken == [gui EXCEPT !.results = Tail(@)]
           c == [taken EXCEPT !.place = w.place]
       IN  \/ /\ ~Awaited(gui, w)
              /\ gui' = taken /\ DeviceSpendsNothing
           \/ /\ Awaited(gui, w) /\ Unavailable(gui, w)
              /\ gui' = ScheduleReconnect([c EXCEPT !.status = "disconnected"])
              /\ DeviceSpendsNothing
           \/ /\ Awaited(gui, w) /\ ~Unavailable(gui, w)
              /\ \/ gui' = Installed(c, w) /\ DeviceSpendsNothing
                 \/ gui' = InvalidSession(c) /\ SpendDevice("refusals")
                 \/ gui' = NoThread(c, w) /\ SpendDevice("threads")
    /\ GuiOnly

(* The timer of schedule_reconnect fires.                                   *)
Retry ==
    /\ gui.retries > 0
    /\ LET c == [gui EXCEPT !.retries = @ - 1]
       IN  gui' = IF c.listed /\ c.deadline # "none" /\ c.status = "disconnected"
                  THEN StartConnect(c) ELSE c
    /\ GuiOnly /\ DeviceSpendsNothing

(* Time: the deadline is behind.                                            *)
DeadlinePasses ==
    /\ gui.deadline = "stands" /\ SpendDevice("deadlines")
    /\ gui' = [gui EXCEPT !.deadline = "passed"]
    /\ GuiOnly

-----------------------------------------------------------------------------
(* What the Server sends                                                    *)

(* handle_incoming, for what concerns the connection.  Nothing of a         *)
(* connection is left to be read once it is dropped.                        *)
Handled(c, message) ==
    CASE message = "stopping" -> Lost([c EXCEPT !.stopping = c.runtime])
      [] message = "lost"     -> Lost(c)
      [] message = "error"    -> [c EXCEPT !.deadline = "none"]
      [] message = "pong"     -> [c EXCEPT !.wake_probe = 0]
      [] message = "unreadable" -> MarkDisconnected([c EXCEPT !.deadline = "none"])

HandleIncoming ==
    /\ gui.io # NoWire /\ gui.io.inbox # <<>>
    /\ gui' = Handled([gui EXCEPT !.io.inbox = Tail(@)], Head(gui.io.inbox))
    /\ GuiOnly /\ DeviceSpendsNothing

(* The Server at p is gone: so is every connection to it.                   *)
AllLost(c, p) ==
    LET lost(w) == IF w # NoWire /\ w.place = p /\ w.runtime # NoRuntime
                   THEN Delivered(w, "lost") ELSE w
    IN  [c EXCEPT !.io = lost(@), !.results = [i \in DOMAIN @ |-> lost(@[i])]]
LinksClosed(c, p) ==
    [c EXCEPT !.links = [l \in DOMAIN @ |-> IF @[l].place = p THEN [@[l] EXCEPT !.open = FALSE] ELSE @[l]]]

(* The Server reads the window's next message.  A reply that an overflow    *)
(* discards is lost, and the connection goes on.                            *)
ServerReads ==
    /\ gui.io # NoWire /\ gui.io.out # <<>> /\ ~gui.io.deaf
    /\ LET p == gui.io.place
           c == [gui EXCEPT !.io.out = Tail(@)]
       IN  /\ device[p].state # "down" /\ gui.io.runtime = Runtime(p)
           /\ \/ /\ Head(gui.io.out) = "ping"
                 /\ gui' = [c EXCEPT !.io = Delivered(@, "pong")]
                 /\ GuiOnly /\ DeviceSpendsNothing
              \/ /\ Head(gui.io.out) = "restart" /\ device[p].state = "up"
                 /\ gui' = [c EXCEPT !.io = Delivered(@, "stopping")]
                 /\ device' = [device EXCEPT ![p].state = "stopping"] /\ DeviceSpendsNothing
              \/ /\ Head(gui.io.out) = "restart"
                 /\ gui' = [c EXCEPT !.io = Delivered(@, "error")]
                 /\ GuiOnly /\ DeviceSpendsNothing
              \/ /\ Head(gui.io.out) = "restart" /\ SpendDevice("lags")
                 /\ gui' = c /\ GuiOnly

(* Somebody else stops the Server, and only they are told; it still accepts  *)
(* until it exits.                                                          *)
ServerStops(p) ==
    /\ device[p].state = "up" /\ SpendDevice("stops")
    /\ device' = [device EXCEPT ![p].state = "stopping"]
    /\ UNCHANGED gui

ServerExits(p) ==
    /\ \/ device[p].state = "stopping" /\ DeviceSpendsNothing
       \/ device[p].state = "up" /\ SpendDevice("crashes")
    /\ device' = [device EXCEPT ![p].state = "down"]
    /\ gui' = LinksClosed(AllLost(gui, p), p)

ServerStarts(p) ==
    /\ device[p].state = "down"
    /\ device' = [device EXCEPT ![p] = [starts |-> @.starts + 1, state |-> "up"]]
    /\ UNCHANGED gui /\ DeviceSpendsNothing

(* The network ends a connection, the Server sends what this build cannot   *)
(* read, the machine sleeps and the other end is gone when it wakes, and a   *)
(* keepalive finds that out in the end.                                     *)
Breaks ==
    /\ gui.io # NoWire /\ GuiOnly
    /\ \/ /\ ~gui.io.deaf /\ SpendDevice("breaks")
          /\ gui' = [gui EXCEPT !.io = Delivered(@, "lost")]
       \/ /\ ~gui.io.deaf /\ SpendDevice("unreadables")
          /\ gui' = [gui EXCEPT !.io = Delivered(@, "unreadable")]
       \/ /\ ~gui.io.deaf /\ SpendDevice("sleeps")
          /\ gui' = [gui EXCEPT !.io.deaf = TRUE]

Keepalive ==
    /\ gui.io # NoWire /\ gui.io.deaf /\ "lost" \notin ToSet(gui.io.inbox)
    /\ gui' = [gui EXCEPT !.io.inbox = Append(@, "lost")]
    /\ GuiOnly /\ DeviceSpendsNothing

(* probe_connections, when the machine wakes; and its timer.                *)
ProbeConnections ==
    /\ SpendDevice("wakes") /\ GuiOnly
    /\ LET sent == gui.sent + 1
           c == [gui EXCEPT !.sent = sent, !.probes = @ \cup {sent}]
       IN  gui' = IF c.listed /\ c.status = "connected" /\ c.io # NoWire
                  THEN [c EXCEPT !.io = Says(@, "ping"), !.wake_probe = sent,
                                 !.pinged = Append(@, c.io.number)]
                  ELSE [c EXCEPT !.pinged = Append(@, 0)]

ProbeEnds(sent) ==
    /\ sent \in gui.probes
    /\ LET c == [gui EXCEPT !.probes = @ \ {sent}]
       IN  gui' = IF c.listed /\ c.wake_probe = sent THEN Lost(c) ELSE c
    /\ GuiOnly /\ DeviceSpendsNothing

-----------------------------------------------------------------------------
(* The person                                                               *)

ConnectServer ==
    /\ gui.listed /\ gui.status # "connected" /\ SpendDevice("connects")
    /\ gui' = StartConnect(gui) /\ GuiOnly

DisconnectServer ==
    /\ gui.listed /\ gui.status = "connected" /\ SpendDevice("disconnects")
    /\ gui' = DisconnectedByHand(gui) /\ GuiOnly

(* The dialog that asks about a restart opens for a connected Device; when  *)
(* it is answered the Device may be anything.                               *)
AskRestart ==
    /\ gui.listed /\ gui.status = "connected" /\ gui.deadline = "none" /\ ~gui.asking
    /\ SpendDevice("restarts")
    /\ gui' = [gui EXCEPT !.asking = TRUE] /\ GuiOnly

RestartServer ==
    /\ gui.asking
    /\ gui' = [gui EXCEPT !.asking = FALSE, !.deadline = IF gui.listed THEN "stands" ELSE @,
                          !.io = IF @ = NoWire THEN @ ELSE Says(@, "restart"),
                          !.mistimed = (@ \/ gui.status = "disconnected")]
    /\ GuiOnly /\ DeviceSpendsNothing

(* The Device's address is edited (dialogs.rs).                             *)
Moved(c, p) ==
    LET ended == [ForwardsEnded(c) EXCEPT !.place = p, !.wanted = p, !.late = (@ \/ c.form # NoForm)]
    IN  IF c.status = "disconnected" THEN ended ELSE StartConnect(DisconnectedByHand(ended))
EditServer(p) ==
    /\ gui.listed /\ p # gui.place /\ SpendDevice("edits")
    /\ gui' = Moved(gui, p) /\ GuiOnly

RemoveServer ==
    /\ gui.listed /\ SpendDevice("removes")
    /\ gui' = [DisconnectedByHand(gui) EXCEPT !.listed = FALSE, !.transfers = <<>>] /\ GuiOnly

-----------------------------------------------------------------------------
(* Forwards                                                                 *)

(* submit_forward, and the thread that retains the link and binds the port. *)
SubmitForward(port) ==
    /\ gui.form = NoForm /\ gui.listed /\ gui.status = "connected"
    /\ \A e \in gui.entries : e.port # port
    /\ SpendDevice("forwards")
    /\ LET c == WithLink(gui)
       IN  gui' = [c EXCEPT !.form = [port |-> port, link |-> c.link]]
    /\ GuiOnly

(* retain: the connection of the first that asks is dialled, later ones     *)
(* share it.                                                                *)
RetainedLink(c, l) ==
    [c EXCEPT !.links[l] = [@ EXCEPT !.users = @ + 1, !.open = (@ \/ c.links[l].users = 0)]]
MayRetain(l) == gui.links[l].users > 0 \/ Reachable(gui.links[l].place)

ForwardAnswered ==
    /\ gui.form # NoForm
    /\ LET l == gui.form.link
           c == [gui EXCEPT !.form = NoForm]
       IN  \/ /\ MayRetain(l) /\ DeviceSpendsNothing
              /\ gui' = IF c.listed
                        THEN [RetainedLink(c, l) EXCEPT
                                !.entries = @ \cup {[port |-> gui.form.port, link |-> l]}]
                        ELSE c
           \/ /\ IF MayRetain(l) THEN SpendDevice("dials") ELSE DeviceSpendsNothing
              /\ gui' = c
    /\ GuiOnly

StopForward(e) ==
    /\ e \in gui.entries /\ SpendDevice("ends")
    /\ gui' = [Released(gui, e.link) EXCEPT !.entries = @ \ {e}] /\ GuiOnly

(* The link's worker dials again.                                           *)
LinkComesBackUp(l) ==
    /\ l \in DOMAIN gui.links
    /\ gui.links[l].up /\ gui.links[l].users > 0 /\ ~gui.links[l].open
    /\ Reachable(gui.links[l].place)
    /\ gui' = [gui EXCEPT !.links[l].open = TRUE]
    /\ GuiOnly /\ DeviceSpendsNothing

-----------------------------------------------------------------------------
(* Transfers                                                                *)

QueueTransfer ==
    /\ gui.listed /\ GuiOnly
    /\ \/ SpendDevice("downloads") /\ gui' = QueueTransferTo(gui, FALSE, TRUE)
       \/ SpendDevice("uploads") /\ gui' = QueueTransferTo(gui, TRUE, FALSE)

(* run_transfer on its thread: it holds the link while it runs.             *)
Ends(c, i, result) == [c EXCEPT !.transfers[i].task = result]
TransferRetains(i) ==
    /\ i \in DOMAIN gui.transfers /\ gui.transfers[i].task = "retains"
    /\ LET l == gui.transfers[i].link
       IN  \/ /\ MayRetain(l) /\ DeviceSpendsNothing
              /\ gui' = Ends(RetainedLink(gui, l), i, "sends")
           \/ /\ IF MayRetain(l) THEN SpendDevice("dials") ELSE DeviceSpendsNothing
              /\ gui' = Ends(gui, i, "failed")
    /\ GuiOnly

TransferSends(i) ==
    /\ i \in DOMAIN gui.transfers /\ gui.transfers[i].task = "sends"
    /\ LET t == gui.transfers[i]
           done(result) == gui' = Ends(Released(gui, t.link), i, result)
       IN  \/ t.cancelled /\ done("cancelled") /\ DeviceSpendsNothing
           \/ ~t.cancelled /\ ~gui.links[t.link].open /\ done("failed") /\ DeviceSpendsNothing
           \/ ~t.cancelled /\ gui.links[t.link].open /\ done("failed") /\ SpendDevice("fails")
           \/ ~t.cancelled /\ gui.links[t.link].open /\ done("done") /\ DeviceSpendsNothing
           \/ ~t.cancelled /\ t.upload /\ ~t.replace /\ done("exists") /\ SpendDevice("fails")
    /\ GuiOnly

(* transfer_ended: a name that was taken meanwhile is asked about.          *)
TransferEnded(i) ==
    /\ i \in DOMAIN gui.transfers /\ gui.transfers[i].task \in {"done", "failed", "cancelled", "exists"}
    /\ gui.transfers[i].state = "running"
    /\ LET t == gui.transfers[i]
           ended(state) == [gui EXCEPT !.transfers[i] = [@ EXCEPT !.state = state, !.task = "none"]]
       IN  gui' = StartTransfers(
                    IF t.task = "exists" THEN [ended("asked") EXCEPT !.clashes = @ + 1]
                    ELSE ended(t.task))
    /\ GuiOnly /\ DeviceSpendsNothing

ReplaceClash ==
    /\ gui.clashes > 0
    /\ \E replace \in BOOLEAN :
         gui' = IF replace /\ gui.listed THEN QueueTransferTo([gui EXCEPT !.clashes = @ - 1], TRUE, TRUE)
                ELSE [gui EXCEPT !.clashes = @ - 1]
    /\ GuiOnly /\ DeviceSpendsNothing

CancelTransfer(i) ==
    /\ i \in DOMAIN gui.transfers /\ gui.transfers[i].state \in {"queued", "running"}
    /\ SpendDevice("cancels")
    /\ gui' = [gui EXCEPT !.transfers[i] =
                 [@ EXCEPT !.cancelled = TRUE, !.state = IF @ = "queued" THEN "cancelled" ELSE @]]
    /\ GuiOnly

-----------------------------------------------------------------------------

NewDevice(p) ==
    [listed |-> TRUE, place |-> p, wanted |-> p, status |-> "disconnected", generation |-> 0, token |-> 0,
     io |-> NoWire, deadline |-> "none", stopping |-> NoRuntime, runtime |-> NoRuntime,
     wake_probe |-> 0, asking |-> FALSE, link |-> 0, links |-> <<>>, entries |-> {},
     form |-> NoForm, transfers |-> <<>>, clashes |-> 0, dials |-> {}, results |-> <<>>,
     retries |-> 0, probes |-> {}, sent |-> 0, pinged |-> <<>>,
     mistimed |-> FALSE, late |-> FALSE, threadless |-> FALSE]

(* The window opens and connects to the Device at p.                        *)
DeviceInit(p, bounds) ==
    /\ device = [a \in Addresses |-> [starts |-> 1, state |-> "up"]]
    /\ gui = StartConnect(NewDevice(p))
    /\ deviceLeft = bounds

Person ==
    \/ ConnectServer \/ DisconnectServer \/ AskRestart \/ RestartServer \/ RemoveServer
    \/ \E p \in Addresses : EditServer(p)
    \/ \E port \in Ports : SubmitForward(port)
    \/ \E e \in gui.entries : StopForward(e)
    \/ QueueTransfer \/ ReplaceClash
    \/ \E i \in DOMAIN gui.transfers : CancelTransfer(i)
World ==
    \/ DeadlinePasses \/ Breaks \/ ProbeConnections
    \/ \E p \in Addresses : ServerStops(p) \/ ServerExits(p) \/ ServerStarts(p)
Threads ==
    \/ HandleConnectionResult \/ Retry \/ HandleIncoming \/ ServerReads \/ Keepalive
    \/ \E d \in gui.dials : DialEnds(d)
    \/ \E sent \in gui.probes : ProbeEnds(sent)
    \/ ForwardAnswered
    \/ \E l \in DOMAIN gui.links : LinkComesBackUp(l)
    \/ \E i \in DOMAIN gui.transfers : TransferRetains(i) \/ TransferSends(i) \/ TransferEnded(i)
DeviceNext == Person \/ World \/ Threads

(* The GUI's loop takes results, messages and timers; dials, transfers and  *)
(* links have threads; a Server that stops exits, and one that is down is   *)
(* started again.                                                           *)
DeviceFairness ==
    /\ WF_deviceVars(HandleConnectionResult) /\ WF_deviceVars(Retry) /\ WF_deviceVars(HandleIncoming)
    /\ WF_deviceVars(ServerReads) /\ WF_deviceVars(Keepalive)
    /\ WF_deviceVars(\E d \in gui.dials : DialEnds(d))
    /\ WF_deviceVars(\E sent \in gui.probes : ProbeEnds(sent))
    /\ WF_deviceVars(ForwardAnswered)
    /\ WF_deviceVars(\E l \in DOMAIN gui.links : LinkComesBackUp(l))
    /\ WF_deviceVars(\E i \in DOMAIN gui.transfers : TransferRetains(i) \/ TransferSends(i) \/ TransferEnded(i))
    /\ \A p \in Addresses : WF_deviceVars(ServerExits(p)) /\ WF_deviceVars(ServerStarts(p))

-----------------------------------------------------------------------------
(* Properties                                                               *)

Connected == gui.status = "connected"

DeviceTypeOK ==
    /\ device \in [Addresses -> [starts : Nat, state : {"up", "stopping", "down"}]]
    /\ gui.status \in {"connecting", "connected", "disconnected"}
    /\ gui.deadline \in {"none", "stands", "passed"}
    /\ gui.place \in Addresses /\ gui.link \in 0 .. Len(gui.links) /\ gui.retries \in Nat
    /\ Connected <=> gui.io # NoWire
    /\ \A p \in Ports : Cardinality({e \in gui.entries : e.port = p}) <= Len(gui.links)
    /\ \A i \in DOMAIN gui.transfers : gui.transfers[i].task = "none" <=> gui.transfers[i].state # "running"

(* Every end and failure with a deadline schedules a retry, and every retry  *)
(* acts or leaves another: a Device that says it is reconnecting has a timer *)
(* (schedule_reconnect), or was told to restart while it was not connected.  *)
RetryIsScheduled ==
    gui.listed /\ gui.status = "disconnected" /\ gui.deadline # "none" =>
        gui.retries > 0 \/ gui.mistimed

(* A connection is to the address the Device was given last, and not to the  *)
(* Server that said it stops (handle_connection_result, install_connection). *)
ConnectedIsWanted ==
    gui.status # "disconnected" => gui.place = gui.wanted
ReachesTheNext ==
    Connected => gui.io.place = gui.place /\ gui.io.runtime # gui.stopping

(* A probe can end only the connection it was sent on (probe_connections,   *)
(* reset_sync_state).                                                       *)
ProbesOwnConnection ==
    gui.wake_probe # 0 => Connected /\ gui.pinged[gui.wake_probe] = gui.io.number

(* The link knows whether its Device is connected, and a forward is on the   *)
(* link of its Device (DeviceForwards), except for one that was being made   *)
(* when its Device was disconnected or moved.                               *)
ForwardsFollow ==
    /\ gui.link # 0 /\ ~gui.threadless => (gui.links[gui.link].up <=> Connected)
    /\ ~gui.late => \A e \in gui.entries : e.link = gui.link
    /\ \A l \in DOMAIN gui.links : gui.links[l].open => gui.links[l].users > 0

(* No transfer waits while another could run (start_transfers): one that     *)
(* waits waits for the running ones of its Device.                          *)
NoIdleSlot ==
    With(gui, "queued") # {} => Cardinality(With(gui, "running")) = RunningPerDevice

DeviceIsSound ==
    DeviceTypeOK /\ RetryIsScheduled /\ ConnectedIsWanted /\ ReachesTheNext
    /\ ProbesOwnConnection /\ ForwardsFollow /\ NoIdleSlot

(* A Device that is left alone and was connected is connected in the end,    *)
(* however its Servers restart and its connections break or fall silent, as  *)
(* long as the deadline does not pass first; and what was started on it, a   *)
(* dial, a forward, a transfer, has ended.                                  *)
LeftAlone ==
    \A what \in {"deadlines", "disconnects", "edits", "removes", "unreadables", "refusals"} :
        deviceLeft[what] = 0
NothingPends ==
    gui.dials = {} /\ gui.form = NoForm /\ With(gui, "queued") = {} /\ With(gui, "running") = {}
DeviceSettles ==
    /\ LeftAlone => (<>Connected => <>[]Connected)
    /\ <>[]NothingPends
=============================================================================
