---------------------------- MODULE EventStream ----------------------------
(***************************************************************************)
(* How a change of the Session reaches every Client: the Server's sequence *)
(* of events and its bounded history, the subscribers, the Bootstrap that  *)
(* fences one of them, the bounded writer of each connection, and the      *)
(* cursor rules of the two kinds of Client that keep a Session model, the  *)
(* GUI and the mobile Companion (ADR 0004, ADR 0009).                      *)
(*                                                                         *)
(* Server side: condr-server/src/server/{subscriptions,bootstrap,client,   *)
(* layout/operation}.rs.  Client side: condr-gui/src/app/{events,          *)
(* server_connection}.rs and condr-mobile/src/companion.rs.                *)
(*                                                                         *)
(* An event is its sequence number, and a Client's cursor stands for the   *)
(* Session it shows.  Every action that takes the Server's state lock is   *)
(* atomic, except that a loop of sends under that lock is one step per     *)
(* send ("sending"), because the writer thread runs in between.            *)
(***************************************************************************)
EXTENDS WriterQueue, FiniteSets

CONSTANTS
    Clients,        \* connections, each with the Client at its far end
    Guis,           \* the Clients that are GUI windows; the others are Companions
    NoClient,       \* not a Client: no origin, no sender
    HistoryLimit,   \* EVENT_HISTORY_LIMIT
    BootstrapSize,  \* the framed length of a Bootstrap; every other frame is 1
    WireCap,        \* messages the transport and the Client's reader hold
    Settings        \* who connects, and how much may happen

(* The Clients that connect, and the bounds: events published, visual gaps *)
(* (each of which asks for a Bootstrap), Layout commands sent, Bootstraps  *)
(* that cannot be encoded, connections lost.                               *)
Setting ==
    [clients : SUBSET Clients, sequence : Nat, gaps : Nat, layouts : Nat, failures : Nat,
     drops : Nat]

ASSUME StreamAssumption ==
    /\ Guis \subseteq Clients
    /\ NoClient \notin Clients
    /\ {HistoryLimit, BootstrapSize, WireCap} \subseteq Nat \ {0}
    /\ Settings \subseteq Setting
    \* MAX_RELIABLE_QUEUE_BYTES is one framed Bootstrap and one more frame.
    /\ MaxBytes >= BootstrapSize + 1

VARIABLES
    sequence,     \* RuntimeState.sequence
    events,       \* RuntimeState.events: the sequence numbers still in the history
    subscribers,  \* the keys of RuntimeState.subscribers
    fenced,       \* the subscribers with bootstrap_pending
    deferred,     \* per Client: deferred_reliable
    writer,       \* per Client: its ClientWriter queue
    wire,         \* per Client: what the writer thread has sent and the Client not read
    capture,      \* per Client: the Bootstrap its connection's thread is making
    sending,      \* the sends in progress under the state lock
    layout,       \* per Client: its connection's Layout operation
    open,         \* per Client: its connection's thread is in its message loop
    client,       \* per Client: what the Client itself knows
    spent         \* the setting, and how much of its bounds is used up

serverVars == <<sequence, events, subscribers, fenced, deferred, capture, sending, layout, open>>
vars == <<serverVars, writer, wire, client, spent>>

(* Messages, from the Server and to it.                                    *)
Message(type, seq, size) == [type |-> type, seq |-> seq, size |-> size]
Event(s)          == Message("event", s, 1)
Bootstrap(s)      == Message("bootstrap", s, BootstrapSize)
Subscribed(s)     == Message("subscribed", s, 1)
Rejected          == Message("rejected", 0, 1)      \* SubscriptionRejected
SnapshotRejected  == Message("snapshotRejected", 0, 1)
LayoutApplied(s)  == Message("layoutApplied", s, 1)
LayoutRejected    == Message("layoutRejected", 0, 1)

Subscribe(s)      == [type |-> "subscribe", seq |-> s]
SnapshotRequest   == [type |-> "snapshot", seq |-> 0]
Layout            == [type |-> "layout", seq |-> 0]

Idle == [client |-> NoClient, items |-> <<>>]
NoCapture == [stage |-> "none", seq |-> 0]
NoLayout == [stage |-> "none", seq |-> 0]

(* A Client before its first connection, and after one ended.              *)
Offline(k) ==
    [k EXCEPT !.phase = "down", !.subscribed = FALSE, !.subPending = FALSE,
              !.resync = FALSE, !.recover = FALSE, !.out = <<>>]

Init ==
    /\ sequence = 0
    /\ events = <<>>
    /\ subscribers = {}
    /\ fenced = {}
    /\ deferred = [c \in Clients |-> <<>>]
    /\ writer = [c \in Clients |-> Closed(NewQueue)]
    /\ wire = [c \in Clients |-> <<>>]
    /\ capture = [c \in Clients |-> NoCapture]
    /\ sending = Idle
    /\ layout = [c \in Clients |-> NoLayout]
    /\ open = [c \in Clients |-> FALSE]
    /\ client = [c \in Clients |->
                   [phase |-> "down", cursor |-> 0, subscribed |-> FALSE, subPending |-> FALSE,
                    resync |-> FALSE, recover |-> FALSE, out |-> <<>>]]
    /\ \E s \in Settings :
          spent = [setting |-> s, gaps |-> 0, layouts |-> 0, failures |-> 0, drops |-> 0]

-----------------------------------------------------------------------------
(* The Server                                                              *)

Unlocked == sending = Idle

(* The subscriber's entry goes, with what it deferred.                     *)
RemoveSubscriber(c) ==
    /\ subscribers' = subscribers \ {c}
    /\ fenced' = fenced \ {c}
    /\ deferred' = [deferred EXCEPT ![c] = <<>>]

Kept(history) == IF Len(history) > HistoryLimit THEN Tail(history) ELSE history

(* Broken: the fence does not hold events back.                            *)
DefersNothing(c, origin) == FALSE

Defers(c, origin) == c \in fenced /\ c # origin

(* publish_event: the origin is sent its event whether it subscribes or    *)
(* not, and past any fence of its own.                                     *)
PublishEvent(origin) ==
    LET event == Event(sequence + 1)
        sends(c) == c = origin \/ (c \in subscribers /\ ~Defers(c, origin))
    IN  /\ sequence < spent.setting.sequence
        /\ sequence' = sequence + 1
        /\ events' = Kept(Append(events, sequence + 1))
        /\ writer' = [c \in Clients |-> IF sends(c) THEN Sent(writer[c], event) ELSE writer[c]]
        /\ deferred' = [c \in Clients |->
                          IF Defers(c, origin) THEN Append(deferred[c], event) ELSE deferred[c]]
        /\ subscribers' = {c \in subscribers : Defers(c, origin) \/ SentOk(writer[c], event)}
        /\ fenced' = fenced \cap subscribers'

(* A change no connection asked for: a monitor, a watcher, another thread. *)
PublishBackground ==
    /\ Unlocked
    /\ PublishEvent(NoClient)
    /\ UNCHANGED <<wire, capture, sending, layout, open, client, spent>>

(* The connection's thread is at the top of its loop, with m to handle.    *)
Handling(c, type) ==
    /\ open[c]
    /\ client[c].out # <<>>
    /\ Head(client[c].out).type = type
    /\ capture[c].stage = "none"
    /\ sending.client # c
    /\ layout[c].stage # "answering"

Handled(c) == client' = [client EXCEPT ![c].out = Tail(@)]

CursorExpired(after) == events # <<>> /\ after + 1 < Head(events)

Missed(after) ==
    LET kept[i \in 0..Len(events)] ==
          IF i = 0 THEN <<>>
          ELSE IF events[i] > after THEN Append(kept[i - 1], events[i]) ELSE kept[i - 1]
    IN  kept[Len(events)]

(* Subscribe: the whole answer is decided, and sent, under one state lock. *)
HandleSubscribe(c) ==
    LET after == Head(client[c].out).seq
        missed == Missed(after)
    IN  /\ Unlocked
        /\ Handling(c, "subscribe")
        /\ Handled(c)
        /\ IF after > sequence \/ CursorExpired(after)
           THEN /\ RemoveSubscriber(c)
                /\ sending' = [client |-> c, items |-> <<Rejected>>]
           ELSE /\ subscribers' = subscribers \cup {c}
                /\ sending' = [client |-> c,
                               items |-> [i \in DOMAIN missed |-> Event(missed[i])]
                                           \o <<Subscribed(sequence)>>]
                /\ UNCHANGED <<fenced, deferred>>
        /\ UNCHANGED <<sequence, events, capture, layout, open, writer, wire, spent>>

(* The next send of a loop under the state lock; the first error ends the  *)
(* loop and the subscription.                                              *)
SendNext ==
    LET c == sending.client
        ok == SentOk(writer[c], Head(sending.items))
        last == ~ok \/ Len(sending.items) = 1
    IN  /\ sending # Idle
        /\ writer' = [writer EXCEPT ![c] = Sent(@, Head(sending.items))]
        /\ sending' = IF last THEN Idle ELSE [sending EXCEPT !.items = Tail(@)]
        /\ capture' = IF last THEN [capture EXCEPT ![c] = NoCapture] ELSE capture
        /\ IF ok
           THEN /\ fenced' = IF last THEN fenced \ {c} ELSE fenced
                /\ UNCHANGED <<subscribers, deferred>>
           ELSE RemoveSubscriber(c)
        /\ UNCHANGED <<sequence, events, layout, open, wire, client, spent>>

FencedWith(c) == IF c \in subscribers THEN fenced \cup {c} ELSE fenced

(* SnapshotRequest: under the layout fence, capture and fence, ...         *)
BeginBootstrap(c) ==
    /\ Unlocked
    /\ Handling(c, "snapshot")
    /\ Handled(c)
    /\ capture' = [capture EXCEPT ![c] = [stage |-> "captured", seq |-> sequence]]
    /\ fenced' = FencedWith(c)
    /\ deferred' = [deferred EXCEPT ![c] = <<>>]
    /\ UNCHANGED <<sequence, events, subscribers, sending, layout, open, writer, wire, spent>>

(* ... encode without the state lock, then, for a subscriber, reopen a     *)
(* lagged writer and send the Bootstrap and everything deferred behind it. *)
FinishFenced(c) ==
    /\ Unlocked
    /\ capture[c].stage = "captured" /\ c \in fenced
    /\ writer' = [writer EXCEPT ![c] = Resumed(@)]
    /\ sending' = [client |-> c, items |-> <<Bootstrap(capture[c].seq)>> \o deferred[c]]
    /\ deferred' = [deferred EXCEPT ![c] = <<>>]
    /\ UNCHANGED <<sequence, events, subscribers, fenced, capture, layout, open, wire, client,
                   spent>>

(* Without the state lock, reopening the writer and sending are two steps. *)
Reopen(c) ==
    /\ \/ capture[c].stage = "captured" /\ c \notin fenced
       \/ capture[c].stage = "aborted"
    /\ writer' = [writer EXCEPT ![c] = Resumed(@)]
    /\ capture' = [capture EXCEPT ![c].stage =
                     IF capture[c].stage = "captured" THEN "reopened" ELSE "rejecting"]
    /\ UNCHANGED <<sequence, events, subscribers, fenced, deferred, sending, layout, open, wire,
                   client, spent>>

FinishUnfenced(c) ==
    /\ capture[c].stage = "reopened"
    /\ writer' = [writer EXCEPT ![c] = Sent(@, Bootstrap(capture[c].seq))]
    /\ capture' = [capture EXCEPT ![c] = NoCapture]
    /\ UNCHANGED <<sequence, events, subscribers, fenced, deferred, sending, layout, open, wire,
                   client, spent>>

(* A Bootstrap that does not encode: the fence is lifted, which loses what *)
(* it deferred, ...                                                        *)
AbortBootstrap(c) ==
    /\ spent.failures < spent.setting.failures
    /\ Unlocked
    /\ capture[c].stage = "captured"
    /\ spent' = [spent EXCEPT !.failures = @ + 1]
    /\ capture' = [capture EXCEPT ![c].stage = "aborted"]
    /\ fenced' = fenced \ {c}
    /\ deferred' = [deferred EXCEPT ![c] = <<>>]
    /\ UNCHANGED <<sequence, events, subscribers, sending, layout, open, writer, wire, client>>

(* ... and the rejection closes the connection behind it.                  *)
RejectBootstrap(c) ==
    /\ capture[c].stage = "rejecting"
    /\ writer' = [writer EXCEPT ![c] = Sent(@, SnapshotRejected)]
    /\ capture' = [capture EXCEPT ![c] = NoCapture]
    /\ open' = [open EXCEPT ![c] = FALSE]
    /\ UNCHANGED <<sequence, events, subscribers, fenced, deferred, sending, layout, wire,
                   client, spent>>

(* The thread that left its message loop removes what it registered.       *)
CloseConnection(c) ==
    /\ Unlocked
    /\ ~open[c] /\ c \in subscribers
    /\ RemoveSubscriber(c)
    /\ UNCHANGED <<sequence, events, capture, sending, layout, open, writer, wire, client, spent>>

(* A Layout command done on the connection's thread: the change and its    *)
(* event under the state lock, the response after it.                      *)
HandleLocalLayout(c) ==
    /\ Unlocked
    /\ Handling(c, "layout") /\ layout[c].stage = "none"
    /\ Handled(c)
    /\ PublishEvent(c)
    /\ layout' = [layout EXCEPT ![c] = [stage |-> "answering", seq |-> sequence']]
    /\ UNCHANGED <<wire, capture, sending, open, spent>>

AnswerLocalLayout(c) ==
    /\ layout[c].stage = "answering"
    /\ writer' = [writer EXCEPT ![c] = Sent(@, LayoutApplied(layout[c].seq))]
    /\ layout' = [layout EXCEPT ![c] = NoLayout]
    /\ UNCHANGED <<sequence, events, subscribers, fenced, deferred, capture, sending, open,
                   wire, client, spent>>

(* Refused at once: not allowed, or another operation is in progress.      *)
RefuseLayout(c) ==
    /\ Unlocked
    /\ Handling(c, "layout")
    /\ Handled(c)
    /\ writer' = [writer EXCEPT ![c] = Sent(@, LayoutRejected)]
    /\ UNCHANGED <<sequence, events, subscribers, fenced, deferred, capture, sending, layout,
                   open, wire, spent>>

(* One that needs Git or the disk runs on a thread of its own; ...         *)
StartExternalLayout(c) ==
    /\ Unlocked
    /\ Handling(c, "layout") /\ layout[c].stage = "none"
    /\ Handled(c)
    /\ layout' = [layout EXCEPT ![c] = [stage |-> "running", seq |-> 0]]
    /\ UNCHANGED <<sequence, events, subscribers, fenced, deferred, capture, sending, open,
                   writer, wire, spent>>

(* Broken: a Layout commits while a Bootstrap is being made.               *)
FenceIgnored(c) == TRUE

(* external_running, which a SnapshotRequest holds from capture to send.   *)
FenceFree(c) == capture[c].stage = "none"

(* ... it commits under the fence and the state lock, or fails, ...        *)
CommitExternalLayout(c) ==
    /\ Unlocked
    /\ layout[c].stage = "running"
    /\ FenceFree(c)
    /\ PublishEvent(c)
    /\ layout' = [layout EXCEPT ![c] = [stage |-> "committed", seq |-> sequence']]
    /\ UNCHANGED <<wire, capture, sending, open, client, spent>>

(* ... and answers under the fence, releasing the slot.                    *)
AnswerExternalLayout(c) ==
    /\ FenceFree(c)
    /\ \/ /\ layout[c].stage = "committed"
          /\ writer' = [writer EXCEPT ![c] = Sent(@, LayoutApplied(layout[c].seq))]
       \/ /\ layout[c].stage = "running"
          /\ writer' = [writer EXCEPT ![c] = Sent(@, LayoutRejected)]
    /\ layout' = [layout EXCEPT ![c] = NoLayout]
    /\ UNCHANGED <<sequence, events, subscribers, fenced, deferred, capture, sending, open,
                   wire, client, spent>>

(* The connection's writer thread.                                         *)
WriterSend(c) ==
    /\ HasItem(writer[c])
    /\ Len(wire[c]) < WireCap
    /\ wire' = [wire EXCEPT ![c] = Append(@, Received(writer[c]))]
    /\ writer' = [writer EXCEPT ![c] = AfterReceive(@)]
    /\ UNCHANGED <<serverVars, client, spent>>

-----------------------------------------------------------------------------
(* The Clients.  k is one Client's state; an operator returns it changed,  *)
(* with what it sends appended to "out".                                   *)

RequestSnapshot(k) ==
    IF k.resync THEN k ELSE [k EXCEPT !.resync = TRUE, !.out = Append(@, SnapshotRequest)]

Unsubscribed(k) == [k EXCEPT !.subscribed = FALSE, !.subPending = FALSE]

(* The GUI asks again whenever no answer is pending, the Companion only    *)
(* from Subscription::None.                                                *)
GuiSubscribe(k) ==
    IF k.subPending THEN k
    ELSE [k EXCEPT !.subscribed = FALSE, !.subPending = TRUE,
                   !.out = Append(@, Subscribe(k.cursor))]

CompanionSubscribe(k) == IF k.subscribed THEN k ELSE GuiSubscribe(k)

(* A Bootstrap replaces the model whole.                                   *)
Replaced(k, s) ==
    [k EXCEPT !.cursor = s, !.resync = FALSE, !.recover = FALSE]

(* An Event: the next one applies, an older one is dropped, a later one    *)
(* means a gap.                                                            *)
OnEvent(k, s) ==
    CASE s = k.cursor + 1 -> [k EXCEPT !.cursor = s]
      [] s > k.cursor + 1 -> RequestSnapshot(Unsubscribed(k))
      [] s <= k.cursor    -> k

GuiOnBootstrap(k, s) ==
    IF k.recover \/ (k.resync /\ ~k.subscribed)
    THEN GuiSubscribe(Replaced(k, s))
    ELSE Replaced(k, s)

GuiOnSubscribed(k, s) ==
    CASE ~k.subPending                   -> k
      [] k.subPending /\ k.cursor = s -> [k EXCEPT !.subPending = FALSE, !.subscribed = TRUE]
      [] k.subPending /\ k.cursor # s -> RequestSnapshot(Unsubscribed(k))

GuiOnRejected(k) == RequestSnapshot([Unsubscribed(k) EXCEPT !.recover = TRUE])

GuiOnSnapshotRejected(k) ==
    IF k.resync THEN RequestSnapshot([Unsubscribed(k) EXCEPT !.resync = FALSE]) ELSE k

GuiOn(k, m) ==
    CASE m.type = "event"                  -> OnEvent(k, m.seq)
      [] m.type = "bootstrap"              -> GuiOnBootstrap(k, m.seq)
      [] m.type = "subscribed"             -> GuiOnSubscribed(k, m.seq)
      [] m.type \in {"rejected", "lagged"} -> GuiOnRejected(k)
      [] m.type = "snapshotRejected"       -> GuiOnSnapshotRejected(k)
      [] m.type \in {"layoutApplied", "layoutRejected"} -> k

CompanionOnRejected(k) == RequestSnapshot([Unsubscribed(k) EXCEPT !.resync = FALSE])

CompanionOn(k, m) ==
    CASE m.type = "event"      -> OnEvent(k, m.seq)
      [] m.type = "bootstrap"  -> CompanionSubscribe(Replaced(k, m.seq))
      [] m.type = "subscribed" -> [k EXCEPT !.subPending = FALSE, !.subscribed = TRUE]
      [] m.type \in {"rejected", "lagged", "snapshotRejected"} -> CompanionOnRejected(k)

(* Connect, and the handshake up to its Bootstrap: both kinds apply it and *)
(* subscribe.                                                              *)
OnHandshake(k, m) ==
    IF m.type = "bootstrap"
    THEN GuiSubscribe([Replaced(k, m.seq) EXCEPT !.phase = "up"])
    ELSE k

On(c, k, m) ==
    CASE k.phase = "connecting" -> OnHandshake(k, m)
      [] k.phase = "up" /\ c \in Guis -> GuiOn(k, m)
      [] k.phase = "up" /\ c \notin Guis -> CompanionOn(k, m)

ClientReceive(c) ==
    /\ wire[c] # <<>>
    /\ wire' = [wire EXCEPT ![c] = Tail(@)]
    /\ client' = [client EXCEPT ![c] = On(c, @, Head(wire[c]))]
    /\ UNCHANGED <<serverVars, writer, spent>>

(* TerminalResync, or a frame that does not apply.                         *)
VisualGap(c) ==
    /\ spent.gaps < spent.setting.gaps
    /\ client[c].phase = "up"
    /\ spent' = [spent EXCEPT !.gaps = @ + 1]
    /\ client' = [client EXCEPT ![c] = RequestSnapshot(@)]
    /\ UNCHANGED <<serverVars, writer, wire>>

(* can_mutate: only a synchronized window sends Layout commands, and the   *)
(* Companion never does.                                                   *)
SendLayout(c) ==
    /\ spent.layouts < spent.setting.layouts
    /\ c \in Guis
    /\ client[c].subscribed /\ ~client[c].resync
    /\ spent' = [spent EXCEPT !.layouts = @ + 1]
    /\ client' = [client EXCEPT ![c].out = Append(@, Layout)]
    /\ UNCHANGED <<serverVars, writer, wire>>

Connect(c) ==
    /\ client[c].phase = "down" /\ c \in spent.setting.clients
    /\ client' = [client EXCEPT ![c] = [@ EXCEPT !.phase = "connecting", !.out = <<SnapshotRequest>>]]
    /\ writer' = [writer EXCEPT ![c] = NewQueue]
    /\ open' = [open EXCEPT ![c] = TRUE]
    /\ UNCHANGED <<sequence, events, subscribers, fenced, deferred, capture, sending, layout,
                   wire, spent>>

(* The connection is gone for both ends.  A Layout operation it started    *)
(* runs on, and its commit is one more background change.                  *)
EndConnection(c) ==
    /\ RemoveSubscriber(c)
    /\ writer' = [writer EXCEPT ![c] = Closed(@)]
    /\ wire' = [wire EXCEPT ![c] = <<>>]
    /\ capture' = [capture EXCEPT ![c] = NoCapture]
    /\ sending' = IF sending.client = c THEN Idle ELSE sending
    /\ layout' = [layout EXCEPT ![c] = NoLayout]
    /\ open' = [open EXCEPT ![c] = FALSE]
    /\ client' = [client EXCEPT ![c] = Offline(@)]
    /\ UNCHANGED <<sequence, events>>

(* The transport fails.                                                    *)
LoseConnection(c) ==
    /\ client[c].phase # "down"
    /\ spent.drops < spent.setting.drops
    /\ spent' = [spent EXCEPT !.drops = @ + 1]
    /\ EndConnection(c)

(* The Server closed its end and everything it sent has been read.         *)
ReadEnd(c) ==
    /\ client[c].phase # "down"
    /\ ~open[c] /\ layout[c].stage = "none"
    /\ wire[c] = <<>> /\ ~HasItem(writer[c])
    /\ EndConnection(c)
    /\ UNCHANGED spent

-----------------------------------------------------------------------------
ConnectionStep(c) ==
    \/ HandleSubscribe(c) \/ BeginBootstrap(c) \/ FinishFenced(c) \/ FinishUnfenced(c)
    \/ Reopen(c) \/ AbortBootstrap(c) \/ RejectBootstrap(c) \/ CloseConnection(c)
    \/ HandleLocalLayout(c) \/ AnswerLocalLayout(c) \/ RefuseLayout(c)
    \/ StartExternalLayout(c) \/ CommitExternalLayout(c) \/ AnswerExternalLayout(c)
    \/ WriterSend(c)

ClientStep(c) ==
    \/ ClientReceive(c) \/ VisualGap(c) \/ SendLayout(c) \/ Connect(c)
    \/ LoseConnection(c) \/ ReadEnd(c)

Next ==
    \/ PublishBackground
    \/ SendNext
    \/ \E c \in Clients : ConnectionStep(c) \/ ClientStep(c)

Spec == Init /\ [][Next]_vars

(* The Server's threads run, the transport moves and the Clients read;     *)
(* nothing has to publish, to command, to lose a frame or to connect.      *)
Fairness ==
    /\ WF_vars(SendNext)
    /\ \A c \in Clients :
         /\ WF_vars(HandleSubscribe(c)) /\ WF_vars(BeginBootstrap(c))
         /\ WF_vars(FinishFenced(c)) /\ WF_vars(Reopen(c)) /\ WF_vars(FinishUnfenced(c))
         /\ WF_vars(RejectBootstrap(c)) /\ WF_vars(CloseConnection(c))
         /\ WF_vars(HandleLocalLayout(c) \/ RefuseLayout(c) \/ StartExternalLayout(c))
         /\ WF_vars(AnswerLocalLayout(c)) /\ WF_vars(AnswerExternalLayout(c))
         /\ WF_vars(WriterSend(c)) /\ WF_vars(ClientReceive(c)) /\ WF_vars(ReadEnd(c))

FairSpec == Spec /\ Fairness

-----------------------------------------------------------------------------
(* Properties                                                              *)

(* The last sequence number there can be.                                  *)
Last == spent.setting.sequence

Messages ==
    (UNION {{Event(s), Bootstrap(s), Subscribed(s), LayoutApplied(s)} : s \in 0..Last})
      \cup {Rejected, SnapshotRejected, LayoutRejected, LagNotice}

Requests == {Subscribe(s) : s \in 0..Last} \cup {SnapshotRequest, Layout}

StreamQueues ==
    [reliable : Seq(Messages), bytes : 0..MaxBytes, lagged : BOOLEAN, clipboard : {<<>>},
     render : {<<>>}, alive : BOOLEAN]

ClientStates ==
    [phase : {"down", "connecting", "up"}, cursor : 0..Last, subscribed : BOOLEAN,
     subPending : BOOLEAN, resync : BOOLEAN, recover : BOOLEAN, out : Seq(Requests)]

(* Every variable has its type.                                            *)
TypeOK ==
    /\ sequence \in 0..Last
    /\ events \in Seq(1..Last) /\ Len(events) <= HistoryLimit
    /\ fenced \subseteq subscribers /\ subscribers \subseteq Clients
    /\ deferred \in [Clients -> Seq(Messages)]
    /\ writer \in [Clients -> StreamQueues]
    /\ wire \in [Clients -> Seq(Messages)]
    /\ capture \in [Clients ->
                     [stage : {"none", "captured", "reopened", "aborted", "rejecting"},
                      seq : 0..Last]]
    /\ sending \in [client : Clients \cup {NoClient}, items : Seq(Messages)]
    /\ layout \in [Clients -> [stage : {"none", "answering", "running", "committed"},
                               seq : 0..Last]]
    /\ open \in [Clients -> BOOLEAN]
    /\ client \in [Clients -> ClientStates]
    /\ spent \in [setting : Settings, gaps : Nat, layouts : Nat, failures : Nat, drops : Nat]
    /\ spent.gaps <= spent.setting.gaps /\ spent.layouts <= spent.setting.layouts
    /\ spent.failures <= spent.setting.failures /\ spent.drops <= spent.setting.drops

(* What is on its way to c, in order: in the transport, queued, being sent *)
(* under the state lock to a writer that takes it, and held behind a       *)
(* captured Bootstrap.                                                     *)
InFlight(c) ==
    wire[c] \o writer[c].reliable
      \o (IF sending.client = c /\ ~writer[c].lagged THEN sending.items ELSE <<>>)
      \o (IF capture[c].stage \in {"captured", "reopened"} /\ sending.client # c
          THEN <<Bootstrap(capture[c].seq)>> \o deferred[c] ELSE <<>>)

InFlightTypes(c) == {m.type : m \in {InFlight(c)[i] : i \in DOMAIN InFlight(c)}}

(* The cursor that reading m, and reading chain, leads to.                 *)
CursorAfter(cursor, m) ==
    IF m.type = "bootstrap" \/ (m.type = "event" /\ m.seq = cursor + 1) THEN m.seq ELSE cursor

Replayed(chain, start) ==
    LET after[i \in 0..Len(chain)] ==
          IF i = 0 THEN start ELSE CursorAfter(after[i - 1], chain[i])
    IN  after[Len(chain)]

Failing(c) == ~open[c] \/ capture[c].stage \in {"aborted", "rejecting"}

(* A Client the Server counts as a subscriber is on its way to the         *)
(* Server's sequence by what it has been sent, however events,             *)
(* Bootstraps, the history's end and full queues interleave, unless its    *)
(* writer has lagged or its connection is failing.                         *)
StreamReachesSequence ==
    \A c \in Clients :
        /\ c \in subscribers /\ ~writer[c].lagged /\ ~Failing(c)
        /\ client[c].phase = "up"
        => Replayed(InFlight(c), client[c].cursor) = sequence

(* A Client that believes it is subscribed and no longer is will be told:  *)
(* a rejection or the lag notice is on its way, or the connection fails.   *)
NeverSilentlyStale ==
    \A c \in Clients :
        client[c].subscribed /\ c \notin subscribers /\ ~Failing(c)
        => InFlightTypes(c) \cap {"lagged", "rejected", "snapshotRejected"} # {}

(* A Client waiting for a Bootstrap is going to have an answer: its request*)
(* is unread, the Bootstrap is being made or on its way, or it will be     *)
(* told that it has to ask again (client_writer.rs: "the client will       *)
(* re-Bootstrap").                                                         *)
AwaitedBootstrapIsComing ==
    \A c \in Clients :
        client[c].resync /\ ~Failing(c)
        => \/ \E i \in DOMAIN client[c].out : client[c].out[i] = SnapshotRequest
           \/ InFlightTypes(c) \cap {"bootstrap", "lagged", "rejected", "snapshotRejected"} # {}

(* The response to a Layout command never overtakes the change it          *)
(* confirms: its event, or a Bootstrap that has it, comes first, or the    *)
(* Client knows of a gap and awaits a Bootstrap, or its connection fails.  *)
AppliedAfterItsEvent ==
    \A c \in Clients : \A i \in DOMAIN InFlight(c) :
        InFlight(c)[i].type = "layoutApplied" /\ ~Failing(c)
        => \/ client[c].cursor >= InFlight(c)[i].seq
           \/ client[c].resync
           \/ \E j \in 1..i-1 :
                /\ InFlight(c)[j].type \in {"event", "bootstrap"}
                /\ InFlight(c)[j].seq >= InFlight(c)[i].seq

(* Behind the lag notice no event comes ahead of the Bootstrap that        *)
(* recovers from it (bootstrap.rs: "Fence order for a lagged writer").     *)
NoticeThenBootstrap ==
    \A c \in Clients : \A i \in DOMAIN InFlight(c) : \A j \in i+1..Len(InFlight(c)) :
        InFlight(c)[i].type = "lagged" /\ InFlight(c)[j].type = "event" /\ ~Failing(c)
        => \E k \in i+1..j-1 : InFlight(c)[k].type = "bootstrap"

(* What a subscriber is sent is in order, to its end.                       *)
StreamIsInOrder == TypeOK /\ StreamReachesSequence /\ AppliedAfterItsEvent /\ NoticeThenBootstrap

(* What reaches a Client is in order, and nobody is left behind unawares.   *)
StreamIsSound == StreamIsInOrder /\ NeverSilentlyStale

(* The stream implements ReplicatedSession: a Client never goes back to an *)
(* older Session, and skips changes only by a Bootstrap that was captured  *)
(* for it, over any number of connections.                                 *)
Offered(c) ==
    {m.seq : m \in {InFlight(c)[i] : i \in {j \in DOMAIN InFlight(c) :
                                              InFlight(c)[j].type = "bootstrap"}}}

Replica == INSTANCE ReplicatedSession WITH
             length <- sequence, offered <- [c \in Clients |-> Offered(c)],
             view <- [c \in Clients |-> client[c].cursor]

ReplicatesSession == Replica!Spec

Synchronized(c) ==
    /\ client[c].phase = "up" /\ client[c].subscribed /\ ~client[c].resync
    /\ client[c].cursor = sequence

(* Whatever was lost on the way, a connected Client catches up again; but  *)
(* not a GUI window that asks for a Bootstrap by itself while its queue    *)
(* overflows (AwaitedBootstrapIsComing).                                   *)
AsksOnlyWhenTold(c) == c \in Guis => spent.setting.gaps = 0 /\ spent.setting.layouts = 0
Converges ==
    \A c \in Clients : AsksOnlyWhenTold(c) => []<>(client[c].phase = "down" \/ Synchronized(c))
=============================================================================
