--------------------------- MODULE TerminalRender ---------------------------
(***************************************************************************)
(* The visual stream of one connection (ADR 0004, ADR 0041): the views a   *)
(* Server keeps of its Panes' terminals, one subscriber's baselines and    *)
(* pending Panes, the threads that each render for it outside the state    *)
(* lock, the render slot of its ClientWriter, and the Client's reader,     *)
(* visual slot and model.                                                  *)
(*                                                                         *)
(* Server side: condr-server/src/server/{terminal_stream,terminal_state,   *)
(* terminal_monitor,subscriptions,bootstrap,client}.rs.  Client side:      *)
(* condr-client/src/{io,frames,model}.rs under the owner in                *)
(* condr-mobile/src/companion.rs (a GUI owner never limits its Panes).     *)
(*                                                                         *)
(* What a screen shows is the pair of the terminal that drew it and that   *)
(* terminal's revision.  A delta remembers the view it was computed from,  *)
(* which the program does not send: it sends the revision alone.           *)
(***************************************************************************)
EXTENDS Integers, Sequences, FiniteSets, SequencesExt

CONSTANTS
    Panes,
    WireCap,    \* messages the transport holds
    Settings    \* the kinds of life a connection may have here

(* panes: the Panes in use; absent: those of them that no layout has       *)
(* created yet; large: those whose frames exceed MAX_FRAME_SIZE and come   *)
(* in chunks; companion: the Client limits its frames to the Pane it       *)
(* shows.  The rest are bounds: revisions of a Pane's terminal, terminals   *)
(* restarted, times the Companion shows another Pane or none, overflows of *)
(* the reliable queue, frames from a newer protocol, gaps the owner finds  *)
(* in the Session events, reliable messages that are not for terminals.    *)
Setting ==
    [panes : SUBSET Panes, absent : SUBSET Panes, large : SUBSET Panes, companion : BOOLEAN,
     revisions : [Panes -> Nat], restarts : Nat, shows : Nat, lags : Nat, unreadable : Nat,
     gaps : Nat, replies : Nat]

ASSUME RenderAssumption == Settings \subseteq Setting /\ WireCap \in Nat \ {0}

VARIABLES
    latest,      \* terminal_views: per Pane its view and the base of producer_frame
    state,       \* per Pane: whether a terminal runs in it
    subscriber,  \* the ClientSubscriber of this connection
    watched,     \* watched_terminals of this connection
    flush,       \* per thread: its flush_terminal_render
    capture,     \* the Bootstrap the connection's thread is making
    writer,      \* the ClientWriter and what its thread holds
    wire,        \* what was sent and not read
    outgoing,    \* what the owner queued for the Client's writer thread
    requests,    \* what that thread sent and the Server has not read
    reader,      \* the Client's reader thread
    slot,        \* TerminalVisualSlot
    inbox,       \* Incoming messages the owner has not handled
    model,       \* the owner's SessionModel and what it waits for
    spent        \* the setting, and how much of each of its bounds is used up

serverVars == <<latest, state, subscriber, watched, flush, capture>>
clientVars == <<outgoing, reader, slot, inbox, model>>
vars == <<serverVars, writer, wire, requests, clientVars, spent>>

Large == spent.setting.large
Companion == spent.setting.companion
MaxRevision(p) == spent.setting.revisions[p]
MaxRestarts == spent.setting.restarts
MaxShows == spent.setting.shows
MaxLags == spent.setting.lags
MaxUnreadable == spent.setting.unreadable
MaxGaps == spent.setting.gaps
MaxReplies == spent.setting.replies
Initially == spent.setting.panes \ spent.setting.absent

(* The threads that render for this connection.                            *)
Threads == {"client", "writer", "layout"} \cup Panes

View(t, r) == [terminal |-> t, revision |-> r]
NoView == View(-1, 0)
Views ==
    UNION {[terminal : 0..(MaxRestarts + 1), revision : 0..MaxRevision(p)] : p \in Panes}

(* A delta applied to a view it was not computed from: cells of both.      *)
Garbled(r) == View(0, r)

(* TerminalViewFrame: whole, or the change from a base.                    *)
Full(v)     == [base |-> NoView, to |-> v]
Delta(b, v) == [base |-> b, to |-> v]
NoFrame     == Full(NoView)
IsFull(f)   == f.base = NoView
Nothing     == [p \in Panes |-> NoFrame]
Some(frames) == {p \in Panes : frames[p] # NoFrame}

Bootstrap(views)    == [type |-> "bootstrap", views |-> views]
Notice              == [type |-> "notice"]
Reply               == [type |-> "reply"]
Batch(frames)       == [type |-> "frames", frames |-> frames]
Chunk(p, index, f)  == [type |-> "chunk", pane |-> p, index |-> index, frame |-> f]

SnapshotRequest     == [type |-> "snapshot"]
Subscribe           == [type |-> "subscribe"]
WatchTerminals(ps)  == [type |-> "watch", panes |-> ps]

Idle == [stage |-> "idle"]
Due  == [stage |-> "due"]
NoCapture == [stage |-> "none"]

Unsubscribed ==
    [present |-> FALSE, bootstrapPending |-> FALSE, pending |-> {},
     baselines |-> [p \in Panes |-> NoView], generation |-> 0]

Started == {p \in Panes : latest[p].view # NoView}

(* A Client that has connected, naming the Pane it shows if it is a        *)
(* Companion, and applied the Bootstrap of its handshake.                  *)
Init ==
    /\ \E s \in Settings :
          spent = [setting |-> s, restarts |-> 0, shows |-> 0, lags |-> 0, unreadable |-> 0,
                   gaps |-> 0, replies |-> 0]
    /\ latest = [p \in Panes |->
                   [view |-> IF p \in Initially THEN View(1, 0) ELSE NoView, producer |-> NoView]]
    /\ state = [p \in Panes |-> IF p \in Initially THEN "running" ELSE "absent"]
    /\ subscriber = Unsubscribed
    /\ watched \in IF Companion THEN {{}} \cup {{p} : p \in Initially} ELSE {Panes}
    /\ flush = [t \in Threads |-> Idle]
    /\ capture = NoCapture
    /\ writer = [reliable |-> <<>>, render |-> <<>>, lagged |-> FALSE, holding |-> <<>>]
    /\ wire = <<>>
    /\ outgoing = <<Subscribe>>
    /\ requests = <<>>
    /\ reader = [assembly |-> <<>>, resync |-> FALSE, watched |-> Panes]
    /\ slot = [generation |-> 0, pending |-> Nothing, signaled |-> FALSE]
    /\ inbox = <<>>
    /\ model = [terminals |-> [p \in Panes |-> IF p \in watched THEN latest[p].view ELSE NoView],
                watched |-> watched, snapshotPending |-> FALSE, subscribed |-> TRUE]

-----------------------------------------------------------------------------
(* The Server: views and their publication                                 *)

(* Every change of what a subscriber is to be sent makes the renders       *)
(* prepared before it void (render_generation).                            *)
Marked(sub, ps) ==
    IF sub.present
    THEN [sub EXCEPT !.pending = @ \cup ps, !.generation = @ + 1]
    ELSE sub

FlushBy(t) == flush' = [flush EXCEPT ![t] = Due]

(* publish_terminal: the subscriber hears of the Panes it watches.         *)
Publish(p, view, producer, thread) ==
    /\ latest' = [latest EXCEPT ![p] = [view |-> view, producer |-> producer]]
    /\ IF subscriber.present /\ p \in watched
       THEN /\ subscriber' = Marked(subscriber, {p})
            /\ FlushBy(thread)
       ELSE UNCHANGED <<subscriber, flush>>

(* The Pane's monitor takes a frame and publishes it; it renders for the   *)
(* subscribers before it takes the next one.                               *)
PublishFrame(p) ==
    LET view == View(latest[p].view.terminal, latest[p].view.revision + 1)
    IN  /\ state[p] = "running"
        /\ flush[p] = Idle
        /\ view.revision <= MaxRevision(p)
        /\ \E producer \in {NoView, latest[p].view} : Publish(p, view, producer, p)
        /\ UNCHANGED <<state, watched, capture, writer, wire, requests, clientVars, spent>>

(* end_terminal: the monitor takes the ended terminal out to reap it, and  *)
(* puts it back with its final view.                                       *)
BeginEnd(p) ==
    /\ state[p] = "running"
    /\ flush[p] = Idle
    /\ state' = [state EXCEPT ![p] = "ending"]
    /\ UNCHANGED <<latest, subscriber, watched, flush, capture, writer, wire, requests, clientVars,
                   spent>>

(* The final view: nothing was drawn since the last one published, or more *)
(* was.                                                                    *)
Final(p) ==
    {View(latest[p].view.terminal, r) :
       r \in latest[p].view.revision..MaxRevision(p) \cap 0..(latest[p].view.revision + 1)}

FinishEnd(p) ==
    /\ state[p] = "ending"
    /\ \E view \in Final(p) : Publish(p, view, NoView, p)
    /\ state' = [state EXCEPT ![p] = "exited"]
    /\ UNCHANGED <<watched, capture, writer, wire, requests, clientVars, spent>>

(* Broken: a render of the replaced terminal may still be committed.       *)
InstalledUnnoticed(sub, p) ==
    IF sub.present THEN [sub EXCEPT !.baselines[p] = NoView, !.pending = @ \cup {p}] ELSE sub

(* install_terminal: every subscriber is marked, whatever it watches.      *)
Installed(sub, p) ==
    IF sub.present THEN Marked([sub EXCEPT !.baselines[p] = NoView], {p}) ELSE sub

Install(p, terminal) ==
    /\ latest' = [latest EXCEPT ![p] = [view |-> View(terminal, 0), producer |-> NoView]]
    /\ state' = [state EXCEPT ![p] = "running"]
    /\ subscriber' = Installed(subscriber, p)

(* A layout command starts a terminal in a Pane of its own.                *)
StartPane(p) ==
    /\ state[p] = "absent" /\ p \in spent.setting.panes
    /\ Install(p, 1)
    /\ UNCHANGED <<watched, flush, capture, writer, wire, requests, clientVars, spent>>

(* approve_external_layout: the removal of a worktree takes its terminals. *)
StopTerminal(p) ==
    /\ state[p] \in {"running", "exited"}
    /\ spent.restarts < MaxRestarts
    /\ state' = [state EXCEPT ![p] = IF @ = "running" THEN "stopped" ELSE "stoppedExited"]
    /\ spent' = [spent EXCEPT !.restarts = @ + 1]
    /\ UNCHANGED <<latest, subscriber, watched, flush, capture, writer, wire, requests, clientVars>>

(* restore_failed_removal: the worktree could not be removed, so its Panes *)
(* get new terminals, or their old ones back as exited ones.  Then every   *)
(* subscriber is rendered for, whatever it watches.                        *)
RestoreTerminal(p) ==
    /\ state[p] \in {"stopped", "stoppedExited"}
    /\ flush["layout"] = Idle
    /\ \/ /\ state[p] = "stopped"
          /\ Install(p, latest[p].view.terminal + 1)
       \/ \E view \in Final(p) :
             /\ latest' = [latest EXCEPT ![p] = [view |-> view, producer |-> NoView]]
             /\ state' = [state EXCEPT ![p] = "exited"]
             /\ subscriber' = IF p \in watched THEN Marked(subscriber, {p}) ELSE subscriber
    /\ IF subscriber.present THEN FlushBy("layout") ELSE UNCHANGED flush
    /\ UNCHANGED <<watched, capture, writer, wire, requests, clientVars, spent>>

-----------------------------------------------------------------------------
(* The Server: rendering for the subscriber (flush_terminal_render)        *)

(* prepare_terminal_render, per Pane: nothing when the baseline is as new, *)
(* the producer's own delta when it starts at the baseline's revision,     *)
(* else the comparison of the two views, a delta or, for a change of size  *)
(* or of most cells, the whole view.                                       *)
FramesFor(p, whole) ==
    LET current == latest[p].view
        producer == latest[p].producer
        baseline == subscriber.baselines[p]
    IN  IF baseline = NoView THEN Full(current)
        ELSE IF current.revision <= baseline.revision THEN NoFrame
        ELSE IF producer # NoView /\ producer.revision = baseline.revision
             THEN Delta(producer, current)
        ELSE IF whole THEN Full(current) ELSE Delta(baseline, current)

(* terminal_render_snapshot and the work outside the lock.                 *)
PrepareRender(t) ==
    /\ flush[t] = Due
    /\ IF ~subscriber.present \/ subscriber.bootstrapPending \/ subscriber.pending = {}
       THEN flush' = [flush EXCEPT ![t] = Idle]
       ELSE \E whole \in BOOLEAN :
               flush' = [flush EXCEPT ![t] =
                 [stage |-> "prepared",
                  generation |-> subscriber.generation,
                  pending |-> subscriber.pending,
                  frames |-> [p \in Panes |-> IF p \in subscriber.pending
                                              THEN FramesFor(p, whole) ELSE NoFrame]]]
    /\ UNCHANGED <<latest, state, subscriber, watched, capture, writer, wire, requests, clientVars,
                   spent>>

(* frame_terminal_batches: the Panes that fit share a batch, and each      *)
(* larger one is a record in chunks of its own.                            *)
RenderMessages(frames) ==
    LET small == Some(frames) \ Large
        records == SetToSeq(Some(frames) \cap Large)
    IN  (IF small = {} THEN <<>>
         ELSE <<Batch([p \in Panes |-> IF p \in small THEN frames[p] ELSE NoFrame])>>)
        \o FlattenSeq([i \in DOMAIN records |->
              <<Chunk(records[i], 1, frames[records[i]]),
                Chunk(records[i], 2, frames[records[i]])>>])

(* What stays pending when the slot is full: all of it.                    *)
StillPending(sub, r) == sub.pending

Accepted(sub, r) ==
    [sub EXCEPT !.pending = @ \ r.pending,
                !.baselines = [p \in Panes |-> IF r.frames[p] = NoFrame THEN @[p] ELSE r.frames[p].to],
                !.generation = @ + 1]

(* Broken: a render is committed whatever happened since it was prepared.  *)
NeverOutdated(r) == FALSE

Outdated(r) == subscriber.generation # r.generation

(* commit_terminal_render with try_send_render.                            *)
CommitRender(t) ==
    LET r == flush[t]
        done == flush' = [flush EXCEPT ![t] = Idle]
    IN  /\ r.stage = "prepared"
        /\ \/ /\ ~subscriber.present
              /\ done
              /\ UNCHANGED <<subscriber, writer>>
           \/ /\ subscriber.present /\ Outdated(r)
              /\ FlushBy(t)
              /\ UNCHANGED <<subscriber, writer>>
           \/ /\ subscriber.present /\ ~Outdated(r)
              /\ done
              /\ IF Some(r.frames) = {}
                 THEN /\ subscriber' = Accepted(subscriber, r)
                      /\ UNCHANGED writer
                 ELSE IF writer.lagged
                 THEN /\ subscriber' = Unsubscribed
                      /\ UNCHANGED writer
                 ELSE IF writer.render # <<>>
                 THEN /\ subscriber' = [subscriber EXCEPT !.pending = StillPending(subscriber, r)]
                      /\ UNCHANGED writer
                 ELSE /\ subscriber' = Accepted(subscriber, r)
                      /\ writer' = [writer EXCEPT !.render = RenderMessages(r.frames)]
        /\ UNCHANGED <<latest, state, watched, capture, wire, requests, clientVars, spent>>

-----------------------------------------------------------------------------
(* The Server: the writer thread of the connection                         *)

(* recv: reliable messages first.  When it takes the last frame of the     *)
(* slot, the thread renders again before it sends that frame.              *)
WriterReceives ==
    /\ writer.holding = <<>>
    /\ Len(wire) < WireCap
    /\ \/ /\ writer.reliable # <<>>
          /\ wire' = Append(wire, Head(writer.reliable))
          /\ writer' = [writer EXCEPT !.reliable = Tail(@)]
          /\ UNCHANGED flush
       \/ /\ writer.reliable = <<>>
          /\ Len(writer.render) > 1
          /\ wire' = Append(wire, Head(writer.render))
          /\ writer' = [writer EXCEPT !.render = Tail(@)]
          /\ UNCHANGED flush
       \/ /\ writer.reliable = <<>>
          /\ Len(writer.render) = 1
          /\ writer' = [writer EXCEPT !.render = <<>>, !.holding = writer.render]
          /\ FlushBy("writer")
          /\ UNCHANGED wire
    /\ UNCHANGED <<latest, state, subscriber, watched, capture, requests, clientVars, spent>>

WriterSends ==
    /\ writer.holding # <<>>
    /\ flush["writer"] = Idle
    /\ Len(wire) < WireCap
    /\ wire' = wire \o writer.holding
    /\ writer' = [writer EXCEPT !.holding = <<>>]
    /\ UNCHANGED <<serverVars, requests, clientVars, spent>>

(* A reliable message that says nothing of the terminals: one that fits,   *)
(* or one that overflows the queue, which loses the slot too.  An event    *)
(* the writer refuses costs its subscriber; a direct response does not.    *)
SendReply ==
    /\ ~writer.lagged
    /\ spent.replies < MaxReplies
    /\ writer' = [writer EXCEPT !.reliable = Append(@, Reply)]
    /\ spent' = [spent EXCEPT !.replies = @ + 1]
    /\ UNCHANGED <<serverVars, wire, requests, clientVars>>

Overflow(isEvent) ==
    /\ ~writer.lagged
    /\ spent.lags < MaxLags
    /\ isEvent => subscriber.present /\ ~subscriber.bootstrapPending
    /\ writer' = [writer EXCEPT !.reliable = <<Notice>>, !.render = <<>>, !.lagged = TRUE]
    /\ subscriber' = IF isEvent THEN Unsubscribed ELSE subscriber
    /\ spent' = [spent EXCEPT !.lags = @ + 1]
    /\ UNCHANGED <<latest, state, watched, flush, capture, wire, requests, clientVars>>

RefuseEvent ==
    /\ writer.lagged
    /\ subscriber.present /\ ~subscriber.bootstrapPending
    /\ subscriber' = Unsubscribed
    /\ UNCHANGED <<latest, state, watched, flush, capture, writer, wire, requests, clientVars, spent>>

-----------------------------------------------------------------------------
(* The Server: the connection's thread                                     *)

Receives(request) ==
    /\ requests # <<>>
    /\ Head(requests).type = request
    /\ capture = NoCapture
    /\ flush["client"] = Idle
    /\ requests' = Tail(requests)

(* queue_runtime_bootstrap, first half: the capture and begin_bootstrap.   *)
BeginBootstrap ==
    /\ Receives("snapshot")
    /\ capture' = [stage |-> "captured", fenced |-> subscriber.present,
                   views |-> [p \in Panes |-> IF p \in watched THEN latest[p].view ELSE NoView]]
    /\ IF subscriber.present
       THEN /\ writer' = [writer EXCEPT !.render = <<>>]
            /\ subscriber' = [subscriber EXCEPT !.pending = {}, !.bootstrapPending = TRUE,
                                                !.baselines = [p \in Panes |-> NoView],
                                                !.generation = @ + 1]
       ELSE UNCHANGED <<writer, subscriber>>
    /\ UNCHANGED <<latest, state, watched, flush, wire, clientVars, spent>>

(* reconcile_watched_terminals.                                            *)
Reconciled(sub, ps) ==
    [sub EXCEPT !.pending = (@ \cap ps) \cup {p \in ps \cap Started : sub.baselines[p] = NoView},
                !.baselines = [p \in Panes |-> IF p \in ps THEN @[p] ELSE NoView],
                !.generation = @ + 1]

(* Second half: resume_after_lag and finish_bootstrap.                     *)
Bootstrapped(sub, views) ==
    LET based == [sub EXCEPT !.baselines = views]
        fitted == IF Companion THEN Reconciled(based, watched) ELSE based
    IN  [fitted EXCEPT !.bootstrapPending = FALSE, !.generation = @ + 1]

FinishBootstrap ==
    /\ capture # NoCapture
    /\ capture' = NoCapture
    /\ writer' = [writer EXCEPT !.reliable = Append(@, Bootstrap(capture.views)),
                                !.render = IF capture.fenced \/ writer.lagged THEN <<>> ELSE @,
                                !.lagged = FALSE]
    /\ IF capture.fenced
       THEN /\ subscriber' = Bootstrapped(subscriber, capture.views)
            /\ FlushBy("client")
       ELSE UNCHANGED <<subscriber, flush>>
    /\ UNCHANGED <<latest, state, watched, wire, requests, clientVars, spent>>

(* Subscribe, with ensure_subscriber: a new subscriber starts without      *)
(* baselines and is owed every watched Pane that has a terminal.           *)
NewSubscriber ==
    [Unsubscribed EXCEPT !.present = TRUE, !.generation = 1,
                         !.pending = {p \in watched : state[p] \in {"running", "exited"}}]

HandleSubscribe ==
    /\ Receives("subscribe")
    /\ IF writer.lagged
       THEN /\ subscriber' = Unsubscribed
            /\ UNCHANGED <<writer, flush>>
       ELSE /\ subscriber' = IF subscriber.present THEN subscriber ELSE NewSubscriber
            /\ writer' = [writer EXCEPT !.reliable = Append(@, Reply)]
            /\ FlushBy("client")
    /\ UNCHANGED <<latest, state, watched, capture, wire, clientVars, spent>>

(* WatchTerminals.                                                         *)
HandleWatch ==
    /\ Receives("watch")
    /\ watched' = Head(requests).panes
    /\ subscriber' = IF subscriber.present THEN Reconciled(subscriber, Head(requests).panes)
                     ELSE subscriber
    /\ FlushBy("client")
    /\ UNCHANGED <<latest, state, capture, writer, wire, clientVars, spent>>

-----------------------------------------------------------------------------
(* The Client: its writer thread and the visual slot                       *)

(* The writer thread of ConnectionIo: the reader stops reassembling the    *)
(* Panes a WatchTerminals leaves out before the Server can hear of it.     *)
ClientWrites ==
    /\ outgoing # <<>>
    /\ outgoing' = Tail(outgoing)
    /\ requests' = Append(requests, Head(outgoing))
    /\ reader' = IF Head(outgoing).type = "watch"
                 THEN [reader EXCEPT !.watched = Head(outgoing).panes] ELSE reader
    /\ UNCHANGED <<serverVars, writer, wire, slot, inbox, model, spent>>

(* check_terminal_frame_merge compares revisions, all there is to compare. *)
MergeOk(previous, next) ==
    previous = NoFrame \/ IsFull(next) \/ previous.to.revision = next.base.revision

Merged(previous, next) ==
    IF next = NoFrame THEN previous
    ELSE IF previous = NoFrame \/ IsFull(next) THEN next
    ELSE [base |-> previous.base,
          to |-> IF previous.to = next.base THEN next.to ELSE Garbled(next.to.revision)]

Merges(frames) == \A p \in Some(frames) : MergeOk(slot.pending[p], frames[p])

(* TerminalVisualSlot::publish and advance.                                *)
Published(frames) ==
    [slot EXCEPT !.pending = [p \in Panes |-> Merged(slot.pending[p], frames[p])],
                 !.signaled = TRUE]

Advanced(sl) ==
    [generation |-> sl.generation + 1, pending |-> Nothing, signaled |-> FALSE]

Ready(generation) == [type |-> "ready", generation |-> generation]
Resync == [type |-> "resync"]

-----------------------------------------------------------------------------
(* The Client: its reader thread                                           *)

(* Broken: a record the reader gave up on is not asked for again.          *)
ResyncSilently ==
    /\ reader' = [reader EXCEPT !.assembly = <<>>, !.resync = TRUE]
    /\ slot' = Advanced(slot)
    /\ UNCHANGED inbox

(* request_terminal_resync, with the assembly cleared.                     *)
RequestResync ==
    /\ reader' = [reader EXCEPT !.assembly = <<>>, !.resync = TRUE]
    /\ slot' = Advanced(slot)
    /\ inbox' = Append(inbox, Resync)

(* publish_terminal_batch, all Panes or none.                              *)
PublishVisual(frames) ==
    IF Merges(frames)
    THEN /\ slot' = Published(frames)
         /\ inbox' = IF slot.signaled THEN inbox ELSE Append(inbox, Ready(slot.generation))
         /\ reader' = [reader EXCEPT !.assembly = <<>>]
    ELSE RequestResync

Reads(type) ==
    /\ wire # <<>>
    /\ Head(wire).type = type
    /\ wire' = Tail(wire)
    /\ UNCHANGED <<serverVars, writer, requests, outgoing, model>>

Ignored == UNCHANGED <<reader, slot, inbox, spent>>

(* What a batch does while a record is being assembled: the record is      *)
(* given up.                                                               *)
ReadFrames ==
    /\ Reads("frames")
    /\ IF reader.resync THEN Ignored
       ELSE /\ UNCHANGED spent
            /\ IF reader.assembly # <<>> THEN RequestResync
               ELSE PublishVisual(Head(wire).frames)

(* assemble_terminal_frame_chunk: the assembly remembers its first chunk.  *)
Fits(c) ==
    IF reader.assembly = <<>> THEN c.index = 1
    ELSE LET first == Head(reader.assembly) IN
         /\ c.index = 2
         /\ c.pane = first.pane
         /\ c.frame.to.revision = first.frame.to.revision

Discards(c) ==
    \/ c.pane \notin reader.watched
    \/ reader.assembly # <<>> /\ Head(reader.assembly).discard

ReadChunk ==
    LET c == Head(wire) IN
    /\ Reads("chunk")
    /\ IF reader.resync THEN Ignored
       ELSE /\ UNCHANGED spent
            /\ IF ~Fits(c) THEN RequestResync
               ELSE IF c.index = 1
               THEN /\ reader' = [reader EXCEPT !.assembly =
                                    <<[pane |-> c.pane, frame |-> c.frame, discard |-> Discards(c)]>>]
                    /\ UNCHANGED <<slot, inbox>>
               ELSE IF Discards(c)
               THEN /\ reader' = [reader EXCEPT !.assembly = <<>>]
                    /\ UNCHANGED <<slot, inbox>>
               ELSE PublishVisual([Nothing EXCEPT ![c.pane] =
                                     IF Head(reader.assembly).frame = c.frame THEN c.frame
                                     ELSE [c.frame EXCEPT !.to = Garbled(@.revision)]])

(* A frame from a newer protocol, whole or at the end of its record.       *)
ReadUnreadable ==
    /\ spent.unreadable < MaxUnreadable
    /\ \/ Reads("frames")
       \/ Reads("chunk") /\ ~reader.resync
          /\ Fits(Head(wire)) /\ Head(wire).index = 2 /\ ~Discards(Head(wire))
    /\ spent' = [spent EXCEPT !.unreadable = @ + 1]
    /\ RequestResync

(* A Bootstrap is where frames start over.                                 *)
ReadBootstrap ==
    /\ Reads("bootstrap")
    /\ reader' = [reader EXCEPT !.assembly = <<>>, !.resync = FALSE]
    /\ slot' = Advanced(slot)
    /\ inbox' = Append(inbox, Head(wire))
    /\ UNCHANGED spent

(* enforce_terminal_chunk_reliable_fence: a reliable message in the middle *)
(* of a record ends it, and is delivered all the same.                     *)
ReadReliable(type) ==
    /\ Reads(type)
    /\ reader' = IF reader.assembly = <<>> THEN reader
                 ELSE [reader EXCEPT !.assembly = <<>>, !.resync = TRUE]
    /\ slot' = IF reader.assembly = <<>> THEN slot ELSE Advanced(slot)
    /\ inbox' = inbox \o (IF reader.assembly = <<>> THEN <<>> ELSE <<Resync>>)
                      \o (IF type = "notice" THEN <<Notice>> ELSE <<>>)
    /\ UNCHANGED spent

-----------------------------------------------------------------------------
(* The Client: the owner of the model                                      *)

Handles(type) ==
    /\ inbox # <<>>
    /\ Head(inbox).type = type
    /\ inbox' = Tail(inbox)
    /\ UNCHANGED <<serverVars, writer, wire, requests, reader, spent>>

(* request_snapshot, for one request at a time.                            *)
RequestSnapshot(m) ==
    /\ model' = [m EXCEPT !.snapshotPending = TRUE]
    /\ outgoing' = IF m.snapshotPending THEN outgoing ELSE Append(outgoing, SnapshotRequest)

(* apply_terminal_frames: with a watched set, the frames of other Panes    *)
(* are old ones, and so is a delta without a view to apply to.             *)
Applicable(frames) ==
    [p \in Panes |->
       IF Companion /\ (p \notin model.watched
                         \/ (model.terminals[p] = NoView /\ ~IsFull(frames[p])))
       THEN NoFrame ELSE frames[p]]

Valid(f, view) == IsFull(f) \/ (view # NoView /\ view.revision = f.base.revision)

Shown(f, view) ==
    IF f = NoFrame THEN view
    ELSE IF IsFull(f) \/ f.base = view THEN f.to
    ELSE Garbled(f.to.revision)

Takes(generation) == slot.generation = generation

(* take and apply_terminal_frame_batch: every Pane or none.                *)
HandleReady ==
    /\ Handles("ready")
    /\ IF ~Takes(Head(inbox).generation)
       THEN UNCHANGED <<slot, model, outgoing>>
       ELSE /\ slot' = [slot EXCEPT !.pending = Nothing, !.signaled = FALSE]
            /\ LET frames == Applicable(slot.pending) IN
               IF \A p \in Some(frames) : Valid(frames[p], model.terminals[p])
               THEN /\ model' = [model EXCEPT !.terminals =
                                   [p \in Panes |-> Shown(frames[p], @[p])]]
                    /\ UNCHANGED outgoing
               ELSE RequestSnapshot(model)

HandleResync ==
    /\ Handles("resync")
    /\ RequestSnapshot(model)
    /\ UNCHANGED slot

(* apply_bootstrap, then Subscribe unless a subscription stands.           *)
ViewsFor(views) == [p \in Panes |-> IF p \in model.watched THEN views[p] ELSE NoView]

HandleBootstrap ==
    /\ Handles("bootstrap")
    /\ model' = [model EXCEPT !.terminals = ViewsFor(Head(inbox).views),
                              !.snapshotPending = FALSE, !.subscribed = TRUE]
    /\ outgoing' = IF model.subscribed THEN outgoing ELSE Append(outgoing, Subscribe)
    /\ UNCHANGED slot

(* SubscriptionRejected: a Companion asks again whatever it waits for.     *)
HandleNotice ==
    /\ Handles("notice")
    /\ RequestSnapshot([model EXCEPT !.subscribed = FALSE,
                                     !.snapshotPending = @ /\ ~Companion])
    /\ UNCHANGED slot

(* A gap in the events: the owner asks for a Bootstrap while frames go on. *)
FindGap ==
    /\ spent.gaps < MaxGaps
    /\ RequestSnapshot([model EXCEPT !.subscribed = FALSE])
    /\ spent' = [spent EXCEPT !.gaps = @ + 1]
    /\ UNCHANGED <<serverVars, writer, wire, requests, reader, slot, inbox>>

(* show_pane: leaving a Pane the Companion watches nothing, then the Pane  *)
(* it goes to.                                                             *)
ShowPane(p) ==
    /\ Companion
    /\ spent.shows < MaxShows
    /\ p \notin model.watched
    /\ p \in Started
    /\ model' = [model EXCEPT !.watched = {p},
                              !.terminals = [q \in Panes |-> NoView]]
    /\ outgoing' = outgoing
                    \o (IF model.watched = {} THEN <<>> ELSE <<WatchTerminals({})>>)
                    \o <<WatchTerminals({p})>>
    /\ spent' = [spent EXCEPT !.shows = @ + 1]
    /\ UNCHANGED <<serverVars, writer, wire, requests, reader, slot, inbox>>

ShowNothing ==
    /\ Companion
    /\ spent.shows < MaxShows
    /\ model.watched # {}
    /\ model' = [model EXCEPT !.watched = {}, !.terminals = [q \in Panes |-> NoView]]
    /\ outgoing' = Append(outgoing, WatchTerminals({}))
    /\ spent' = [spent EXCEPT !.shows = @ + 1]
    /\ UNCHANGED <<serverVars, writer, wire, requests, reader, slot, inbox>>

-----------------------------------------------------------------------------
PublishesView == \E p \in Panes : PublishFrame(p) \/ BeginEnd(p) \/ FinishEnd(p)
ChangesTerminals == \E p \in Panes : StartPane(p) \/ StopTerminal(p) \/ RestoreTerminal(p)
FillsQueue == SendReply \/ RefuseEvent \/ \E isEvent \in BOOLEAN : Overflow(isEvent)

Renders(t) == PrepareRender(t) \/ CommitRender(t)
WriterThread == WriterReceives \/ WriterSends
ConnectionThread == BeginBootstrap \/ FinishBootstrap \/ HandleSubscribe \/ HandleWatch

ReaderThread ==
    \/ ReadFrames \/ ReadUnreadable \/ ReadChunk \/ ReadBootstrap
    \/ \E type \in {"notice", "reply"} : ReadReliable(type)

Owner == HandleReady \/ HandleResync \/ HandleBootstrap \/ HandleNotice
Interrupts == FindGap \/ ShowNothing \/ \E p \in Panes : ShowPane(p)

Next ==
    \/ PublishesView \/ ChangesTerminals \/ FillsQueue
    \/ \E t \in Threads : Renders(t)
    \/ WriterThread \/ ConnectionThread
    \/ ClientWrites \/ ReaderThread \/ Owner \/ Interrupts

Spec == Init /\ [][Next]_vars

(* Every thread goes on; nothing has to be drawn, shown or lost.           *)
Fairness ==
    /\ \A t \in Threads : WF_vars(Renders(t))
    /\ WF_vars(WriterThread)
    /\ WF_vars(ConnectionThread)
    /\ WF_vars(ClientWrites)
    /\ WF_vars(ReaderThread)
    /\ WF_vars(Owner)

FairSpec == Spec /\ Fairness

-----------------------------------------------------------------------------
(* Properties                                                              *)

Frames == [base : Views \cup {NoView}, to : Views \cup {NoView}]
ViewsByPane == [Panes -> Views \cup {NoView}]

Messages ==
    [type : {"notice", "reply"}] \cup [type : {"bootstrap"}, views : ViewsByPane]
    \cup [type : {"frames"}, frames : [Panes -> Frames]]
    \cup [type : {"chunk"}, pane : Panes, index : {1, 2}, frame : Frames]

(* Every variable has its type.                                            *)
TypeOK ==
    /\ latest \in [Panes -> [view : Views \cup {NoView}, producer : Views \cup {NoView}]]
    /\ \A p \in Panes : latest[p].producer # NoView =>
          /\ latest[p].producer.terminal = latest[p].view.terminal
          /\ latest[p].producer.revision < latest[p].view.revision
    /\ state \in [Panes -> {"absent", "running", "ending", "stopped", "stoppedExited", "exited"}]
    /\ subscriber.pending \subseteq Panes /\ subscriber.baselines \in ViewsByPane
    /\ {subscriber.present, subscriber.bootstrapPending} \subseteq BOOLEAN
    /\ subscriber.generation \in Nat
    /\ watched \subseteq Panes
    /\ \A t \in Threads : flush[t].stage \in {"idle", "due", "prepared"}
    /\ capture = NoCapture \/ capture.views \in ViewsByPane
    /\ writer.reliable \in Seq(Messages) /\ writer.render \in Seq(Messages)
    /\ writer.lagged \in BOOLEAN /\ writer.holding \in Seq(Messages)
    /\ wire \in Seq(Messages) /\ Len(wire) <= WireCap
    /\ reader.resync \in BOOLEAN /\ reader.watched \subseteq Panes
    /\ Len(reader.assembly) <= 1
    /\ slot.generation \in Nat /\ slot.pending \in [Panes -> Frames]
    /\ slot.signaled \in BOOLEAN
    /\ model.terminals \in ViewsByPane /\ model.watched \subseteq Panes
    /\ {model.snapshotPending, model.subscribed} \subseteq BOOLEAN

(* Nothing is under way for this connection on either side.                *)
Settled ==
    /\ \A t \in Threads : flush[t] = Idle
    /\ capture = NoCapture
    /\ writer.reliable = <<>> /\ writer.render = <<>> /\ writer.holding = <<>>
    /\ wire = <<>> /\ outgoing = <<>> /\ requests = <<>> /\ inbox = <<>>

(* A terminal that has drawn nothing need not be shown yet.                *)
Current ==
    \A p \in model.watched : state[p] \in {"running", "exited"} =>
        \/ model.terminals[p] = latest[p].view
        \/ model.terminals[p] = NoView /\ latest[p].view.revision = 0

(* Once all is quiet the Client shows the last view of every Pane it       *)
(* watches, and is still subscribed: no frame, and no wake-up to render    *)
(* one, was lost on the way, whatever was skipped, merged or dropped (ADR  *)
(* 0004: "the Server regenerates a frame from the latest authoritative VT  *)
(* state"; ADR 0041: a Pane added to the set gets a full frame).           *)
SettledIsCurrent ==
    Settled => subscriber.present /\ watched = model.watched /\ Current

(* A reader that drops frames until the next Bootstrap will have one: it   *)
(* told the owner, who asks or has asked, and the answer is being made or  *)
(* on its way, or the lag notice is that makes the owner ask again.        *)
ResyncIsAnswered ==
    reader.resync =>
      \/ \E i \in DOMAIN inbox : inbox[i].type \in {"resync", "notice"}
      \/ \E i \in DOMAIN outgoing : outgoing[i] = SnapshotRequest
      \/ \E i \in DOMAIN requests : requests[i] = SnapshotRequest
      \/ capture # NoCapture
      \/ LET coming == wire \o writer.reliable
         IN  \E i \in DOMAIN coming : coming[i].type \in {"bootstrap", "notice"}

(* Going from Pane to Pane never costs a Bootstrap: what is still on the   *)
(* way for a Pane left, or one come back to, is no gap (model.rs: "both    *)
(* are ignored, not a gap"; ADR 0041: asking for one "would loop").        *)
VisitsNeedNoBootstrap ==
    Large = {} /\ spent.lags + spent.unreadable + spent.gaps = 0 => ~model.snapshotPending

(* Bootstraps are asked for where they are needed, and answered.            *)
BootstrapsSuffice == TypeOK /\ ResyncIsAnswered /\ VisitsNeedNoBootstrap

(* At rest the Client shows what is current, and it gets there with the     *)
(* Bootstraps it asks for.                                                 *)
RenderIsSound == SettledIsCurrent /\ BootstrapsSuffice

(* The stream implements ScreenMirror: what the Client shows of a Pane was *)
(* drawn by its terminals and never goes back.  No delta meets a screen it *)
(* was not computed from, though it names its base by revision alone, and  *)
(* nothing that a Bootstrap replaced is applied after it (frames.rs:       *)
(* "these frames cannot apply, so resynchronize").                         *)
Mirror == INSTANCE ScreenMirror WITH
            drawn <- [p \in Panes |-> latest[p].view], shown <- model.terminals

MirrorsScreens == Mirror!Spec

(* Once the screens stop changing, the Client comes to show them, and      *)
(* keeps doing so.                                                         *)
BecomesCurrent == <>[]Current
=============================================================================
