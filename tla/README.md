# condr in TLA+

condr is a terminal multiplexer in Rust: one **Server** process per host owns a
**Session** (Workspaces, Tabs and Panes, each Pane with a terminal), and any
number of **Clients** (GUI windows, the mobile Companion, the command line)
follow it over local sockets, SSH, TCP or iroh. This directory models the core
of that program: how a Client's picture of the Session and of the terminals
stays right over bounded queues, overflows and lost connections; how the Session
survives failing disks, stops, crashes and half-done Git operations; how
files and forwarded ports travel over multiplexed Streams; how Devices are paired and
connected; what agents, terminals and the Preview Tab's editor do between them.

Paths below are relative to the repository, `crates/` shortened away.

## 1. The system

### Components

| component | state | operations | who calls it |
|---|---|---|---|
| **Client writer** `condr-server/src/client_writer.rs` | reliable queue with item and byte limits, one clipboard slot, one render slot, lagged, closed, senders | send, batch, clipboard, render, closing frame, clear, resume, receive, close, clone, drop | everything on the Server that speaks to a Client; one writer thread per connection |
| **Event stream** `server/subscriptions.rs`, `bootstrap.rs`, `client.rs`, `layout/operation.rs`; `condr-client/src/model.rs`, `condr-gui/src/app/events.rs`, `server_connection.rs`, `condr-mobile/src/companion.rs` | sequence, bounded history of events, subscribers with deferred frames; each Client's model, cursor and what it waits for | publish, Subscribe with a cursor, Bootstrap behind a fence, Layout command, overflow, lag notice, recovery, reconnection | connection threads, monitors, Git watcher; Clients |
| **Render stream** `server/terminal_stream.rs`, `terminal_state.rs`; `condr-client/src/frames.rs`, `io.rs` | latest view of each Pane; per subscriber: pending Panes, baselines, generation; the Client's slot, chunks, screens | publish a view, prepare and install a render, take the slot, assemble chunks, watch another Pane | terminal monitors, writer thread; Client reader and owner |
| **Session store** `persistence.rs`, `server/recovery.rs` | the Snapshot that waits, its deadline, the worker; the file | schedule, write, put back, retry, stop; load, restore, set aside | every change of the Session |
| **Worktree operations** `server/layout.rs`, `layout/operation.rs`, `server.rs`, `condr-core/src/git/repository.rs` | operations under way, the stop flag, detached terminals, checkouts | approve, run Git outside the lock, commit, take back; begin a stop, wait for operations and monitors | connection threads, stop requests, signals |
| **Stream connection** `condr-client/src/streams.rs` (both ends) | table of Streams with their credit, chunks and ends; the line of Streams to send; why the connection closed | open, accept, refuse, write, read, finish, reset, drop, close; reader and writer threads | transfers, port forwards |
| **Transfers** `condr-client/src/transfer.rs`, `server/streams.rs`, `condr-core/src/files/transfer.rs` | a temporary file, the destination | download, upload, cancel | GUI |
| **Session tree** `condr-core/src/session*`, `condr-server/src/server/layout*` | Workspaces with their groups and Worktree associations, Tabs, split trees, focus, zoom; the next identifiers | create, rename, move, group, split, close, resize, equalise, zoom, focus; Snapshot and restore | Layout commands, Worktree operations, the Session store |
| **Terminal input queue** `condr-core/src/terminal/input.rs`, `runtime.rs` | the writer thread's channel, permits for user input, pending bytes and control reports, the reply token | write, submit, report, stop | connections, prompts, the VT |
| **Agents** `condr-core/src/agent`, `server/agents.rs`, `terminal_monitor.rs`, `layout/operation.rs` | per Pane: what process table, hooks and program say; names, starts, prompts, waits and resumes that wait | probe, hook, start, prompt, wait, rename, resume, tick | hooks, monitors, the command line |
| **Git watcher** `server/workspace_git.rs` | watched roots, deadlines, fingerprints, overflow windows | watch, unwatch, file event, terminal activity, scan, stop | connections, the file system |
| **Supervisor** `supervisor.rs`, `condr-server/src/lib.rs`, local commands | restarts within a window, the bind lock, the socket path | run, restart, start, stop | the command line, the service manager |
| **Stream link** `condr-client/src/forward.rs` | who retains it, the connection, its generation, the keeper thread | retain, release, open, dial, lose, nudge | port forwards and transfers of a GUI |
| **Device connection** `condr-gui/src/app/server_management.rs`, `ports.rs`, `transfers.rs`, `server_connection.rs` | per Device: status, generation, dial under way, connection, reconnect deadline, probe; link, forwards, transfers | connect, install, lose, retry, probe, restart, disconnect, edit, remove; forward a port, queue a transfer | the person, dial threads, timers, the Server's messages |
| **Preview Tab editor** `condr-gui/src/app/files.rs`, `file_edits.rs`, `file_entries.rs`, `workspace_resources.rs`; `condr-core/src/files/write.rs`, `read.rs`; `server/client.rs` | the text, its base, what is being saved, questions; the file | type, save, read, rename, retarget, answer a question, disconnect | the person, replies and events |
| **Connection's requests** `server/client.rs`, `terminal_state.rs`, `clipboard_image.rs`, `config.rs`, `server.rs` | who has the focus, the sizing, the mouse and the colours; staged images; the settings; the operations under way and the stop | commands to a terminal, paste an image, save a setting, read the disk, stop, restart, leave | connection threads and their workers |
| **Pairing** `condr-server/src/noise/identity.rs`, `noise.rs`, `server/client.rs`, `condr-client/src/noise.rs`, `connection.rs` | the files of the key, the invite and the authorised Devices, a lock on them; handshakes | invite, redeem, register, revoke, dial, retry | the command line, connection threads, dials |
| **Companion** `condr-mobile/src/companion.rs` and its apps | the Devices of a phone: status, generation, whether suspended; the Pane that is shown | pair, forget, suspend, resume, show, set pushes | the app's threads, dial and reader threads |
| **Pushes** `server/push.rs` | one push that waits per Pane, the task that posts | notice, post, time out, retry | agents' notices; a task |
| Terminal runtime and VT `condr-core/src/terminal`, `condr-ghostty-vt` | PTY, process, screen | spawn, resize, view, kill | monitors, connections |
| Codecs, transports, CLI, install, start at login, clones, logging, drawing | | | |

### What makes it hard

- A slow Client never slows the Server: its queue overflows, is discarded and
  the Client starts again. Everything that was in the queue, and everything the
  Client waited for, is lost at once.
- A Bootstrap is captured partly outside the Server's lock. What happens
  meanwhile is neither in it nor before it, and is deferred behind it.
- Terminal frames are not reliable: a render slot holds the newest, prepared
  outside the lock against a baseline that may be stale when it is installed.
- Two kinds of Client follow different rules: a GUI window asks for a Bootstrap
  once, a Companion asks again whenever it is told that something is missing and
  watches one Pane at a time.
- Git runs outside the lock; other connections, failures, stops and crashes come
  in between. The disk may refuse every write, and the Server must still stop.
- Either end of a Stream may give it up at any moment while credit, data and its
  end are on their way in both directions, and on some transports nothing but a
  frame can wake the far reader.

- What an agent does is known from three sources that disagree; the process
  table is read outside the lock, while the terminal may end, be closed or be
  another one when the answer is used.
- Git's state is computed outside the lock, from a file system whose events come
  in storms, are dropped, or are refused altogether.
- One connection to a device is dialled by whoever needs it first, and lost and
  given up by others meanwhile.
- A Device of the GUI is dialled on threads, retried by timers and probed after a sleep;
  results, timers and answers of a connection come when it is gone, moved or another.
- A queue of input counts what is in it outside of it: permits, pending bytes and
  the reply token must be given back on every way out, the stop included.
- Supervisors, the Servers they start and the commands a person types all act on
  one lock file and one socket path, and each of them may die between two steps.
- What several Clients share of a terminal, its focus, its size and the buttons they hold,
  must be given back by a connection that goes, however it goes, while settings,
  images and files are read and written outside the lock and a stop begins.
- An invite is used up in two writes to two files, by processes that may stop
  between them, and the answer may be lost.
- A phone leaves the screen at any moment; what was started before comes back after.
- Unsaved text belongs to a file that other Clients and other programs write,
  rename and delete, over a connection that loses replies.

`PROJECT.json` lists these and the rest as hazards, each with its line and the
properties that watch it.

## 2. The modules

| module | models | its state and actions in the code |
|---|---|---|
| `WriterQueue` | the operations on `ClientWriterQueueState`, each as an operator on one record | a field per field; `Sent`, `Overflowed`, `SentClosing`, `Resumed`, `Received` are the locked sections |
| `ClientWriter` | concurrent holders and the writer thread | `Notify` is the condition variable; the thread's `recv`, write and close are separate steps |
| `EventStream` | Server, Clients and the queue between them (`WriterQueue`), the wire and reconnection | one action per locked section or handler: `Publish`, the three steps of a Bootstrap, Subscribe, Layout, the writer's steps, the Client's receive |
| `ReplicatedSession` | the promise of the event stream | a Client's model is some state the Session has been in, and goes forward by the next change or by a whole Session captured for it |
| `TerminalRender` | one Client's render stream: publisher, render preparation, slot, chunks, reader and owner | a view is (terminal, revision); a delta carries the view it was computed from as history, and applied to another screen gives `Garbled` |
| `ScreenMirror` | the promise of the render stream | what is shown of a Pane was drawn by its terminals, and never goes back |
| `SessionStore` | file, worker, start, stop, crash, Worktree operations, terminals that end | `phase`, `stage` and each connection's `job` are program counters; a Worktree is one creation of a checkout and its Workspace |
| `StreamState` | the locked sections of one end of a Stream connection | operators on `State`: `Written`, `ReadChunk`, `Received`, `Reset`, `Dropped`... |
| `Streams` | both ends' threads, the holders and the transport | a reader and a writer step per frame, one action per public operation |
| `Transfers` | downloads, uploads and their cancellation over `Streams` | `download`'s and `receive_upload`'s loops, `place`, `TransferCancel::cancel` |
| `GitWatcher` | the watcher's worker, its callers and the file system | an action per message of the worker and per deadline; a scan starts with what it was asked, reads the repository outside the lock and reports later |
| `StreamLink` | `LinkState` and the threads around it | each locked section is an operator; the dial in between is a step of its own per caller, and the keeper's loop a program counter |
| `InputQueue` | writers, the VT, the writer thread and the stop of one terminal | the channel is a sequence; permits, bytes, reports and the reply token are counted beside it, as in the code |
| `SessionTree` | the Session as a record and each command as a function from a Session to a result | a split is a node of a recursive tree; a refused command returns the Session as it was |
| `AgentDetector` | the pure detector | process table, hook report and program status in, a status out |
| `AgentControl` | `ServerState`'s agents, probe thread, hooks, connections and the tick | an action per handler; `probe` holds what was polled before the lock was taken; what is typed into a shell is history |
| `Supervision` | Supervisors, Servers, commands, the bind lock, the socket path | program counters per process; a socket is its inode number |
| `DeviceConnection` | one Device of the GUI, the Servers at its addresses and the network | `gui` is the Device's record in the GUI; each operator that takes `c` is a method that changes it, and the actions are the handlers, timers and threads that call them |
| `FileEdits` | one window's Preview Tab over one connection, the Server's files, other Clients and programs | an action per handler of the window and of the Server's mutation threads; a file's content is the number of the version written |
| `ClientRequests` | what connections share, and the stop of the Server | `seats` are the connection threads, each with what it is about; a worker's answer and a file's write are steps of their own |
| `Pairing` | Devices, invites and revocations over one store, on TCP and Peer-to-peer | files are what the disk holds; handshakes, registrations and commands are program counters, and the lock names its holder |
| `Companion` | the phone: its Devices, threads and the app's leaving and returning | an action per call and per late result; what a thread took before it let go of the lock is part of it |
| `Pushes` | pushes of one Server to its phones | an action per notice, post and answer |
| `Induction` | lemmas: induction over numbers, and what it gives for functions defined by recursion | |
| `EventStreamProofs`, `SessionStoreProofs` | theorems about the module of that name | |
| `ServicesProofs` | theorems about `ClientWriter`, `Supervision` and `GitWatcher` | |
| `StreamsProofs`, `TransfersProofs` | theorems about `Streams` and `Transfers`, the second about the files | |
| `PanesProofs` | theorems about `InputQueue` and `ClientRequests` | |
| `DevicesProofs` | theorems about `Pairing`, `Pushes` and `Companion` | |
| `MC*` | the worlds the checker looks at | |

`EventStream` uses `WriterQueue`'s operators, `TerminalRender` has its own
writer with a slot, `Transfers` extends `Streams`, which extends `StreamState`;
`AgentControl` uses `AgentDetector`.
The modules meet where the code's layers do: the event stream takes from
`ClientWriter` that nothing is lost in silence, the render stream takes from
both that a lag is followed by a Bootstrap, and a prompt to an agent is a
submission to an input queue that may refuse it.

`MCServices`, `MCPanes`, `MCClients` and `MCFiles` put components side by side that share no state: each
initial state gives one of them something to do, and the others rest, so the run
is the sum of their worlds and not the product. `MCServices` has the connection's writer,
the Git watcher, the link, the Supervisors and a Device; `MCPanes` has what the Server keeps
for its Panes: an input queue, the tree, the agents, and what connections ask; `MCClients` has what
Clients see of a Server: the event stream, pairing, a phone, and the pushes to it; `MCFiles` has what a window does with files:
the Preview Tab's editor in the twenty-one small worlds of `MCFileEdits`, each with a few kinds of acts,
and the Streams of a connection in the eight of `MCTransfers`. A property of such a run is a conjunction
of the components' own, which section 4 names.

### Choices in the models

*Event stream.* The end of a connection is one step for both ends. A Layout
command of a lost connection goes on as a change of the Server's. The Session id
does not change, so a cursor is never of another Session or ahead. A Bootstrap
takes `BootstrapSize` units and everything else one. A Settings record, chosen
in `Init`, says how long the history gets, how many gaps, Layout commands, failed
Bootstraps and lost connections there are, and which Clients take part: one run
covers several small worlds.

*Render stream.* What a view holds is its terminal and revision. A delta's base
is compared by revision, as in the program; the model remembers the view as well
and can tell when they disagree. A frame in chunks has two. Panes do not close.
A fenced subscriber stays until its Bootstrap is finished.

*Session store.* The rest of the Session is a version. A path that is used
again is another Worktree. A refusal by the parent Workspace, by a limit or by a
terminal that does not start is one nondeterministic refusal; a removal that
fails halfway leaves the checkout `broken`. Taking the persistence out of the
runtime and telling its worker to stop is one step. Layout commands that do not
run Git hold no operation guard but look at the stop under the lock, as in the
code. Panics inside an operation are not modelled.

*Streams.* Bytes are counted; a chunk carries the offset it starts at as
history. A writer takes a frame and writes it in one step, the frame in its hands
being the last one the transport has room for. `shuts` says whether shutting the
transport down wakes a blocked reader at both ends; where it does not, the other
end hears `Close`, which may be lost only when the transport has ended or the far
reader is gone. A heartbeat that is not answered is a transport that breaks.
Frames and targets that this build never sends are left out.

*Git watcher.* A repository's state is a number that changes; a fingerprint is the
number it was taken at. Deadlines are there or not: when one fires is not said,
only that it may, and under fairness must. A change tells whether it touched refs, a file
or an ignored one; of a path that is all a scan asks for. `heard` is history: a terminal
of the Workspace wrote after its refs last moved.

*Stream link.* A dial takes any time and ends in a connection, a failure that may
be tried again, or a refusal. How long the backoff is does not matter.

*Session tree.* Ratios are in tenths and the area a Tab is drawn in is a square of
`Side` cells: both are small, and large enough for splits that no longer fit. Stable
identifiers are counted up to `MaxStableId`. Names and paths are left out.

*Agents.* One agent of each kind per Pane; hook reports carry a kind, a status and
whether the conversation is known. A restart gives the Pane another terminal
instance; deadlines are there or not.

*Supervision.* Time counts for the restart window only. A socket path holds the
inode a Server bound, so that a Server that unlinks the path of its successor can
be told from one that unlinks its own.

*Device.* A connection is what the Server sent on it and the GUI has not read, and what the
GUI said. A generation is the least number that nothing around still has, since the
code's never come again. Time is whether the deadline has passed; a Server is up, stopping
or down, and one that is down is started again. Several windows share a Device, and one
Device stands for all. `DeviceFairness` gives no thread to a person. A link is open or not:
how it dials is `StreamLink`'s.

*Requests.* Two connections and two Panes. What is typed, drawn or read is left out; a button
is held or not. An image is staged under the life of the Server that staged it. Settings
are versions. An operation that is under way is counted, as in the code, and what it does
is `SessionStore`'s.

*Pairing.* A key is its owner; a credential is the invite's number or a Device. A handshake is
one step at each end with the answer on its way between them. The store's lock is held by one
process and freed by its death; reads of a file that is being written are `Pairing`'s, of the key file
they are not (20 below). Time is whether an invite has aged.

*Companion.* One or two Devices; a dial is a thread that ends in a connection, a failure or a
refusal. A Pane's frames are whether they are asked for. An address is paired again only where the
setting says so (`again`, false in `PhoneOnceSpec`): see 18 below.

*Pushes.* One push at a time is posted; the Cloud takes it, refuses it, or is not heard.

*Editor.* One connection, one Workspace and one Preview Tab per window. The Server's
write truncates its file and then fills it; whoever reads in between finds it `Torn`, and a
write that fails leaves it so. Request ids are used again after twelve. Quitting the
program, and Layout commands that are dropped while a projection is awaited, are
left out.

## 3. The runs

| run | question | distinct states |
|---|---|---|
| `clients` | Clients through gaps, expired cursors, overflows and lost connections; Devices that pair, are revoked and dial; a phone that comes and goes; its pushes: does every Client's model go through the Server's Sessions in order and catch up, does nobody get in who should not, is the phone's picture its connection's? | 301 000 |
| `stream_gui_lag` | The same window when it asked for a Bootstrap itself: **it may wait for ever** | |
| `render_lives` | GUI windows and Companions with chunks, visits, overflows and restarts: is what is shown always something a terminal drew, and current in the end? | 632 000 |
| `store` | Two connections, a Worktree, two lives, failing writes and Git, a stop or crash at any step | 272 000 |
| `store_split` | A Pane is split off during a removal: **its terminal runs in the checkout being removed** | |
| `files` | Typing, saving, renaming, questions, other Clients and programs, lost connections, overflows that drop answers: is unsaved text kept, and nothing overwritten that was never shown? Forwards, downloads and uploads: do they arrive whole or not at all, and end? | 473 000 |
| `streams_cancel` | A download is cancelled near its end: **a truncated file is put in place** | |
| `services` | A connection's writer, a Git watcher, a GUI's link, Supervisors, a Device: is anything lost in silence, does anybody sleep for ever, are there two Servers or none, does a Device come back? | 196 000 |
| `panes` | An input queue, the Session's tree, the agents of a Pane, what connections share: does what they count and point at stay true, does a gone connection hold nothing, and does everybody get an answer? | 165 000 |
| `panes_ended` | A probe polled before the shell ended: **the exited Pane has an agent again** | |
| `editor_disconnect` | A window disconnected by hand during a save: **the save is under way for ever** | |
| `editor_overflow` | A window whose queue overflows with the answer to a save in it: **the save is under way for ever** | |

### Bounds, and why they are enough

- `clients` and `stream_gui_lag`: the history holds two events and the queue two frames while up to
  five changes happen, so cursors expire, Bootstraps overflow, and events come
  before, during and after every fence. Two Clients are the smallest case where
  one's Layout command is the other's event. Pairing has two Devices, two invites and two
  commands, of which one may be killed: the smallest case in which two redeem the same
  invite, or one redeems while another is revoked. The phone has two Devices only where one is
  forgotten or connected while the other is; three calls of the app's and two losses. Two
  notices of a Pane, of which one waits while the other is posted.
- `render_*`: two Panes, up to two revisions after the first. A Pane that is left
  and shown again, a chunked frame that is interrupted, a restart and a lag are each in one
  of the worlds; a restart with a Bootstrap, and a lag with a second Pane, are not combined, and of
  two Panes one draws.
- `store`: one Worktree and two connections, so that one operation meets
  another's commands, a monitor, a stop and a crash; two tries per write, two
  versions of the rest of the Session, two lives. Operations on two Worktrees at
  once are covered only by the theorems.
- `files`, its Streams: a window of 8 and chunks of 4 make the quarter at which credit is
  announced 2, and the portions of 3 do not divide it; ten bytes exceed the
  window. Two Streams share the line and compete for one place; the transport
  holds one frame each way.
- `services`: the writer's queue takes two items and three units, frames one and two
  units: an overflow by count and one by size, each with a frame of the other holder
  before and after it. The watcher has two Workspaces, of which one storms while the other
  is quiet, and two changes that wait before it counts as a storm. Two callers of a
  link are the smallest case in which one dials for the other. Supervision has three
  processes and two commands: two Supervisors, or one and a Server whose
  end it has not seen, each restarting at most twice in a window of three. A Device has two
  addresses, one forwarded port and one transfer at a time (four in the code), so that a
  second one waits; each of its worlds has four or five things that happen, a sleep, two
  wakes and a crash, or two edits, a crash and a removal.
- `panes`: two threads with two places for user input and one for control reports,
  three bytes pending; two Workspaces, three Tabs and four Panes, three deep, with
  up to six commands, a restart among them; two connections that ask, two kinds of
  agents, two misses before a probe believes them, two hook reports; two connections
  with two Panes, of which each world lets each do two or three things, with a stop or a crash and another life.
- `files`, its editor: two files; each world has two or three of the acts it is about (a save and a
  rename, a lost connection and a retarget, ...), so that a second act meets the
  reply to the first. Saves and renames meet an overflow, alone and with a write of another
  program, another Client, another file shown, the Tab closed, a second save, an undo and
  a connection that is lost afterwards and so gives up what the overflow left.

`CHECK_DEADLOCK FALSE` stands in every configuration: the bounds end the changes,
and a system at rest, or stopped, is a state the program is really in. What must
not stop is stated by the liveness properties.

### Fairness

Weak fairness is given to what a thread does without waiting for anybody's will:
the writer threads, readers, the Server's own steps of a request it has taken,
the persistence worker as a whole (no write has to succeed), operations that
have been approved, stops, the reaping of a terminal that ended, the threads of a
transfer; the steps of the Git worker and of the scans it started; each thread
that dials, and the link's keeper; the GUI's loop, timers, dial and transfer threads and
the Servers that a Supervisor starts again; the input queue's writer thread and the writers
that have a permit; Supervisors, Servers that have started, and commands. Of the editor and the
Streams `files` asks for less, that something goes on while something can: the redraw that
synchronises the editor, the questions, the reader and the Server's mutation threads
(`EditsMoveOn`); both ends' readers, writers, workers and transfers (`StreamsMoveOn`).
The agents' tick and probe are fair as well; the probe may skip the process table
when a hook has named the agent, but not for ever (`SF` on the poll that looks).
No deadline of an agent's wait need be reached. A phone's threads, the handshakes' steps once begun,
and the task that posts pushes are fair; commands that hold the store's lock run on unless they are killed.
None is given to people, networks and disks: changes, commands, gaps,
lost connections, writes of forwards, resets, cancels, closes, crashes and starts
may never happen. `FilesSettle` says of all saves, questions, Streams and transfers together that
what is unfinished does not stay unfinished; since each world is bounded that is
at least what the property says of each.

## 4. What holds

- *Client writer.* `StreamIsHonest`: between two frames a Client reads none is
  missing without the notice that says so, and a lagged queue ends in the notice.
  `QueueIsExact`: bytes and items are counted exactly, and a closing frame is the
  last. `NoLostWakeup`. `WriterSettles`: the thread ends and every receipt is answered.
- *Event stream* (`StreamIsSound` is this and the next). `StreamIsInOrder`: what a Client has, what is on its way
  and what is deferred lead exactly to the Server's sequence; the answer to a Layout
  command does not overtake the change it confirms; behind a lag notice no event comes
  ahead of the Bootstrap.
  `NeverSilentlyStale`: a Client that believes it is subscribed and no longer is
  will be told. `ReplicatesSession`: the stream implements
  `ReplicatedSession`. `Converges` (of `ClientsSettle`): every Client catches up, where nothing asks while
  a GUI window's queue may overflow.
- *Render stream* (`RenderIsSound`). `SettledIsCurrent`: with nothing on its way and no wake-up
  pending, the Client shows the newest view of every Pane it watches.
  `BootstrapsSuffice`: a reader that drops frames until the next Bootstrap will
  have one, and going from Pane to Pane never asks for one.
  `MirrorsScreens`: the stream implements `ScreenMirror`. `BecomesCurrent`: once
  the screens stop changing the Client comes to show them.
- *Session store.* `UnsavedIsQueued`: the newest Session waits, is being written
  or is on disk. `CleanStopKeepsAll`: a clean stop loses nothing.
  `WritesGoForward` and `ForeignIsKept`: the file never goes back, and is not
  destroyed when it could not be restored. `CheckoutsAgree`: a removed checkout's
  Workspace is closed and every checkout that was made has an owner.
  `TerminalsComeBack`: the Panes of a removal that failed have their terminals
  again, whichever step failed. `StopsAndWritesEnd`: a stop ends, and every queued Snapshot is tried.
- *Streams.* `EndsAgree`: no end, obeying the code, makes the other call a
  protocol error; who hears a Stream's end got every byte; a sender without credit
  has some coming, or the reader has something to read; and who uses
  a Stream that the other end has given up hears of it. `TransferIsWhole`. `StreamsEnded` (of
  `FilesSettle`): what is written is read, and every transfer ends, done or failed.
- *Git watcher.* `QuietIsFollowed`: once all is quiet the Server watches just the
  Workspaces of its Session. Where the last scan did not fail it knows their refs if a
  terminal wrote after those moved, filesystem watcher or not. With one that refused nothing it
  knows refs and files, unless the last window of nothing but ignored paths was skipped
  with paths dropped, and has told its Clients of the last change of the files, unless
  paths were dropped since. `WatcherSettles`: it comes to rest, and a stop ends the worker.
- *Stream link.* `LinkIsKept`: a link that somebody uses, that is not refused and whose
  terminal connection is up comes back after every loss; nobody waits in it for ever,
  and no connection is left behind that nobody has.
- *Supervision.* `SupervisorIsSound`: the socket path names the Server that runs; what
  a command says is stopped is gone and does not come back; there are never more than the
  allowed restarts within a window, wherever it begins, and none is given up with fewer.
  `SomeoneServes`: crashes that may be followed, restarts and starts end with a Server
  that serves, however they fall together.
- *Requests* (`RequestsAreSound`). One terminal at most thinks that it is looked at, and it is the
  one the Server says so of (`OneHasTheFocus`); what waits to be seen is not being looked at
  (`SeenIsNotUnseen`); who has gone holds neither focus nor sizing nor the mouse (`NobodyGoneHolds`),
  and no button stays pressed with nobody to release it (`ButtonsAreReleased`, see 16); every terminal
  has the colours given last (`ColorsAreEveryones`); a staged image goes with its connection or was left
  by a Server that crashed, and is pasted into the terminal it was meant for
  (`ImagesGoWithTheirClient`); and with no write under way Clients were told what is in the settings'
  file (`PrefsAgree`). Apart from these, a stop is not held up by workers or disks
  (`StopGoesThrough`: while the Server stops, something that it does itself can be done).
- *Pairing* (`PairingIsSound`). An invite lets one Device in, unless the Server stopped between two writes (17),
  and goes only by being used or replaced (`InviteIsForOne`); the list holds who was let in and not
  revoked, and a revoked Device is served no longer than its revocation takes (`RevokedStaysOut`);
  a dial that nothing disturbed, of a Device that was listed when it dialled, gets in
  whatever invite it still carries (`NobodyIsStranded`). Dials end and the lock is let go (`PairingRests`).
- *Companion* (`PhoneIsSound`). What a Device is said to be is what its last connection came to
  (`LateChangesNothing`, but for 18); each Server has the Pane on screen as watched, focused and sized
  (`ServersSeeThePhone`); in the background nothing is connected but by a call that was under way
  (`BackgroundIsQuiet`, see 19); and every Server was told whether pushes are wanted (`PushIsTold`).
- *Pushes.* `PushesAreInOrder`: a late push is never posted behind a newer one of its Pane, nor tried
  again while that one waits, nor posted more than twice (but see 21). `NewestIsPosted`: the newest is.
  With `PairingRests`, `PhoneRests` and `Converges` that is `ClientsSettle`.
- *Input queue.* `InputIsSafe`: every permit that is out is that of an input there is; who has
  a permit finds room, so no kind of input crowds another out, and the replies' token
  always has its place; replies arrive in order, none missing, and a submission's
  Enter comes right behind its text. `InputDrains`: everything accepted is written or
  the writer has ended, and then no permit is out. With `AnswersComeDue` and `ForgetsTheDead` below it is `PanesSettle`.
- *Session tree.* `TreeIsSound`: the Snapshot passes every check of a restore and gives
  the same Session but for zoom; closing Panes goes back to the one used last; a resize
  key moves one divider, of its axis and its way, and the Panes at either side of it move the same one.
  `StepsAreExact`: what a command says it closed is all that it closed, and it is gone;
  an identifier that is given out is new, also after a restart.
- *Agents.* `ConversationsReturn`: the conversation kept for the next start is the one the
  running agent named last, even if only its terminal had heard it; and a restored
  conversation and a clone's command are typed at most once, and never into a terminal that
  replaced the one they were meant for. `AnswersComeDue`: a wait that is met, or whose
  agent or terminal is another, is answered whatever its deadline. `ForgetsTheDead`: once
  only the shell runs the Clients are told that the agent is gone.
- *Device.* `DeviceIsSound`: a Device that says it is reconnecting has a timer; what it is
  connected to is the address given last, and not the Server that said it stops; a probe
  ends only the connection it was sent on; the link knows whether its Device is connected,
  and forwards are on the link of their Device; no transfer waits while another could run.
  Three exceptions are 12 to 14 below. `DeviceSettles`: a Device that was connected and is
  left alone is connected in the end, however its Server crashes, stops and restarts and its
  connections break or fall silent before the deadline; dials, forwards and transfers end.
  `ServicesSettle` is `WriterSettles`, `WatcherSettles`, `LinkIsKept`, `SomeoneServes` and `DeviceSettles`.
- *Editor* (`EditorIsSound` is this and the next). `TextIsKept`: text that was typed is never lost without the person's word.
  `PreviewIsSound`: with nothing on its way the Preview Tab shows its file as it is, or
  unsaved text; and every save and rename that is under way will be answered, but for those
  whose answer an overflow dropped (5 below).
  `NothingUnseenIsReplaced`: a save that names a version replaces only what the editor
  showed of that file or saved to it. `EditsSettled` (of `FilesSettle`): every save is answered or
  given up, with the same exception, and every question comes before the person.

Every property also fails when a definition it depends on is changed as a mistake
in the code would change it: the modules keep one such definition for each property,
marked "Broken:", before the one it replaces, and `mutants` in `PROJECT.json` pairs them.

### Disagreements with the program's own words

Shown by a run:

1. `stream_gui_lag`. `request_snapshot_for` (`condr-gui/src/app/server_connection.rs:488`)
   does not ask while a Bootstrap is awaited; when an overflow has discarded that
   Bootstrap nobody asks again. ADR 0004 rests on "the client always re-acquiring
   after a rejection". The Companion clears its flag first and recovers.
2. `store_split`. ADR 0005 stops a Workspace's terminals "before invoking Git"; a
   Pane split off by another connection after that is not stopped.
3. `streams_cancel`. `Stream::read` (`condr-client/src/streams.rs:448`) reports a
   Stream's end before its failure. A cancelled download whose `Finish` was
   already on its way takes the end for the end of the file and places what it
   has; `transfer.rs` promises "placed only once complete". A forward that is
   reset reads a clean end in the same way.
4. `panes_ended`. A probe that polled before the shell ended commits after
   `end_terminal` (`server/terminal_monitor.rs:304`) put the ended terminal back
   under its instance id, and publishes the agent again on an exited Pane;
   `terminal_state.rs:162` says the Pane's terminal ended "and its Agent with it".
5. `editor_disconnect`. `disconnect_server` (`condr-gui/src/app/server_management.rs:295`)
   does not call `forget_file_saves`, which `file_edits.rs:406` promises for a
   connection that dropped.
   `editor_overflow`. An overflow drops the queued answers to saves and renames
   (`server/client_writer.rs:287`), and the Bootstrap that recovers the window on the same
   connection (`events.rs:22`, `clear_pending_requests` in `files.rs:1461`) forgets neither:
   only `mark_disconnected` does. `saving` stays set, so every later save of the Tab is
   dropped (`file_edits.rs:294`) and no read is taken over (`files.rs:1249`); the Tab of a
   renamed file waits for the rename (`file_entries.rs:72`), and text whose Tab is gone is not
   asked about again, until the connection is lost. ADR 0004 rests on the client
   "re-acquiring after a rejection rather than on every response arriving". `FileEdits` keeps
   the numbers of such answers in the history `dropped`, and the properties of `files`
   except the saves and renames they belong to, and nothing else.

Found while modelling, and reached by the modules when a bound or constant is
changed as said:

6. `install_terminal` (`server/terminal_state.rs:75`)
   marks a new terminal pending for every subscriber, where ADR 0041 says "only
   watched Panes". The Companion ignores the frame and the Server remembers it as
   shown: with `UnwatchedStart` among the `Lives` of `MCTerminalRender`,
   `SettledIsCurrent` fails.
7. When a foreign Snapshot cannot be moved aside the failure is
   logged (`recovery.rs:72`) and the next save overwrites the file that ADR 0028
   designs for "never destroying": with `RenameMayFail = TRUE`, `ForeignIsKept` fails.
8. The editor's replies are matched by Tab and key, not by file: a save's `Done`
   may be applied to a Tab that shows another file meanwhile (`file_edits.rs:387`), a
   conflict dialog acts on the Tab and not on the path it names, `ask_unsaved` decides
   when it opens whether saving is possible, Don't Save leaves its text shown as
   clean when the action comes to nothing, and `FileMutated` notifies without
   building the view again (`events.rs:821`). `FileEdits` records these in the
   history flags `crossed`, `misapplied`, `skipped` and `behind`, and the properties
   of the editor except them.
9. Agents: a prompt that waits may be answered Ready although only the conversation
   or a detail changed, or by a report queued before the prompt (`agents.rs:632`); a
   wait on a named launch that is pending lingers to its own deadline when the name
   expires; keys may reach the shell between the check that it is ready and the
   submission; `Done` followed by `Done` within a tick is not seen; a removal that fails
   keeps its reference for a resume.
10. Git: a change that falls into an overflow window stays hidden until the next one; a
    linked Worktree's directory is subscribed to late.
11. `forward.rs`: the status of an older connection may overwrite a newer one's.
12. A restart that is answered in its dialog when the Device was disconnected meanwhile sets a
    deadline and no timer (`server_management.rs:57`), so the Device says it is reconnecting
    until something else happens to it; `:309` clears the deadline for that very reason.
    A restart whose answer an overflow discards leaves its deadline standing as well, and a
    loss after it has passed is not retried. `DeviceConnection` has `mistimed` for the first.
13. A forward that is being made when its Device is disconnected or moved is kept on the old
    link when it is answered (`ports.rs:271`), although `server_management.rs:300` says that
    nothing restores them (`late`).
14. A connection whose thread cannot be started leaves the link told that it is up
    (`server_management.rs:207`, `threadless`). A late Pong answers a newer probe, since each
    has the nonce 0 (`events.rs:919`).
15. A stop during a restarted Server's wait for the bind lock waits up to thirty
    seconds (ADR 0058).

16. A button that one Client presses and another then moves the mouse over is released when the
    second leaves, not the first: `mouse_client` is the last to use the mouse, where
    `terminal_state.rs:4` says of a Client that disconnects "its held mouse button released". A terminal that comes
    back after a removal that failed is not told that its Pane has the focus. `MutateFile` renames
    are followed outside the lock: of a to b and b to c, from two threads, the first may be followed last.
    A restart whose command never sends `StopServer` leaves a Server that refuses everything until
    that connection goes. The sweep of staged images is every Server's of the user.
17. The invite is removed after the Device is listed (`noise/identity.rs:196`): a Server that stops
    between the two lets a second Device redeem it.
18. `companion.rs:76` says of the generation: "Bumped by every connect, suspend and forget, so a
    late result of an older connection changes nothing." A Device that is paired again, forgotten before or not, is
    made anew, with generation 0 (`companion.rs:301`). Its next connection has generation 1, as the first one had, so
    the result or the end of that one is taken for its own. With `again` true and one pairing TLC finds it
    in eight states (`LateChangesNothing`): the first connection is still being made when the second
    starts, and then is the one the Device has.
19. `connect` does not ask whether the app is suspended, and `pair`, `resume` and `set_push` let go
    of the lock before it: a Device may be connected behind the screen. A suspension that the app
    started as a task may run after the next resume. A node taken before a suspension is dialled after it was closed.
20. The key file is made and then written, so that another process may read it empty; on TCP a Server that
    exits in mid-handshake reads as refused, which the Companion shows as revoked. A Device whose cancelled
    dial redeemed the invite gets one failed attempt more.
21. A push that timed out may still reach the Cloud, after the newer one that followed it.

## 5. What is proved

TLAPS proves the following for every value of the constants, under the modules'
own named assumptions (the limits of a queue are natural numbers, a write is tried at
least once, Supervisors and commands are different things, and so on).

*`ServicesProofs`*, of `ClientWriter`: `TypeCorrect`, `WakeupsReachTheThread`
(`[]NoLostWakeup`), `NothingIsSilentlyLost` (`[]NoSilentGap`), `LagIsAnnounced`
(`[]LaggedSaysSo`) and, of both, `StreamsAreHonest` (`[]StreamIsHonest`), for any
holders, frame sizes and limits. `NoSilentGap` is not
inductive: discarding the queue must leave the notice as its last word, and no
frame may be accepted behind it. The invariant is
`StreamInv == TypeOK /\ NoSilentGap /\ LastWord /\ LaggedSaysSo`, where `LastWord`
says which number the last thing queued stands for. `NoLostWakeup` needs the
types only. `QueuesAreExact` (`[]QueueIsExact`) has two halves. The byte count is
the sum along the queue: `SizeOf` is a recursive function, and lemmas from
`Induction` say what appending to a queue and taking its head do to it. That the
closing frame is the last needs `ClosingInv`: once it is queued nobody may
send, nothing but it waits, and its receipt says delivered only when the Client read it last.

*`EventStreamProofs`*, for any number of GUI windows and Companions, any limits of history and queues and any number
of changes, losses and commands:

- `StreamStaysSound` (`[]StreamIsSound`). Its parts speak of whole queues, so none
  is inductive. The invariant `StreamInv` has two halves. `Base` is types, that the
  history is the end of the sequence, and `Locks`: who is fenced has a capture under way and
  only events deferred behind it (`FenceOk`), what the loop under the state lock may still have
  to send (`LoopOk`), and what a Client that is down or connecting cannot have (`PhaseOk`).
  `Chain` is about the messages from wire to deferred frames, read as one
  sequence: `Behind` (no message is newer than the Session, no Bootstrap older than what its Client has),
  `Cursors`, and, unless the connection is about to be closed, `Flows`: reading the
  chain takes a subscriber to the Server's sequence, tells one that was dropped so, has a Bootstrap after every
  notice that is followed by anything, and has each Layout response behind its event. `Flows`
  says that of a response not yet sent as well, from the place on where it may be
  inserted (`Confirmed`): that is what makes it inductive, since the thread that answers takes the
  lock again after others have sent.
- `StreamReplicates` (`ReplicatesSession`): the stream implements `ReplicatedSession`,
  from the same invariant. A Client that takes an event takes the next one after
  what it has; the versions that are offered to it as Bootstraps come into the chain
  only where they are captured, at the Server's sequence, and leave it when they are read
  or discarded; every other step is a stutter.
- `StreamInvHolds` (`[]StreamInv`).

*`SessionStoreProofs`*: for any connections, monitors and Worktrees,

- `TypeCorrect`; `NoChangeIsForgotten` (`[]UnsavedIsQueued`) and `StopsKeepAll`
  (`[]CleanStopKeepsAll`) from `SaveInv`: to `UnsavedIsQueued` it adds that the
  operations and monitors have ended when the persistence is taken (`Drains`),
  that the worker lives as long as the Server (`WorkerLives`), that it ends with
  nothing queued (`EndsEmpty`), and what the file is while a Snapshot is written
  (`Places`);
- `NoOldSnapshotReturns` (`WritesGoForward`) from `Versions`: what waits is newer
  than what is written, and that is newer than the file;
- `ForeignFilesSurvive` (`ForeignIsKept`), assuming that files can be moved aside
  (`~RenameMayFail`), which is needed (7 above);
- `RemovalsAreClosed` (`[]RemovedIsClosed`) from `TreeInv`: a Worktree's checkout
  is made before its Workspace, and no two operations have the same one;
- `CheckoutsHaveOwners` (`[]NoOrphan`) from `OrphanInv`, which adds to both where
  every checkout that was made can be (`Accounted`) and that a Session is lost
  only through a write that failed or a crash (`FailureIsLoss`, `FirstLife`); with
  the one before it, `SessionAndCheckoutsAgree` (`[]CheckoutsAgree`);
- `TerminalsAreRestored` (`[]TerminalsComeBack`).

*`ServicesProofs`*, of `Supervision`: for any Supervisors, commands and settings (of crashes,
kills, failures and timeouts), `ProcessesAreSound` (`[]SupervisorIsSound`) from
`SuperInv` (`ProcessesInv`):

- that the path names the Server that runs needs to know that a Server holds the lock exactly
  while it says so, commands that poll it included (`BindLock`), and that
  no inode is given twice (`Inodes`);
- that what is said to be stopped stays stopped needs, for a command that has not looked
  yet, that a Supervisor whose lock it saw held never starts over, and that an orphan it saw
  is of a Supervisor that was killed and will end (`Stopping`, `Children`);
- the bound on restarts is about every restart there was, while a Supervisor
  remembers only some: `Memory` says that those are the last ones, in the order of their
  times, and that what it forgot is out of the window. From it follows
  that any `MaxRestarts + 1` restarts in a row take at least the window.

*`ServicesProofs`*, of `GitWatcher`: for any Workspaces, limit of pending paths and settings (of
changes, output, failures, panics, refusals, Workspaces that are created and closed),
`QuietStaysFollowed` (`[]QuietIsFollowed`) from `GitInv` (`GitInvHolds`). It assumes that at least
one path may wait and that `NoGit` is no pair of versions (`GitAssumption`), and that a linked
worktree is on a repository (`GitSettings`). `QuietIsFollowed` speaks of a watcher at rest, so
nothing follows from it about the next step. `GitInv` says what the watcher owes each Workspace at any
time (`Held`):

- `BookInv`: it is watched just while it is in the Session, reading the inbox to its end. If it is not
  watched, or a message that drops it is queued, one that puts it under watch comes after the
  last of those, and its refresh later still; if it is closed, a dropping message comes after
  everything that would watch it;
- `LookInv`, with or without a filesystem watcher: refs that moved before the last output are
  known, or that output will be looked at, or a scan that compares fingerprints is about to
  report them. It needs that a fingerprint is never ahead of what was reported;
- `TreeInv`, with a filesystem watcher: what differs on disk is queued, among the pending paths, in
  an overflow window, or in the hands of a scan that does not skip it (`Unskipped`); a linked worktree's
  directory is subscribed to or will be;
- `FilesInv`: the same of what the Clients were told.

A step that leaves what is on disk and what is known alone keeps the last three if it forgets nothing that
is asked for (`Kept`, and `Steady` for those that leave the worker's entry alone); the scan's
own steps discharge what they took (`Scanning`).

*`PanesProofs`*, of `InputQueue`: for any writing threads, capacities, sizes and settings,
`InputsAreSafe` (`[]InputIsSafe`) from `InputInv` (`InputsInv`):

- the code counts permits in atomics beside the channel. `Counts` says that each of
  the three counters is a sum over the threads that have a place, the inputs in the
  channel and the one in hand, and that the channel is as long as it has inputs of
  the three kinds. `InputIsSafe` speaks of how many have a permit; the sums
  are what a step changes by a number. They are the sizes of sets of cells, with lemmas
  for one number that changes, a last one that is added and a first that goes (`SizeChange`,
  `SizeAppend`, `SizeTail`);
- that whoever has its permit finds room follows from `Counts`, `Limits` and
  `Token`: at most one reply is in channel and hand, and none while no token is
  queued and input is accepted;
- `Order` gives each reply that is not written yet its number: the token's is the next,
  and the ones that wait come after it. `Last` says when a submission's text may stand last;
- dropping the channel gives back, input by input, what is in it (`DroppedReturns`, a
  recursive function once more).

*`PanesProofs`*, of `ClientRequests`: for any connections, Panes, images and settings,
`RequestsStaySound` (`[]RequestsAreSound`) from `RequestsInv` (`RequestsInvHolds`):

- `DeskInv`: a terminal that was told it is looked at is the one with the focus, what waits to be seen
  is not, a pressed button has its holder, and focus, sizing and mouse are of connected Clients;
- `ImagesInv`: an image on disk is held by exactly one connection, staged or on its way to the
  terminal it is meant for, or it is of a run of the Server that crashed: a connection
  that ends takes all of its images along, and none of another's;
- `StopsInv`: the Server is gone only when every connection is, with its images;
- `PrefsInv`: one connection at a time takes the settings from what was published to what is
  written and published next, so that the file and what Clients were told differ by the write that
  is under way.

*`StreamsProofs`*: for any window, chunk, number of Streams, transport and setting,
`ConnectionsAgree` (of `Streams`, whose holders do whatever they like with their Streams: `NoProtocolError`,
`FinishMeansAll`, `CreditComes`, `GivenUpIsHeard`) and `EndsAlwaysAgree` (`[]EndsAgree`, of
`Transfers`, whose threads hold the Streams they use). The four are about two tables and four queues between them, and none is inductive. `SInv` says:

- `Local`: an entry is sane. What is unread follows without a hole on what was consumed
  (`Unread`), the announced limit is within `Window` of that and above it until the peer has
  finished, and an entry that is not in the table is as new;
- `Opens`: numbers are used once. The Opens on their way rise, nothing of a Stream is before its
  Open, and while the Server reads, an Open it has not heard of is on its way. From this follows that
  a frame of a Stream that was never opened is never received (`live_entry`);
- `Order`: a Stream's data keep their order through the Stream's own queue, the writer's turns and the
  transport, and its Finish is behind them;
- `Agreement`, which is about each Stream in each direction: no byte is sent beyond the
  limit (`Credits`); what is on its way has no hole, up to all that was written unless the writing end
  gave the Stream up (`Everything`); who heard the end has heard it all (`Finishes`);
  a failure is said by who gave up, and said unless both were done with the Stream (`Told`); and credit
  that was given arrived or is on its way (`Given`).

Chunks are identified by the offset they start at, so that "no hole" is a statement
about the set of them and not about the places in four queues: `Everything` asks that each begins at
what was received or where another ends. The last chunk is then found by `LeastNumber`.
`Transfers` adds that a thread which uses a Stream holds it (`Threads`).

*`TransfersProofs`*: for any of these, and any files, targets, refusals, failures and
cancellations, `TransfersAreWhole` (`[]TransferIsWhole`), from what `StreamsProofs` shows and
`WholeInv`, which ties the two ends of a transfer together:

- nothing of a Stream follows its failure on the transport (`NothingBehind`), so that a thread that
  heard of a failure has nothing more to come and does not take it for the end;
- `Heard` is what an end knows that did not give the Stream up itself: its Stream
  failed and there is nothing more to come, or it has heard the end and received all
  that the peer wrote;
- `Hearing` follows the receiving thread: its temporary file has exactly what it
  consumed, and all of it when it goes on to put the file in place. A download that a
  person cancelled is exempt: its thread does not look at the Stream again;
- a sender that says it has finished has written the whole file, and a receiver that says so
  has put one in place.

*`DevicesProofs`*, of `Pairing`: for any Devices, ways to dial, and numbers of dials, invites,
revocations, kills, crashes, cuts and faults, `PairingStaysSound` (`[]PairingIsSound`) from
`PairingInv` (`PairingInvHolds`). It assumes of the constants only that the two names that may hold
the lock beside a connection's number are no numbers and not the same (`PairingAssumption`):

- `StoreInv`: the lock is held by the one thread that is completing a pairing, or by the command that is
  making an invite, or by nobody; what a file holds that is created and not written yet is known;
- `InvitesInv`: a thread that has the lock has the invite of the file. So an invite that was redeemed
  is gone from it, or the thread that redeemed it is about to remove it, or was interrupted
  (`Redeemable`), and one that is gone was redeemed or replaced (`GoneForAReason`). Invites are
  numbered as far as they are counted (`Numbered`);
- `RevokedStaysOut` is inductive with these, for a thread reads the list again at the step that
  registers it (`Admit`);
- `DialsInv`: an attempt has a connection exactly while it talks, and a calm one has a connection that is
  `Smooth`: not shut, without an invite to redeem, its keys those of a Device that is listed, its thread
  not past what the Device said. `Smooth` names no refusal, which is why the one retry without an invite
  ends well. Whatever comes between (`Disturbed`) ends the calm; what happens to other connections does
  not (`OthersDials`).

*`DevicesProofs`*, of `Pushes`: for any Panes, phones, limit of recipients and numbers of alerts and
faults, `PushesGoForward` (`[]PushesAreInOrder`) from `PushInv` (`PushesInv`). The order of
posts is not inductive: it needs that everything in channel and queue is newer than what was
posted of its Pane (`Waits`), that equal posts are neighbours (`Forward`), and that the
push that is posted is the last post, the only one of its number until it is tried again
(`AtLast`). `take_queued` is a recursive function along the channel (`TakeQueuedType`).

*`DevicesProofs`*, of `Companion`: for any Devices, Panes, settings and numbers of calls, losses and
messages, where no address is paired again (`PhoneOnceSpec`; 18 above is why),
`PhoneStaysSound` (`[]PhoneIsSound`) from `PhoneInv` (`PhoneInvHolds`). It assumes that no Device and no Pane
is the name for having none (`PhoneAssumption`):

- `LastOnes` is what the generation is for: the connection of a Device is the last that was made to
  its address, and every other one has a smaller generation. So a result or an end that is applied is the
  last connection's (`LateKeeps`), and `UpHolds` turns it round: a Device is up exactly while
  its last connection is current and has not ended;
- `OthersLetGo`: a connection that is not its Device's last is cancelled or over, from which
  `BackgroundIsQuiet` follows through a suspension;
- `WatchedHolds` and `EarlyHolds`: what the Device is said to watch is what is on screen, from its first connection
  on, and a connection that is being made was given what was on screen when it started. `connected` makes up
  for what changed between (`StartedIs`), which with `ServersSeeThePhone` is inductive;
- `PushDue`: whoever was told otherwise of the pushes is still on the list of the call that tells it.

What a call tells several Servers is reasoned about as a change of the world that leaves all but
what Servers were told alone (`Retold`).

*`Induction`*: the library's induction theorems take an operator as a parameter,
which no installed prover can instantiate. The least element of a
set of numbers (`LeastNumber`, from the library's well-foundedness of `<`) is not stated that way, and
gives induction of a set (`InductionTo`), that a recursive function on `0..n` is what it is defined
to be (`RecursionDefines`), and that two which agree at every step agree
(`RecursionsAgree`). `SizeOf`, `Replayed`, `TakeQueued` and what `DropChannel` gives back are reasoned about so.

Each proof is `Init => Inv`, `Inv /\ [Next]_vars => Inv'` with a step per action,
and `Inv => P`; the facts used in several steps are lemmas. The invariants were
checked by TLC in the worlds of the runs before they were proved.

In the modules that are proved about, two fields of one function's value are updated by
`![c] = [@ EXCEPT !.a = x, !.b = y]` and never by `![c].a = x, ![c].b = y`: `tlapm` 1.4.5 hands
the second form to its SMT backend in a way that lets contradictions be proved. `FALSE` is
not provable from any action of these modules.

Only model-checked: the liveness properties, which need fairness, and `StopGoesThrough`, which
asks what is `ENABLED`, both out of the prover's reach; that
`TerminalRender` implements `ScreenMirror`; and everything about `TerminalRender`,
`StreamLink`, `DeviceConnection`, `AgentControl`,
`FileEdits` and `SessionTree`, whose trees are recursive operators, which the prover does not take.

## 6. What is not modelled

The terminal emulator, PTYs and processes are foreign code and the operating
system's; codecs, configuration and formatting are conversions without state;
SSH, the Noise handshake, TCP and iroh are protocols behind a transport that keeps
its order and may end. The command line, installation and start at login are front
ends to operations that are modelled, or I/O with a service manager. Of the GUI, drawing and
widgets, windows and views
and the GUI's state file are not modelled.

Four hazards are seen and left: a Client that unsubscribes and subscribes again
starts at generation 1 again (`subscriptions.rs:108`); a Session that never rests for
the length of the debounce is not written (`persistence.rs:197`); an upload's
Workspace may be closed between the check and the commit; and quitting the GUI with unsaved text.

## 7. Plan

Done, in this order: the queue of one connection and its proof, the event stream
with both kinds of Client, the render stream, the Session store with the Worktree
operations and its proof, Streams and transfers; then the Git watcher, the link,
Supervision, the input queue, the Session tree, the agents, the Preview Tab editor, the
Devices of the GUI with their forwards and transfers, pairing, the Companion, pushes, and what
connections ask of the Server.

Next, to model:

1. Windows and views: which window shows a Workspace, projections that are awaited, and
   what the GUI's state file brings back.
2. The view delta codec: a delta applied to its base gives the view.

Next, to prove:

1. `StreamLink`, `AgentControl`, `DeviceConnection`, `FileEdits`: their safety properties.
2. `TerminalRender`: that it implements `ScreenMirror`.
