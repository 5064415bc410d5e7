---------------------------- MODULE SessionStore ----------------------------
(***************************************************************************)
(* What survives the Server: the Session in memory, the Snapshot on disk   *)
(* and the checkouts of Managed Worktrees, over stops, crashes and starts. *)
(*                                                                         *)
(* The Session changes under the state lock and every durable change       *)
(* schedules a Snapshot (layout.rs, recovery.rs, agents.rs).  One worker   *)
(* thread writes Snapshots after a debounce (persistence.rs).  Creating    *)
(* and removing a Managed Worktree takes Git work outside the lock, by a   *)
(* thread that holds an operation guard (layout/operation.rs), and a       *)
(* Terminal that ended is reaped under such a guard (terminal_monitor.rs). *)
(* A stop refuses new operations, waits for the running ones, records what *)
(* the closed Terminals last said and flushes the Snapshot (server.rs).    *)
(*                                                                         *)
(* A Worktree is one creation of a checkout together with the Workspace    *)
(* opened on it: its directory is not used for a second one here.  The     *)
(* rest of the Session is its version, the number of durable changes.      *)
(***************************************************************************)
EXTENDS Naturals

CONSTANTS
    Clients,        \* connections; each admits one external Layout operation
    Monitors,       \* Terminal monitors, each of which may reap its Terminal
    Worktrees,      \* the Worktrees that may ever be created
    WriteAttempts,  \* SHUTDOWN_WRITE_ATTEMPTS
    RenameMayFail,  \* whether moving a Snapshot aside may fail
    MaxVersion,     \* bound on the changes a Client or a Terminal makes
    MaxStarts       \* bound on the lives of the Server

ASSUME AttemptsAssumption == WriteAttempts \in Nat \ {0}
ASSUME RenameAssumption == RenameMayFail \in BOOLEAN

VARIABLES
    phase,          \* what the Server's main thread does
    stopping,       \* ServerLifecycleState.stopping
    job,            \* the external Layout operation of each connection
    reaping,        \* the monitors inside end_terminal
    session,        \* RuntimeState.session
    shells,         \* Worktrees that have their Terminals, running or exited
    splits,         \* Worktrees where a Pane was split off and runs
    stage,          \* where the Snapshot worker is
    pending,        \* WorkerState.pending: no Snapshot or one
    deadline,       \* WorkerState.deadline is set
    ending,         \* WorkerState.stopping
    writing,        \* the Snapshot the worker holds: none or one
    attempts,       \* shutdown_write_attempts
    file,           \* the Snapshot at the path: none or one
    foreign,        \* the file at the path is one this Server cannot restore
    aside,          \* such a file was moved aside
    checkouts,      \* Worktrees whose checkout is on disk
    made,           \* Worktrees whose creation was ever begun
    kept,           \* checkouts left because their Workspace was closed
    broken,         \* Worktrees whose removal failed halfway, which is reported
    lost,           \* the Server ever crashed, or its final flush failed
    starts          \* lives of the Server so far

main == <<phase, stopping, starts>>
jobs == <<job, reaping>>
live == <<session, shells, splits>>
queue == <<pending, deadline, ending>>
worker == <<stage, writing, attempts>>
disk == <<file, foreign, aside>>
trees == <<checkouts, made, kept, broken>>
vars == <<main, jobs, live, queue, worker, disk, trees, lost>>

-----------------------------------------------------------------------------
(* Data.                                                                   *)

Snapshots == [version : Nat, managed : SUBSET Worktrees]
Empty == [version |-> 0, managed |-> {}]

\* A job that creates a Worktree makes its checkout, has it made, and may
\* commit it or has to undo it; one that removes a Worktree has validated it,
\* has its Terminals, has removed it, or must put the Terminals back.
Creating == {"make", "made", "commit", "undo"}
Removing == {"ready", "taken", "removed", "restore"}
Idle == [stage |-> "idle"]
Job(s, w) == [stage |-> s, tree |-> w]
Jobs == {Idle} \cup [stage : Creating \cup Removing, tree : Worktrees]

At(c, stages) == job[c].stage \in stages
Go(c, s) == job' = [job EXCEPT ![c] = Job(s, job[c].tree)]
Finish(c) == job' = [job EXCEPT ![c] = Idle]

(* Broken: external Layout operations take no guard.                       *)
NoReaping == reaping = {}

\* ServerLifecycleState.operations is zero.
NoOperations == reaping = {} /\ \A c \in Clients : job[c] = Idle

\* A Terminal instance is current until the stop clears them all.
Recording == phase \in {"serving", "draining"}

\* schedule_snapshot: once the worker was told to stop it takes no more.
Schedule(s) ==
    IF ending THEN UNCHANGED queue
    ELSE pending' = {s} /\ deadline' = TRUE /\ UNCHANGED ending

\* The Session with one more durable change.
Changed(managed) == [version |-> session.version + 1, managed |-> managed]
Change(managed) == session' = Changed(managed) /\ Schedule(Changed(managed))

\* Not a durable change, or one.
MayRecord ==
    \/ session.version < MaxVersion /\ Change(session.managed)
    \/ UNCHANGED <<session, queue>>

Init ==
    /\ phase = "down" /\ stopping = FALSE /\ starts = 0
    /\ job = [c \in Clients |-> Idle] /\ reaping = {}
    /\ session = Empty /\ shells = {} /\ splits = {}
    /\ stage = "ended" /\ writing = {} /\ attempts = 0
    /\ pending = {} /\ deadline = FALSE /\ ending = FALSE
    /\ file = {} /\ foreign \in BOOLEAN /\ aside = FALSE
    /\ checkouts = {} /\ made = {} /\ kept = {} /\ broken = {}
    /\ lost = FALSE

-----------------------------------------------------------------------------
(* Starting: RuntimeState::restore.                                        *)

Begin(s) ==
    /\ phase \in {"down", "stopped"} /\ starts < MaxStarts
    /\ phase' = "serving" /\ stopping' = FALSE /\ starts' = starts + 1
    /\ session' = s /\ shells' = s.managed /\ splits' = {}
    /\ stage' = "waiting" /\ writing' = {} /\ attempts' = 0 /\ ending' = FALSE
    /\ UNCHANGED <<jobs, trees, lost, file>>

\* Without a Snapshot the Session is empty.
StartEmpty ==
    /\ file = {} /\ ~foreign
    /\ Begin(Empty)
    /\ pending' = {} /\ deadline' = FALSE
    /\ UNCHANGED <<foreign, aside>>

\* A Worktree that is no longer valid loses its association, and the repaired
\* Session is scheduled.
Valid(s) == s.managed \cap checkouts

StartRestored ==
    \E s \in file :
        /\ IF Valid(s) = s.managed
           THEN Begin(s) /\ pending' = {} /\ deadline' = FALSE
           ELSE LET repaired == [version |-> s.version + 1, managed |-> Valid(s)]
                IN  Begin(repaired) /\ pending' = {repaired} /\ deadline' = TRUE
        /\ UNCHANGED <<foreign, aside>>

(* Broken: the file stays where the next Snapshot goes.                    *)
LeaveInPlace == UNCHANGED <<foreign, aside>>

\* SnapshotPersistence::set_aside renames the file; when that fails the
\* Server only logs it.
SetAside ==
    \/ foreign' = FALSE /\ aside' = TRUE
    \/ RenameMayFail /\ UNCHANGED <<foreign, aside>>

\* Whatever is not restored is set aside, and the Session is empty.
StartRejected ==
    /\ foreign
    /\ Begin(Empty)
    /\ pending' = {} /\ deadline' = FALSE
    /\ SetAside

-----------------------------------------------------------------------------
(* Durable changes under the state lock.                                   *)

\* A local Layout command, refused once the Server is stopping.
LocalLayout ==
    /\ phase = "serving" /\ ~stopping /\ session.version < MaxVersion
    /\ Change(session.managed)
    /\ UNCHANGED <<main, jobs, shells, splits, worker, disk, trees, lost>>

\* Close Workspace affects runtime state only: the checkout stays.
CloseWorkspace(w) ==
    /\ phase = "serving" /\ ~stopping /\ w \in session.managed
    /\ Change(session.managed \ {w})
    /\ shells' = shells \ {w} /\ splits' = splits \ {w}
    /\ kept' = kept \cup {w}
    /\ UNCHANGED <<main, jobs, worker, disk, checkouts, made, broken, lost>>

\* A Pane split off in the Workspace starts a shell there.
SplitPane(w) ==
    /\ phase = "serving" /\ ~stopping /\ session.version < MaxVersion
    /\ w \in session.managed /\ w \in checkouts
    /\ Change(session.managed)
    /\ splits' = splits \cup {w}
    /\ UNCHANGED <<main, jobs, shells, worker, disk, trees, lost>>

\* A probe's cwd or Agent reference: recorded while its Terminal instance is
\* current, which a stop does not end at once.
Record ==
    /\ Recording /\ session.version < MaxVersion
    /\ Change(session.managed)
    /\ UNCHANGED <<main, jobs, shells, splits, worker, disk, trees, lost>>

\* end_terminal takes an operation guard, reaps, and records the last cwd and
\* the end of the Agent.
BeginReap(m) ==
    /\ phase = "serving" /\ ~stopping /\ m \notin reaping
    /\ session.version < MaxVersion
    /\ reaping' = reaping \cup {m}
    /\ UNCHANGED <<main, job, live, queue, worker, disk, trees, lost>>

FinishReap(m) ==
    /\ m \in reaping
    /\ reaping' = reaping \ {m}
    /\ MayRecord
    /\ UNCHANGED <<main, job, shells, splits, worker, disk, trees, lost>>

-----------------------------------------------------------------------------
(* Creating a Managed Worktree.                                            *)

\* ClientLayouts::handle: one operation per connection, none once stopping.
BeginCreate(c) ==
    \E w \in Worktrees \ made :
        /\ phase = "serving" /\ ~stopping /\ job[c] = Idle
        /\ job' = [job EXCEPT ![c] = Job("make", w)]
        /\ made' = made \cup {w}
        /\ UNCHANGED <<main, reaping, live, queue, worker, disk, checkouts, kept, broken,
                       lost>>

\* create_worktree, which takes back what it made when it fails.
MakeCheckout(c) ==
    /\ At(c, {"make"})
    /\ \/ Go(c, "made") /\ checkouts' = checkouts \cup {job[c].tree}
       \/ Finish(c) /\ UNCHANGED checkouts
    /\ UNCHANGED <<main, reaping, live, queue, worker, disk, made, kept, broken, lost>>

\* approve_prepared: refused when stopping or when the parent changed.
ApproveCreate(c) ==
    /\ At(c, {"made"})
    /\ \/ ~stopping /\ Go(c, "commit")
       \/ Go(c, "undo")
    /\ UNCHANGED <<main, reaping, live, queue, worker, disk, trees, lost>>

\* commit_prepared: the Workspace opens, or the checkout must go because the
\* Server is stopping, the parent changed, or no Terminal starts.
CommitCreate(c) ==
    /\ At(c, {"commit"})
    /\ \/ /\ ~stopping
          /\ Change(session.managed \cup {job[c].tree})
          /\ shells' = shells \cup {job[c].tree}
          /\ Finish(c)
       \/ Go(c, "undo") /\ UNCHANGED <<session, shells, queue>>
    /\ UNCHANGED <<main, reaping, splits, worker, disk, trees, lost>>

\* cancel_with_reason, prepared_worktree_failure: the checkout goes, or the
\* reason says that it could not be removed.
UndoCreate(c) ==
    /\ At(c, {"undo"})
    /\ Finish(c)
    /\ \/ checkouts' = checkouts \ {job[c].tree} /\ UNCHANGED broken
       \/ broken' = broken \cup {job[c].tree} /\ UNCHANGED checkouts
    /\ UNCHANGED <<main, reaping, live, queue, worker, disk, made, kept, lost>>

-----------------------------------------------------------------------------
(* Removing a Managed Worktree.                                            *)

\* external_layout_plan and prepare_external_layout: the Workspace is managed
\* and its checkout can be removed; otherwise the request is refused.
BeginRemove(c) ==
    \E w \in session.managed \cap checkouts :
        /\ phase = "serving" /\ ~stopping /\ job[c] = Idle
        /\ job' = [job EXCEPT ![c] = Job("ready", w)]
        /\ UNCHANGED <<main, reaping, live, queue, worker, disk, trees, lost>>

\* approve_external_layout takes the Workspace's Terminals.
ApproveRemove(c) ==
    /\ At(c, {"ready"})
    /\ IF ~stopping /\ job[c].tree \in session.managed
       THEN /\ MayRecord
            /\ Go(c, "taken")
            /\ shells' = shells \ {job[c].tree} /\ splits' = splits \ {job[c].tree}
       ELSE Finish(c) /\ UNCHANGED <<live, queue>>
    /\ UNCHANGED <<main, reaping, worker, disk, trees, lost>>

\* finish_external_layout closes the Terminals and removes the checkout.  A
\* dirty or locked one is refused, and a removal may fail halfway.
RemoveCheckout(c) ==
    /\ At(c, {"taken"})
    /\ LET w == job[c].tree IN
       \/ /\ w \in checkouts
          /\ Go(c, "removed")
          /\ checkouts' = checkouts \ {w} /\ UNCHANGED broken
       \/ Go(c, "restore") /\ UNCHANGED <<checkouts, broken>>
       \/ /\ w \in checkouts
          /\ Go(c, "restore")
          /\ checkouts' = checkouts \ {w} /\ broken' = broken \cup {w}
    /\ UNCHANGED <<main, reaping, live, queue, worker, disk, made, kept, lost>>

(* Broken: a stop refuses the commit of a removal like any other.          *)
CommitRemoveUnlessStopping(c) ==
    /\ At(c, {"removed"})
    /\ LET w == job[c].tree IN
       IF w \in session.managed /\ ~stopping
       THEN /\ Change(session.managed \ {w})
            /\ shells' = shells \ {w} /\ splits' = splits \ {w}
       ELSE UNCHANGED <<live, queue>>
    /\ Finish(c)
    /\ UNCHANGED <<main, reaping, worker, disk, trees, lost>>

\* commit_prepared: a removal cannot be rolled back, so its close commits
\* even when the Server is stopping.
CommitRemove(c) ==
    /\ At(c, {"removed"})
    /\ LET w == job[c].tree IN
       IF w \in session.managed
       THEN /\ Change(session.managed \ {w})
            /\ shells' = shells \ {w} /\ splits' = splits \ {w}
       ELSE UNCHANGED <<live, queue>>
    /\ Finish(c)
    /\ UNCHANGED <<main, reaping, worker, disk, trees, lost>>

(* Broken: a failed removal leaves the Workspace without Terminals.        *)
RestoredNever(c) == shells

\* restore_failed_removal: the cwds are kept, and the Workspace gets Terminals
\* again unless it is gone or the Server is stopping.
Restored(c) ==
    IF ~stopping /\ job[c].tree \in session.managed
    THEN shells \cup {job[c].tree} ELSE shells

RestoreRemoval(c) ==
    /\ At(c, {"restore"})
    /\ MayRecord
    /\ shells' = Restored(c)
    /\ Finish(c)
    /\ UNCHANGED <<main, reaping, splits, worker, disk, trees, lost>>

-----------------------------------------------------------------------------
(* The Snapshot worker: run_worker_with.                                   *)

(* Broken: the Snapshot is copied and stays pending.                       *)
TakeCopy ==
    /\ stage = "waiting" /\ (ending \/ deadline)
    /\ stage' = IF pending = {} THEN "ended" ELSE "writing"
    /\ writing' = pending /\ UNCHANGED pending
    /\ deadline' = (ending /\ deadline)
    /\ UNCHANGED <<main, jobs, live, ending, attempts, disk, trees, lost>>

\* wait_for_snapshot: at the deadline, or at once when told to stop.
Take ==
    /\ stage = "waiting" /\ (ending \/ deadline)
    /\ stage' = IF pending = {} THEN "ended" ELSE "writing"
    /\ writing' = pending /\ pending' = {}
    /\ deadline' = (ending /\ deadline)
    /\ UNCHANGED <<main, jobs, live, ending, attempts, disk, trees, lost>>

\* write_snapshot replaces the file atomically, whatever it was.
Write ==
    /\ stage = "writing"
    /\ file' = writing /\ foreign' = FALSE
    /\ stage' = "written" /\ writing' = {} /\ attempts' = 0
    /\ UNCHANGED <<main, jobs, live, queue, aside, trees, lost>>

WriteFails ==
    /\ stage = "writing"
    /\ stage' = "refused"
    /\ UNCHANGED <<main, jobs, live, queue, writing, attempts, disk, trees, lost>>

AfterWrite ==
    /\ stage = "written"
    /\ stage' = IF ending /\ pending = {} THEN "ended" ELSE "waiting"
    /\ UNCHANGED <<main, jobs, live, queue, writing, attempts, disk, trees, lost>>

(* Broken: a failed Snapshot goes back over a newer one.                   *)
PutBackOver == pending' = writing /\ deadline' = TRUE

(* Broken: a failed Snapshot goes back without a time to retry.            *)
PutBackUnarmed ==
    /\ pending' = IF pending = {} THEN writing ELSE pending
    /\ UNCHANGED deadline

\* A failed Snapshot goes back unless a newer one waits.
PutBack ==
    /\ pending' = IF pending = {} THEN writing ELSE pending
    /\ deadline' = TRUE

\* Told to stop, the worker retries without a delay, so many times.
Retries == IF pending = {} THEN attempts + 1 ELSE 0

AfterFailure ==
    /\ stage = "refused"
    /\ writing' = {}
    /\ IF ending
       THEN /\ attempts' = Retries
            /\ IF Retries >= WriteAttempts
               THEN stage' = "failed" /\ UNCHANGED <<pending, deadline>>
               ELSE /\ stage' = "waiting"
                    /\ pending' = IF pending = {} THEN writing ELSE pending
                    /\ UNCHANGED deadline
       ELSE /\ PutBack
            /\ stage' = "waiting"
            /\ UNCHANGED attempts
    /\ UNCHANGED <<main, jobs, live, ending, disk, trees, lost>>

-----------------------------------------------------------------------------
(* Stopping and crashing.                                                  *)

\* StopServer, a restart, or ServerHandle::stop.
BeginStop ==
    /\ phase = "serving" /\ ~stopping
    /\ stopping' = TRUE
    /\ UNCHANGED <<phase, starts, jobs, live, queue, worker, disk, trees, lost>>

\* The accept loop sees the stop, or fails by itself.
LeaveLoop ==
    /\ phase = "serving"
    /\ phase' = "draining" /\ stopping' = TRUE
    /\ UNCHANGED <<starts, jobs, live, queue, worker, disk, trees, lost>>

\* wait_for_operations, after which every Terminal instance is cleared.
Drained ==
    /\ phase = "draining" /\ NoOperations
    /\ phase' = "closing"
    /\ shells' = {} /\ splits' = {}
    /\ UNCHANGED <<stopping, starts, jobs, session, queue, worker, disk, trees, lost>>

\* The closed Terminals' last cwds and Agents are recorded, and the worker is
\* taken and told to stop.  Nobody schedules between the two.
Flush ==
    /\ phase = "closing"
    /\ phase' = "flushing"
    /\ \/ session' = Changed(session.managed) /\ pending' = {session'} /\ deadline' = TRUE
       \/ UNCHANGED <<session, pending, deadline>>
    /\ ending' = TRUE
    /\ UNCHANGED <<stopping, starts, jobs, shells, splits, worker, disk, trees, lost>>

\* SnapshotPersistence::shutdown joins the worker, and run returns.
Joined ==
    /\ phase = "flushing" /\ stage \in {"ended", "failed"}
    /\ phase' = "stopped"
    /\ lost' = (lost \/ stage = "failed")
    /\ UNCHANGED <<stopping, starts, jobs, live, queue, worker, disk, trees>>

\* The process ends anywhere.  An atomic replace has happened or it has not.
Crash ==
    /\ phase \notin {"down", "stopped"}
    /\ phase' = "down" /\ stopping' = FALSE /\ lost' = TRUE
    /\ job' = [c \in Clients |-> Idle] /\ reaping' = {}
    /\ session' = Empty /\ shells' = {} /\ splits' = {}
    /\ pending' = {} /\ deadline' = FALSE /\ ending' = FALSE
    /\ stage' = "ended" /\ writing' = {} /\ attempts' = 0
    /\ UNCHANGED <<starts, disk, trees>>

-----------------------------------------------------------------------------
Start == StartEmpty \/ StartRestored \/ StartRejected

Changes ==
    \/ LocalLayout \/ Record
    \/ \E w \in Worktrees : CloseWorkspace(w) \/ SplitPane(w)

\* One step of the thread of a running operation.
Operates(c) ==
    \/ MakeCheckout(c) \/ ApproveCreate(c) \/ CommitCreate(c) \/ UndoCreate(c)
    \/ ApproveRemove(c) \/ RemoveCheckout(c) \/ CommitRemove(c) \/ RestoreRemoval(c)

Works == Take \/ Write \/ WriteFails \/ AfterWrite \/ AfterFailure

Stops == (stopping /\ LeaveLoop) \/ Drained \/ Flush \/ Joined

Next ==
    \/ Start \/ Changes
    \/ \E m \in Monitors : BeginReap(m) \/ FinishReap(m)
    \/ \E c \in Clients : BeginCreate(c) \/ BeginRemove(c) \/ Operates(c)
    \/ Works
    \/ BeginStop \/ LeaveLoop \/ Drained \/ Flush \/ Joined
    \/ Crash

Spec == Init /\ [][Next]_vars

\* Every thread of the Server goes on; nothing makes a Client, a Terminal, a
\* stop, a start or a crash happen, and no write has to succeed.
Fairness ==
    /\ WF_vars(Works)
    /\ WF_vars(Stops)
    /\ \A c \in Clients : WF_vars(Operates(c))
    /\ \A m \in Monitors : WF_vars(FinishReap(m))

FairSpec == Spec /\ Fairness

-----------------------------------------------------------------------------
(* Properties.                                                             *)

MainType ==
    /\ phase \in {"down", "serving", "draining", "closing", "flushing", "stopped"}
    /\ starts \in Nat

FlagsType ==
    /\ stopping \in BOOLEAN /\ deadline \in BOOLEAN /\ ending \in BOOLEAN
    /\ foreign \in BOOLEAN /\ aside \in BOOLEAN /\ lost \in BOOLEAN

JobsType == job \in [Clients -> Jobs] /\ reaping \subseteq Monitors

\* The worker holds a Snapshot exactly while it writes it.
Holding == writing # {} <=> stage \in {"writing", "refused"}

\* A Snapshot waits exactly while a deadline is set, until the worker is told
\* to stop.
Armed == ~ending => (deadline <=> pending # {})

SaveType ==
    /\ session \in Snapshots /\ file \subseteq Snapshots
    /\ pending \subseteq Snapshots /\ writing \subseteq Snapshots
    /\ stage \in {"waiting", "writing", "written", "refused", "ended", "failed"}
    /\ attempts \in Nat

TreesType ==
    /\ shells \subseteq Worktrees /\ splits \subseteq Worktrees
    /\ checkouts \subseteq Worktrees /\ made \subseteq Worktrees
    /\ kept \subseteq Worktrees /\ broken \subseteq Worktrees

TypeOK ==
    MainType /\ FlagsType /\ JobsType /\ SaveType /\ TreesType /\ Holding /\ Armed

\* What the file would restore.
Durable(s) == file = {s} \/ (file = {} /\ s = Empty)

\* While the Server runs, the newest Session is the one that waits, or, when
\* none waits, the one being written, or, when none is, the one on disk: a
\* failed write is put back unless a newer Snapshot waits
\* (persistence.rs:260), and no change is left unscheduled.
UnsavedIsQueued ==
    phase \in {"serving", "draining", "closing"} =>
        \/ pending = {session}
        \/ pending = {} /\ writing = {session}
        \/ pending = {} /\ writing = {} /\ Durable(session)

\* A Server that stopped and whose worker reported no error left its last
\* Session on disk: every operation and every reaped Terminal was waited for,
\* and nothing was recorded after the worker was taken (server.rs:379).
CleanStopKeepsAll ==
    phase = "stopped" /\ stage = "ended" => Durable(session)

\* A managed Workspace has its checkout, unless an operation is about to close
\* it or its failed removal was reported: a removal that began before a stop
\* is committed during it (operation.rs:163).
RemovedIsClosed ==
    \A w \in session.managed :
        \/ w \in checkouts \/ w \in broken
        \/ \E c \in Clients : job[c] = Job("removed", w)

\* As long as no Session was lost, a checkout that Condr made belongs to
\* a Workspace of the Session, to an operation that still runs, to a Workspace
\* that was closed, or its cleanup failed and was reported (ADR 0005).
NoOrphan ==
    lost \/ \A w \in checkouts :
        \/ w \in session.managed \/ w \in kept \/ w \in broken
        \/ \E c \in Clients : job[c] # Idle /\ job[c].tree = w

\* Session and checkouts agree, both ways, whatever fails in between.
CheckoutsAgree == TypeOK /\ RemovedIsClosed /\ NoOrphan

\* A Workspace whose removal failed has its Terminals again, restarted or shown
\* as exited: while the Server serves, a managed Workspace has them or some
\* operation holds them (operation.rs:251).
TerminalsComeBack ==
    phase = "serving" /\ ~stopping =>
        \A w \in session.managed :
            \/ w \in shells
            \/ \E c \in Clients : job[c] \in {Job(s, w) : s \in {"taken", "removed", "restore"}}

\* Every write puts a newer Session on disk than the one it replaces, over
\* crashes and restarts too: no Snapshot is written twice and none after a
\* newer one (persistence.rs:212).
WritesGoForward ==
    [][\A old \in file, new \in writing : stage' = "written" => old.version < new.version]_vars

\* A file this Server did not restore is never destroyed (ADR 0028,
\* persistence.rs:138): it leaves the path only by being moved aside.
ForeignIsKept == [][foreign /\ ~foreign' => aside']_vars

\* No Terminal of a Workspace runs once its checkout is removed: they are
\* stopped before Git is invoked (ADR 0005).
StoppedBeforeGit == shells \cup splits \subseteq checkouts \cup broken

\* A stop ends: no operation, monitor or failing write holds it up for ever
\* (server.rs:385, persistence.rs:247).
StopEnds == stopping ~> phase \in {"stopped", "down"}

\* A Session that waits to be saved is tried: no path leaves it without a
\* deadline or without a worker (persistence.rs:278).
QueuedIsTried == pending # {} ~> stage = "writing" \/ phase = "down"

\* The worker keeps nobody waiting, and nothing.
StopsAndWritesEnd == StopEnds /\ QueuedIsTried
=============================================================================
