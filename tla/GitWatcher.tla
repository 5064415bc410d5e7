----------------------------- MODULE GitWatcher -----------------------------
(***************************************************************************)
(* What the Server knows of the repositories of its Workspaces             *)
(* (condr-server/src/server/workspace_git.rs): the RuntimeState, whose     *)
(* Session and Git states change under one lock, and the watcher's worker, *)
(* which takes messages, waits for deadlines and scans outside that lock.  *)
(*                                                                         *)
(* On disk a Workspace has versions of its refs and of its working tree;   *)
(* what a scan finds are the versions it read.  A deadline is only there   *)
(* or not: how long it waits is any time.  Of an Instant only its place    *)
(* before or after the start of the last scan is kept.                     *)
(***************************************************************************)
EXTENDS Integers, Sequences, FiniteSets

CONSTANTS
    Workspaces,     \* ids, which are never used again
    MaxPending,     \* MAX_PENDING_PATHS
    NoGit           \* a Workspace with no known repository

ASSUME GitAssumption ==
    /\ MaxPending \in Nat \ {0}
    /\ NoGit \notin [refs : Nat, files : Nat]

VARIABLES
    disk,           \* per Workspace, what is on its disk
    opened,         \* the Workspaces of the Session
    known,          \* RuntimeState.workspace_git
    told,           \* the working tree of the last WorkspaceFilesChanged
    inbox,          \* the worker's messages
    activity,       \* GitWatcher.terminal_activity
    probed,         \* an activity a probe thread has seen and not yet said
    watched,        \* the worker's entries
    scan,           \* the scan the worker is doing
    worker,         \* its thread: running, or ended; and whether it is to stop
    gitSpent        \* what has happened of what the setting allows

gitVars == <<disk, opened, known, told, inbox, activity, probed, watched, scan, worker, gitSpent>>

NoFingerprint == 0
Unscanned == 0
NotWatched == [watched |-> FALSE]
NoScan == [stage |-> "none"]

-----------------------------------------------------------------------------
(* The disk                                                                *)

(* What changes: the refs or the index, a file, an ignored one.            *)
Kinds == {"git", "file", "ignored"}

(* What a scan of Workspace w would find now.                              *)
OnDisk(w) ==
    IF disk[w].repository THEN [refs |-> disk[w].refs, files |-> disk[w].files] ELSE NoGit

(* A linked worktree keeps its HEAD and index outside its root.            *)
Linked(w) == w \in gitSpent.setting.linked

(* The subscription that reports a change of this kind.                    *)
Reports(w, kind) ==
    /\ watched[w] # NotWatched
    /\ IF kind = "git" /\ Linked(w) THEN watched[w].git_dir_subscribed
                                     ELSE watched[w].root_subscribed

Filesystem(w, kind) == [type |-> "Filesystem", workspace |-> w, path |-> kind]

(* An editor, a shell or Git itself changes something: the refs or index   *)
(* under .git, a file of the working tree, or an ignored one.              *)
Change(w, kind) ==
    /\ w \in opened \/ watched[w] # NotWatched
    /\ gitSpent.changes[kind] < gitSpent.setting.changes[kind]
    /\ gitSpent' = [gitSpent EXCEPT !.changes[kind] = @ + 1, !.heard[w] = @ /\ kind # "git"]
    /\ disk' = CASE kind = "git" ->
                        [disk EXCEPT ![w] = [repository |-> TRUE, refs |-> disk[w].refs + 1,
                                             files |-> disk[w].files]]
                 [] kind = "file" -> [disk EXCEPT ![w].files = @ + 1]
                 [] OTHER -> disk
    /\ inbox' = IF Reports(w, kind) THEN Append(inbox, Filesystem(w, kind)) ELSE inbox
    /\ UNCHANGED <<opened, known, told, activity, probed, watched, scan, worker>>

-----------------------------------------------------------------------------
(* The Session's side, under the state lock                                *)

Watch(w, git) == [type |-> "Watch", workspace |-> w, git_dir |-> git # NoGit]
RetainOnly(keep) == [type |-> "Retain", keep |-> keep]
Refresh(w) == [type |-> "Refresh", workspace |-> w]
TerminalActivity(w) == [type |-> "TerminalActivity", workspace |-> w]
Stop == [type |-> "Stop"]

(* The Server holds its watcher until it stops.                            *)
Serving == ~worker.stopping

(* A repository just discovered, before its changes were computed.         *)
Discovered(w) == IF disk[w].repository THEN [refs |-> disk[w].refs, files |-> Unscanned] ELSE NoGit

(* A Workspace is created; that it is on a repository may not have been    *)
(* found.                                                                  *)
CreateWorkspace(w) ==
    /\ Serving /\ w \in gitSpent.setting.creates \ gitSpent.created
    /\ gitSpent' = [gitSpent EXCEPT !.created = @ \cup {w}]
    /\ opened' = opened \cup {w}
    /\ \E git \in {Discovered(w), NoGit} :
         /\ known' = [known EXCEPT ![w] = git]
         /\ inbox' = inbox \o <<RetainOnly(opened'), Watch(w, git), Refresh(w)>>
    /\ told' = [told EXCEPT ![w] = disk[w].files]
    /\ UNCHANGED <<disk, activity, probed, watched, scan, worker>>

CloseWorkspace(w) ==
    /\ Serving /\ w \in opened \cap gitSpent.setting.closes
    /\ opened' = opened \ {w}
    /\ known' = [known EXCEPT ![w] = NoGit]
    /\ inbox' = Append(inbox, RetainOnly(opened'))
    /\ UNCHANGED <<disk, told, activity, probed, watched, scan, worker, gitSpent>>

(* A person asks, a file was changed or an upload is placed; the Workspace *)
(* was there when that was looked at, and may have been closed since.      *)
RefreshWorkspace(w) ==
    /\ Serving /\ gitSpent.refreshes < gitSpent.setting.refreshes
    /\ gitSpent' = [gitSpent EXCEPT !.refreshes = @ + 1]
    /\ inbox' = Append(inbox, Refresh(w))
    /\ UNCHANGED <<disk, opened, known, told, activity, probed, watched, scan, worker>>

(* The places of an Instant: none, no later than the last recorded scan,   *)
(* before the scan that runs, after its start.                             *)
Instants == <<"none", "scanned", "before", "after">>
Later(a, b) == IF \E i, j \in 1..4 : i < j /\ Instants[i] = a /\ Instants[j] = b THEN b ELSE a

(* A terminal of w writes; its probe thread takes the time of it.          *)
Output(w) ==
    /\ w \in opened /\ gitSpent.outputs < gitSpent.setting.outputs
    /\ gitSpent' = [gitSpent EXCEPT !.outputs = @ + 1, !.heard[w] = TRUE]
    /\ probed' = [probed EXCEPT ![w] = "after"]
    /\ UNCHANGED <<disk, opened, known, told, inbox, activity, watched, scan, worker>>

(* At most one wakeup per Workspace is queued; a later output only moves   *)
(* its Instant.                                                            *)
RequestTerminalRefresh(w) ==
    /\ probed[w] # "none"
    /\ probed' = [probed EXCEPT ![w] = "none"]
    /\ IF w \in opened /\ Serving
       THEN /\ activity' = [activity EXCEPT ![w] = Later(@, probed[w])]
            /\ inbox' = IF activity[w] = "none" THEN Append(inbox, TerminalActivity(w)) ELSE inbox
       ELSE UNCHANGED <<activity, inbox>>
    /\ UNCHANGED <<disk, opened, known, told, watched, scan, worker, gitSpent>>

(* The Server stops: the flag wins over what is queued, the message wakes  *)
(* a worker that waits.                                                    *)
Shutdown ==
    /\ Serving /\ gitSpent.setting.stops
    /\ worker' = [worker EXCEPT !.stopping = TRUE]
    /\ inbox' = Append(inbox, Stop)
    /\ UNCHANGED <<disk, opened, known, told, activity, probed, watched, scan, gitSpent>>

-----------------------------------------------------------------------------
(* The worker takes a message                                              *)

NewWatched ==
    [watched |-> TRUE, root_subscribed |-> FALSE, git_dir_subscribed |-> FALSE, pending |-> <<>>,
     filesystem_due |-> FALSE, terminal_due |-> FALSE, fingerprint |-> NoFingerprint,
     forced |-> FALSE, overflow |-> FALSE, storm |-> FALSE, dropped |-> FALSE, failed |-> FALSE]

(* Whether a directory comes to be watched: not without a notify backend,  *)
(* and the backend may refuse.                                             *)
Subscriptions ==
    IF gitSpent.setting.notify THEN {TRUE, gitSpent.refusals >= gitSpent.setting.refusals}
                               ELSE {FALSE}

Refused(ok) ==
    [gitSpent EXCEPT !.refusals = IF ok \/ ~gitSpent.setting.notify THEN @ ELSE @ + 1]

WithGitDir(w, entry, ok) ==
    [entry EXCEPT !.git_dir_subscribed = @ \/ (Linked(w) /\ ok)]

OnWatch(m) ==
    LET w == m.workspace
        entry == IF watched[w] = NotWatched THEN NewWatched ELSE watched[w]
    IN  \E ok \in Subscriptions :
          LET subscribed == [entry EXCEPT !.root_subscribed = @ \/ ok]
          IN  /\ watched' = [watched EXCEPT ![w] =
                   IF m.git_dir THEN WithGitDir(w, subscribed, ok) ELSE subscribed]
              /\ gitSpent' = IF entry.root_subscribed /\ ~m.git_dir THEN gitSpent ELSE Refused(ok)

OnRetain(m) ==
    /\ watched' = [w \in Workspaces |-> IF w \in m.keep THEN watched[w] ELSE NotWatched]
    /\ UNCHANGED gitSpent

OnRefresh(m) ==
    /\ watched' = IF watched[m.workspace] = NotWatched THEN watched
                  ELSE [watched EXCEPT ![m.workspace] =
                          [@ EXCEPT !.forced = TRUE, !.filesystem_due = TRUE]]
    /\ UNCHANGED gitSpent

(* Output that a scan has already covered asks for nothing.                *)
OnTerminalActivity(m) ==
    LET w == m.workspace IN
    /\ watched' = IF watched[w] = NotWatched \/ activity[w] \in {"none", "scanned"} THEN watched
                  ELSE [watched EXCEPT ![w].terminal_due = TRUE]
    /\ UNCHANGED gitSpent

(* Broken: the kept paths pass for all of them.                            *)
WithPendingQuietly(entry, path) ==
    IF Len(entry.pending) < MaxPending THEN [entry EXCEPT !.pending = Append(@, path)]
                                       ELSE [entry EXCEPT !.dropped = TRUE]

(* Past the limit a path is dropped, and the kept ones stand for it.       *)
WithPending(entry, path) ==
    IF Len(entry.pending) < MaxPending THEN [entry EXCEPT !.pending = Append(@, path)]
                                       ELSE [entry EXCEPT !.overflow = TRUE, !.dropped = TRUE]

OnFilesystem(m) ==
    /\ watched' = IF watched[m.workspace] = NotWatched THEN watched
                  ELSE [watched EXCEPT ![m.workspace] =
                          [WithPending(watched[m.workspace], m.path)
                             EXCEPT !.filesystem_due = TRUE]]
    /\ UNCHANGED gitSpent

Taking == worker.running /\ ~worker.stopping /\ scan = NoScan

HandleMessage ==
    /\ Taking /\ inbox # <<>>
    /\ inbox' = Tail(inbox)
    /\ LET m == Head(inbox) IN
       /\ CASE m.type = "Watch" -> OnWatch(m)
            [] m.type = "Retain" -> OnRetain(m)
            [] m.type = "Refresh" -> OnRefresh(m)
            [] m.type = "TerminalActivity" -> OnTerminalActivity(m)
            [] m.type = "Filesystem" -> OnFilesystem(m)
       /\ activity' = IF m.type = "TerminalActivity" THEN [activity EXCEPT ![m.workspace] = "none"]
                      ELSE activity
    /\ UNCHANGED <<disk, opened, known, told, probed, scan, worker>>

EndWorker ==
    /\ worker.running /\ worker.stopping /\ scan = NoScan
    /\ worker' = [worker EXCEPT !.running = FALSE]
    /\ watched' = [w \in Workspaces |-> NotWatched]
    /\ UNCHANGED <<disk, opened, known, told, inbox, activity, probed, scan, gitSpent>>

-----------------------------------------------------------------------------
(* A scan                                                                  *)

(* The Instants of activities when a scan begins, and when it is recorded. *)
Begun(instants) == [w \in Workspaces |-> IF instants[w] = "after" THEN "before" ELSE instants[w]]
Covered(instants, w) ==
    [instants EXCEPT ![w] = IF @ = "before" THEN "scanned" ELSE @]

Recorded(entry, fingerprint) ==
    [entry EXCEPT !.fingerprint = fingerprint, !.terminal_due = FALSE]

Fingerprint(w) == IF known[w] = NoGit THEN NoFingerprint ELSE disk[w].refs

(* A deadline of w has come.  Output alone justifies a scan only when the  *)
(* refs moved since the fingerprint of the last one.                       *)
BeginScan(w) ==
    /\ Taking /\ watched[w] # NotWatched
    /\ \E filesystem, terminal \in BOOLEAN :
         LET entry == watched[w]
             taken == IF filesystem
                      THEN [entry EXCEPT !.filesystem_due = FALSE, !.pending = <<>>,
                                         !.forced = FALSE, !.overflow = FALSE]
                      ELSE entry
             fingerprint == Fingerprint(w)
             changed == terminal /\ (fingerprint = NoFingerprint \/ fingerprint # entry.fingerprint)
         IN
         /\ filesystem => entry.filesystem_due
         /\ terminal => entry.terminal_due
         /\ filesystem \/ (terminal /\ ~entry.forced)
         /\ IF w \notin opened
            THEN /\ watched' = [watched EXCEPT ![w] = [taken EXCEPT !.terminal_due = FALSE]]
                 /\ UNCHANGED <<activity, probed, scan>>
            ELSE /\ watched' = [watched EXCEPT ![w] =
                      IF terminal THEN Recorded(taken, fingerprint) ELSE taken]
                 /\ activity' = IF terminal THEN Covered(Begun(activity), w) ELSE Begun(activity)
                 /\ probed' = IF terminal THEN Covered(Begun(probed), w) ELSE Begun(probed)
                 /\ scan' = IF ~filesystem /\ ~changed THEN NoScan
                            ELSE [stage |-> "begun", workspace |-> w, filesystem |-> filesystem,
                                  changed |-> changed, fingerprint |-> fingerprint,
                                  pending |-> IF filesystem THEN entry.pending ELSE <<>>,
                                  forced |-> filesystem /\ entry.forced,
                                  overflow |-> filesystem /\ entry.overflow]
    /\ UNCHANGED <<disk, opened, known, told, inbox, worker, gitSpent>>

Paths(pending) == {pending[i] : i \in DOMAIN pending}

(* GitRepository::ignores_all: no doubt about any of at least one path.    *)
IgnoresAll(pending) == Paths(pending) = {"ignored"}

(* A window of nothing but ignored paths is skipped, except the first that *)
(* keeps them all after one that did not: a change may hide in the drops.  *)
Skips(storm) ==
    /\ scan.filesystem /\ ~scan.forced /\ (scan.overflow \/ ~storm)
    /\ IgnoresAll(scan.pending)

WorkingTreeChanged == scan.forced \/ \E path \in Paths(scan.pending) : path # "git"

RecordScan(entry) ==
    LET w == scan.workspace IN
    /\ watched' = [watched EXCEPT ![w] = Recorded(entry, scan.fingerprint)]
    /\ activity' = Covered(activity, w)
    /\ probed' = Covered(probed, w)

Discover ==
    /\ scan.stage = "begun"
    /\ LET w == scan.workspace
           entry == watched[w]
           skips == Skips(entry.storm)
       IN
       \/ /\ disk[w].repository /\ skips /\ ~scan.changed
          /\ watched' = [watched EXCEPT ![w].storm = scan.overflow]
          /\ scan' = NoScan
          /\ UNCHANGED <<activity, probed, gitSpent>>
       \/ /\ disk[w].repository /\ ~(skips /\ ~scan.changed)
          /\ \E ok \in Subscriptions :
               /\ RecordScan(WithGitDir(w, [entry EXCEPT !.storm = FALSE], ok))
               /\ gitSpent' = IF Linked(w) /\ ~entry.git_dir_subscribed THEN Refused(ok) ELSE gitSpent
          /\ scan' = [stage |-> "found", workspace |-> w, refs |-> disk[w].refs,
                      files_changed |-> WorkingTreeChanged /\ ~skips]
       \/ /\ ~disk[w].repository
          /\ RecordScan(entry)
          /\ scan' = [stage |-> "read", workspace |-> w, git |-> NoGit,
                      files_changed |-> WorkingTreeChanged]
          /\ UNCHANGED gitSpent
    /\ UNCHANGED <<disk, opened, known, told, inbox, worker>>

ReadChanges ==
    /\ scan.stage = "found"
    /\ scan' = [stage |-> "read", workspace |-> scan.workspace, files_changed |-> scan.files_changed,
                git |-> [refs |-> scan.refs, files |-> disk[scan.workspace].files]]
    /\ UNCHANGED <<disk, opened, known, told, inbox, activity, probed, watched, worker, gitSpent>>

(* The result is told, if the Workspace is still there and it is news.     *)
ApplyRefresh ==
    /\ scan.stage = "read"
    /\ LET w == scan.workspace
           here == w \in opened
           news == here /\ known[w] # scan.git
       IN
       /\ known' = IF news THEN [known EXCEPT ![w] = scan.git] ELSE known
       /\ inbox' = IF news /\ scan.git # NoGit /\ Serving THEN Append(inbox, Watch(w, scan.git))
                   ELSE inbox
       /\ told' = IF here /\ scan.files_changed THEN [told EXCEPT ![w] = disk[w].files] ELSE told
       /\ watched' = [watched EXCEPT ![w] =
            [@ EXCEPT !.failed = FALSE, !.dropped = watched[w].dropped /\ ~scan.files_changed]]
    /\ scan' = NoScan
    /\ UNCHANGED <<disk, opened, activity, probed, worker, gitSpent>>

(* Finding the repository or its changes fails: the work is lost, and      *)
(* waits for the next change.                                              *)
CanFail == gitSpent.failures < gitSpent.setting.failures

FailScan ==
    /\ CanFail /\ scan.stage \in {"begun", "found"}
    /\ gitSpent' = [gitSpent EXCEPT !.failures = @ + 1]
    /\ LET lost == [watched[scan.workspace] EXCEPT !.failed = TRUE, !.dropped = TRUE]
       IN  IF scan.stage = "begun" THEN RecordScan(lost)
           ELSE /\ watched' = [watched EXCEPT ![scan.workspace] = lost]
                /\ UNCHANGED <<activity, probed>>
    /\ scan' = NoScan
    /\ UNCHANGED <<disk, opened, known, told, inbox, worker>>

(* The scan panics, which loses that scan and not every later one.         *)
PanicScan ==
    /\ CanFail /\ scan # NoScan
    /\ gitSpent' = [gitSpent EXCEPT !.failures = @ + 1]
    /\ LET w == scan.workspace IN
       /\ watched' = [watched EXCEPT ![w] =
            Recorded([watched[w] EXCEPT !.pending = <<>>, !.filesystem_due = FALSE, !.forced = FALSE,
                                        !.overflow = FALSE, !.failed = TRUE, !.dropped = TRUE],
                     NoFingerprint)]
       /\ activity' = Covered(Begun(activity), w)
       /\ probed' = Covered(Begun(probed), w)
    /\ scan' = NoScan
    /\ UNCHANGED <<disk, opened, known, told, inbox, worker>>

-----------------------------------------------------------------------------
(* A restored Session: every Workspace was discovered, is put under watch  *)
(* and gets a first full scan.                                             *)
GitInit(setting) ==
    /\ disk = [w \in Workspaces |-> [repository |-> w \notin setting.bare, refs |-> 1, files |-> 1]]
    /\ opened = setting.restored
    /\ known = [w \in Workspaces |-> IF w \in setting.restored \ setting.bare
                                     THEN [refs |-> 1, files |-> Unscanned] ELSE NoGit]
    /\ told = [w \in Workspaces |-> 1]
    /\ \E order \in [1..Cardinality(setting.restored) -> setting.restored] :
         /\ setting.restored = {order[i] : i \in DOMAIN order}
         /\ inbox = [i \in 1..2 * Cardinality(setting.restored) |->
                       LET w == order[(i + 1) \div 2]
                       IN  IF i % 2 = 1 THEN Watch(w, known[w]) ELSE Refresh(w)]
    /\ activity = [w \in Workspaces |-> "none"] /\ probed = activity
    /\ watched = [w \in Workspaces |-> NotWatched]
    /\ scan = NoScan
    /\ worker = [running |-> TRUE, stopping |-> FALSE]
    /\ gitSpent = [setting |-> setting, created |-> {}, refreshes |-> 0, outputs |-> 0,
                   failures |-> 0, refusals |-> 0, heard |-> [w \in Workspaces |-> TRUE],
                   changes |-> [kind \in Kinds |-> 0]]

Scans == \E w \in Workspaces : BeginScan(w)

GitNext ==
    \/ \E w \in Workspaces :
         \/ \E kind \in Kinds : Change(w, kind)
         \/ CreateWorkspace(w) \/ CloseWorkspace(w) \/ RefreshWorkspace(w)
         \/ Output(w) \/ RequestTerminalRefresh(w)
    \/ Shutdown
    \/ HandleMessage \/ Scans \/ Discover \/ ReadChanges \/ ApplyRefresh \/ FailScan \/ PanicScan
    \/ EndWorker

(* A linked worktree is on a repository.                                   *)
GitSettings ==
    {s \in [restored : SUBSET Workspaces, bare : SUBSET Workspaces, linked : SUBSET Workspaces,
            creates : SUBSET Workspaces, closes : SUBSET Workspaces, notify : BOOLEAN,
            stops : BOOLEAN, changes : [Kinds -> Nat], outputs : Nat, refreshes : Nat,
            failures : Nat, refusals : Nat] :
       IsFiniteSet(s.restored) /\ s.linked \cap s.bare = {}}
GitSpec == (\E setting \in GitSettings : GitInit(setting)) /\ [][GitNext]_gitVars

(* The threads run; nobody has to change, ask or stop anything.            *)
GitFairness ==
    /\ WF_gitVars(HandleMessage) /\ WF_gitVars(Scans)
    /\ WF_gitVars(Discover) /\ WF_gitVars(ReadChanges) /\ WF_gitVars(ApplyRefresh)
    /\ WF_gitVars(EndWorker)
    /\ \A w \in Workspaces : WF_gitVars(RequestTerminalRefresh(w))

-----------------------------------------------------------------------------
(* Properties                                                              *)

Gits == [refs : Nat, files : Nat] \cup {NoGit}

GitTypeOK ==
    /\ disk \in [Workspaces -> [repository : BOOLEAN, refs : Nat, files : Nat]]
    /\ opened \subseteq Workspaces
    /\ known \in [Workspaces -> Gits] /\ told \in [Workspaces -> Nat]
    /\ activity \in [Workspaces -> Paths(Instants)] /\ probed \in [Workspaces -> Paths(Instants)]
    /\ \A w \in Workspaces : watched[w] # NotWatched =>
          Len(watched[w].pending) <= MaxPending /\ watched[w].fingerprint \in Nat
    /\ scan.stage \in {"none", "begun", "found", "read"}
    /\ worker \in [running : BOOLEAN, stopping : BOOLEAN]

(* Nothing is queued, due, being scanned or about to be asked for.         *)
WatcherQuiet ==
    /\ scan = NoScan /\ inbox = <<>>
    /\ \A w \in Workspaces :
         /\ activity[w] = "none" /\ probed[w] = "none"
         /\ watched[w] # NotWatched => ~watched[w].filesystem_due /\ ~watched[w].terminal_due

(* There is a filesystem watcher, and it has refused nothing.              *)
SeesFiles == gitSpent.setting.notify /\ gitSpent.refusals = 0

(* Once all is quiet the Server watches just the Workspaces of its Session *)
(* and, where the last scan did not fail, knows what is on their disks,    *)
(* however changes, scans, output, closing and creating interleave: all of *)
(* it with a filesystem watcher, unless the last window that hid paths was *)
(* skipped; the refs without one too, if a terminal wrote after they moved *)
(* ("file watching is unavailable, Git changes refresh on terminal         *)
(* activity only"; "a switch racing the scan differs next time").          *)
QuietIsCurrent ==
    WatcherQuiet /\ Serving =>
      /\ opened = {w \in Workspaces : watched[w] # NotWatched}
      /\ \A w \in opened : ~watched[w].failed =>
           /\ SeesFiles /\ ~watched[w].storm => known[w] = OnDisk(w)
           /\ gitSpent.heard[w] /\ disk[w].repository =>
                known[w] # NoGit /\ known[w].refs = disk[w].refs

(* Once all is quiet the Clients were told after the last change of a      *)
(* Workspace's files (ADR 0018: "Each debounced batch now also publishes   *)
(* WorkspaceFilesChanged"), unless a scan failed or dropped paths since.   *)
FilesAreFollowed ==
    WatcherQuiet /\ Serving /\ SeesFiles =>
      \A w \in opened : told[w] = disk[w].files \/ watched[w].dropped

(* Both of them: what the Server knows and what its Clients were told.      *)
QuietIsFollowed == GitTypeOK /\ QuietIsCurrent /\ FilesAreFollowed

(* The watcher comes to rest, and a Server that stops ends its worker,     *)
(* whatever is queued: output that scans have covered, or a Workspace that *)
(* is gone, keeps no deadline ("do not keep an obsolete deadline hot").    *)
WatcherSettles == <>[](IF worker.stopping THEN ~worker.running ELSE WatcherQuiet)
=============================================================================
