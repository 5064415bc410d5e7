---------------------------- MODULE MCServices ----------------------------
(* What runs beside the Session: the writer of a connection, the Git        *)
(* watcher, the link of a GUI's forwarded ports, the processes of an        *)
(* endpoint and a Device of the GUI.  They share no state, and each initial state gives one of them *)
(* something to do.                                                        *)
EXTENDS ClientWriter, GitWatcher, StreamLink, Supervision, DeviceConnection

CONSTANTS h1, h2,          \* who may hold the ClientWriter
          w1, w2,          \* Workspaces
          t1, t2,          \* threads that use the link
          s1, s2, s3,      \* Supervisors
          c1, c2,          \* commands
          p1, p2, x1       \* a Device's addresses and a port of it

(* The writer                                                              *)
NoWriter ==
    /\ q = NewQueue /\ holders = {} /\ thread = "done" /\ holding = <<>> /\ receipt = "none"
    /\ accepted = 0 /\ delivered = <<>>

(* The Git watcher                                                         *)
NoChanges ==
    [restored |-> {}, bare |-> {}, linked |-> {}, creates |-> {}, closes |-> {}, notify |-> TRUE,
     changes |-> [kind \in Kinds |-> 0], outputs |-> 0, refreshes |-> 0, failures |-> 0,
     refusals |-> 0, stops |-> FALSE]
Changes(git, file, ignored) ==
    [NoChanges EXCEPT !.restored = {w1},
       !.changes = [kind \in Kinds |-> CASE kind = "git" -> git [] kind = "file" -> file
                                          [] kind = "ignored" -> ignored]]
Opened == Changes(1, 1, 0)
Disks ==
    {[Opened EXCEPT !.outputs = 1], [Opened EXCEPT !.outputs = 1, !.bare = {w1}],
     [Opened EXCEPT !.outputs = 1, !.failures = 1],
     [Opened EXCEPT !.linked = {w1}, !.refusals = 1], [Changes(0, 1, 0) EXCEPT !.refreshes = 1],
     [Changes(1, 0, 0) EXCEPT !.outputs = 1, !.stops = TRUE],
     [Changes(2, 0, 0) EXCEPT !.notify = FALSE, !.outputs = 2],
     [Changes(2, 0, 0) EXCEPT !.linked = {w1}, !.outputs = 1],
     Changes(0, 1, 3),
     [Changes(0, 1, 0) EXCEPT !.creates = {w2}, !.closes = {w1}]}

(* The link                                                                *)
NoUse == [retains |-> 0, failures |-> 0, flips |-> 0, losses |-> 0]
Uses ==
    {[retains |-> 3, failures |-> 1, flips |-> 0, losses |-> 1],
     [retains |-> 2, failures |-> 2, flips |-> 2, losses |-> 0],
     [retains |-> 3, failures |-> 1, flips |-> 2, losses |-> 1]}

(* The processes                                                           *)
NoProcesses ==
    [running |-> {}, does |-> [c \in Commands |-> "nothing"], crashes |-> 0, kills |-> 0,
     failures |-> 0, deaths |-> 0, timeouts |-> FALSE, clock |-> 0]
Do(first, second) == [NoProcesses EXCEPT !.does[c1] = first, !.does[c2] = second]
Up(setting) == [setting EXCEPT !.running = {s1}]
Endpoints ==
    {[Up(NoProcesses) EXCEPT !.crashes = 4, !.clock = 5],
     [Up(Do("stop", "start")) EXCEPT !.crashes = 1, !.timeouts = TRUE],
     Up(Do("restart", "restart")),
     [Up(Do("stop", "restart")) EXCEPT !.deaths = 1],
     [Do("start", "restart") EXCEPT !.crashes = 1],
     [Do("start", "stop") EXCEPT !.failures = 1, !.kills = 1]}

(* The Device                                                              *)
NoActs == [a \in DeviceActs |-> 0]
Once(acts) == [a \in DeviceActs |-> IF a \in acts THEN 1 ELSE 0]
Devices ==
    {[Once({"sleeps", "crashes"}) EXCEPT !["wakes"] = 2],
     Once({"restarts", "stops", "breaks", "deadlines"}),
     Once({"restarts", "lags", "disconnects", "connects"}),
     Once({"restarts", "crashes", "lags", "breaks"}),
     Once({"downloads", "breaks", "threads"}),
     Once({"edits", "crashes", "dials", "connects"}),
     [Once({"removes", "crashes", "dials"}) EXCEPT !["edits"] = 2],
     [Once({"unreadables", "refusals", "breaks", "connects"}) EXCEPT !["wakes"] = 2],
     [Once({"ends", "edits", "breaks"}) EXCEPT !["forwards"] = 2],
     [Once({"forwards", "breaks", "cancels"}) EXCEPT !["downloads"] = 2],
     Once({"downloads", "uploads", "fails", "crashes"})}
NoDevice(p, bounds) ==
    /\ device = [a \in Addresses |-> [starts |-> 1, state |-> "up"]]
    /\ gui = NewDevice(p) /\ deviceLeft = bounds

Init ==
    \/ /\ NoDevice(p1, NoActs)
       /\ \/ WriterInit /\ GitInit(NoChanges) /\ LinkInit(NoUse) /\ SuperInit(NoProcesses)
          \/ \E s \in Disks : NoWriter /\ GitInit(s) /\ LinkInit(NoUse) /\ SuperInit(NoProcesses)
          \/ \E s \in Uses : NoWriter /\ GitInit(NoChanges) /\ LinkInit(s) /\ SuperInit(NoProcesses)
          \/ \E s \in Endpoints : NoWriter /\ GitInit(NoChanges) /\ LinkInit(NoUse) /\ SuperInit(s)
    \/ /\ \E bounds \in Devices : DeviceInit(p1, bounds)
       /\ NoWriter /\ GitInit(NoChanges) /\ LinkInit(NoUse) /\ SuperInit(NoProcesses)
Next ==
    \/ WriterNext /\ UNCHANGED <<gitVars, linkVars, superVars, deviceVars>>
    \/ GitNext /\ UNCHANGED <<writerVars, linkVars, superVars, deviceVars>>
    \/ LinkNext /\ UNCHANGED <<writerVars, gitVars, superVars, deviceVars>>
    \/ SuperNext /\ UNCHANGED <<writerVars, gitVars, linkVars, deviceVars>>
    \/ DeviceNext /\ UNCHANGED <<writerVars, gitVars, linkVars, superVars>>

Spec == Init /\ [][Next]_<<writerVars, gitVars, linkVars, superVars, deviceVars>>
FairSpec == Spec /\ WriterFairness /\ GitFairness /\ LinkFairness /\ SuperFairness /\ DeviceFairness

(* Each of them comes to where it should, in the end: the writer ends, the   *)
(* watcher rests, a wanted link is there, a Server serves, a Device is       *)
(* reached or given up.                                                     *)
ServicesSettle ==
    WriterSettles /\ WatcherSettles /\ LinkIsKept /\ SomeoneServes /\ DeviceSettles
=============================================================================
