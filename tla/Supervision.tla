----------------------------- MODULE Supervision -----------------------------
(***************************************************************************)
(* The processes of one local endpoint: Supervisors                        *)
(* (condr-server/src/supervisor.rs), the Servers they run as children,     *)
(* with their bind lock and socket path (endpoint/local.rs), and the       *)
(* commands that start, stop and restart a Server (server/local.rs).       *)
(*                                                                         *)
(* A Supervisor has a slot of its own, which is never used again, and at   *)
(* most one Server at a time.  A socket is the number of its inode.  Time  *)
(* is counted only for the restarts within RESTART_WINDOW; every other     *)
(* wait may take any time.  That a poll of the Supervisor lock holds it    *)
(* for an instant only makes another poll see a Supervisor once more; a    *)
(* poll of the bind lock really is in a starting Server's way.             *)
(***************************************************************************)
EXTENDS Integers, Sequences, FiniteSets

CONSTANTS
    Slots,          \* the Supervisors that may ever be started
    Commands,       \* the processes of condr server start, stop and restart
    NoOne,          \* nobody holds the bind lock
    Window,         \* RESTART_WINDOW
    MaxRestarts     \* MAX_RESTARTS

ASSUME SupervisionAssumption ==
    /\ Window \in Nat /\ MaxRestarts \in Nat
    /\ Slots \cap Commands = {} /\ NoOne \notin Slots \cup Commands

VARIABLES
    supervisor,     \* per slot: what it does, its restarts
    server,         \* per slot: its child
    bind_lock,      \* who holds it
    socket_path,    \* the inode there, or NoPath
    command,        \* per process: where it is
    clock,
    superSpent      \* what has happened of what the setting allows

superVars == <<supervisor, server, bind_lock, socket_path, command, clock, superSpent>>

NoPath == 0
Happens(what) ==
    /\ superSpent[what] < superSpent.setting[what]
    /\ superSpent' = [superSpent EXCEPT ![what] = @ + 1]

-----------------------------------------------------------------------------
(* A Server                                                                *)

Bound == {"locked", "listening", "serving", "stopping", "cleaned"}
HasSocket == {"listening", "serving", "stopping"}
Lives(s) == server[s].pc \in Bound \cup {"starting"}

ServerGoes(s, pc) == server' = [server EXCEPT ![s].pc = pc]
ServerEnds(s, how) ==
    /\ server' = [server EXCEPT ![s] = [pc |-> how, inode |-> NoPath]]
    /\ bind_lock' = IF bind_lock = s THEN NoOne ELSE bind_lock

(* Who answers a connection to the path: the process whose socket it is.   *)
Listener == {s \in Slots : server[s].pc \in HasSocket /\ server[s].inode = socket_path}
WithoutOwn(s) == IF socket_path = server[s].inode THEN NoPath ELSE socket_path

(* bind_local: acquire_local_bind_lock.                                    *)
AcquireBindLock(s) ==
    /\ server[s].pc = "starting"
    /\ IF bind_lock = NoOne
       THEN bind_lock' = s /\ ServerGoes(s, "locked")
       ELSE ServerEnds(s, "error")
    /\ UNCHANGED <<supervisor, socket_path, command, clock, superSpent>>

(* prepare_local_path and the new listener: a path nobody answers on is    *)
(* removed first.                                                          *)
Listen(s) ==
    /\ server[s].pc = "locked"
    /\ IF Listener = {}
       THEN /\ server' = [server EXCEPT ![s] = [pc |-> "listening", inode |-> superSpent.inodes + 1]]
            /\ socket_path' = superSpent.inodes + 1
            /\ superSpent' = [superSpent EXCEPT !.inodes = @ + 1]
            /\ UNCHANGED bind_lock
       ELSE ServerEnds(s, "error") /\ UNCHANGED <<socket_path, superSpent>>
    /\ UNCHANGED <<supervisor, command, clock>>

(* BoundServer::bind ends: the Session is there, clients are accepted.     *)
Serve(s) ==
    /\ server[s].pc = "listening"
    /\ ServerGoes(s, "serving")
    /\ UNCHANGED <<supervisor, bind_lock, socket_path, command, clock, superSpent>>

(* Or it fails: the TCP address is taken, or the Session cannot be read.   *)
FailBind(s) ==
    /\ server[s].pc = "listening" /\ Happens("failures")
    /\ socket_path' = WithoutOwn(s)
    /\ ServerEnds(s, "error")
    /\ UNCHANGED <<supervisor, command, clock>>

(* An error of the accept loop stops the Server too.                       *)
FailAccept(s) ==
    /\ server[s].pc = "serving" /\ Happens("failures")
    /\ ServerGoes(s, "stopping")
    /\ UNCHANGED <<supervisor, bind_lock, socket_path, command, clock>>

(* The terminals are closed and the Snapshot is written by now.            *)
CleanUp(s) ==
    /\ server[s].pc = "stopping"
    /\ socket_path' = WithoutOwn(s)
    /\ ServerGoes(s, "cleaned")
    /\ UNCHANGED <<supervisor, bind_lock, command, clock, superSpent>>

Exit(s) ==
    /\ server[s].pc = "cleaned"
    /\ ServerEnds(s, "exited")
    /\ UNCHANGED <<supervisor, socket_path, command, clock, superSpent>>

(* SIGABRT, a panic; or SIGTERM, SIGKILL: nothing is cleaned up.           *)
Crash(s) ==
    /\ Lives(s) /\ Happens("crashes")
    /\ ServerEnds(s, "crashed")
    /\ UNCHANGED <<supervisor, socket_path, command, clock>>
Kill(s) ==
    /\ Lives(s) /\ Happens("kills")
    /\ ServerEnds(s, "killed")
    /\ UNCHANGED <<supervisor, socket_path, command, clock>>

-----------------------------------------------------------------------------
(* A Supervisor                                                            *)

HoldsLock(s) == supervisor[s].pc \in {"spawning", "waiting", "delayed"}
SupervisorGoes(s, pc) == supervisor' = [supervisor EXCEPT ![s].pc = pc]

(* hold_lock, which is shared.                                             *)
HoldLock(s) ==
    /\ supervisor[s].pc = "starting"
    /\ SupervisorGoes(s, "spawning")
    /\ UNCHANGED <<server, bind_lock, socket_path, command, clock, superSpent>>

RunServer(s) ==
    /\ supervisor[s].pc = "spawning"
    /\ SupervisorGoes(s, "waiting")
    /\ ServerGoes(s, "starting")
    /\ UNCHANGED <<bind_lock, socket_path, command, clock, superSpent>>

(* may_restart: those that are no longer within the window go, from the    *)
(* front, up to the first that still is.                                   *)
Expired(restarts) ==
    CHOOSE n \in 0..Len(restarts) :
        /\ \A i \in 1..n : clock - restarts[i] >= Window
        /\ n < Len(restarts) => clock - restarts[n + 1] < Window
Recent(restarts) == SubSeq(restarts, Expired(restarts) + 1, Len(restarts))
MayRestart(s) == Len(Recent(supervisor[s].restarts)) < MaxRestarts

(* The child has ended: a crash is followed by a restart, unless there     *)
(* were too many.                                                          *)
Reap(s) ==
    /\ supervisor[s].pc = "waiting"
    /\ server[s].pc \in {"exited", "error", "killed", "crashed"}
    /\ LET v == supervisor[s] IN
       supervisor' = [supervisor EXCEPT ![s] =
         IF server[s].pc # "crashed" THEN [v EXCEPT !.pc = "gone"]
         ELSE IF MayRestart(s)
         THEN [v EXCEPT !.pc = "delayed", !.restarts = Append(Recent(v.restarts), clock),
                        !.all = Append(v.all, clock)]
         ELSE [v EXCEPT !.pc = "gone", !.restarts = Recent(v.restarts), !.gave_up = clock]]
    /\ ServerGoes(s, "none")
    /\ UNCHANGED <<bind_lock, socket_path, command, clock, superSpent>>

Delay(s) ==
    /\ supervisor[s].pc = "delayed"
    /\ SupervisorGoes(s, "spawning")
    /\ UNCHANGED <<server, bind_lock, socket_path, command, clock, superSpent>>

(* A Supervisor that is killed leaves its Server running.                  *)
SupervisorDies(s) ==
    /\ HoldsLock(s) /\ Happens("deaths")
    /\ supervisor' = [supervisor EXCEPT ![s] = [@ EXCEPT !.pc = "gone", !.killed = TRUE]]
    /\ UNCHANGED <<server, bind_lock, socket_path, command, clock>>

Tick ==
    /\ clock < superSpent.setting.clock
    /\ clock' = clock + 1
    /\ UNCHANGED <<supervisor, server, bind_lock, socket_path, command, superSpent>>

-----------------------------------------------------------------------------
(* The commands                                                            *)

CommandGoes(c, pc) == command' = [command EXCEPT ![c].pc = pc]
Does(c) == superSpent.setting.does[c]

(* What stop_server and running_endpoint connect to: the Server that is    *)
(* listening, which answers once it accepts; its end ends the connection.  *)
(* "stop" is the command's own request, "again" that of wait_for_shutdown, *)
(* "ensure" a probe.                                                       *)
Asking == {"stop", "again", "ensure"}
Unanswered(pc) == CASE pc = "stop" -> "poll" [] pc = "again" -> "poll" [] pc = "ensure" -> "spawn"

Begin(c) ==
    /\ command[c].pc = "idle" /\ Does(c) # "nothing"
    /\ command' = [command EXCEPT ![c] =
         [@ EXCEPT !.pc = IF Does(c) = "start" THEN "ensure" ELSE "stop",
                   !.supervised = {s \in Slots : HoldsLock(s)},
                   !.orphans = {s \in Slots : supervisor[s].killed /\ server[s].pc \in Bound}]]
    /\ UNCHANGED <<supervisor, server, bind_lock, socket_path, clock, superSpent>>

Connect(c) ==
    /\ command[c].pc \in Asking /\ command[c].asked = NoPath
    /\ IF Listener = {} THEN CommandGoes(c, Unanswered(command[c].pc))
       ELSE command' = [command EXCEPT ![c].asked = socket_path]
    /\ UNCHANGED <<supervisor, server, bind_lock, socket_path, clock, superSpent>>

Answered(c) ==
    /\ command[c].asked # NoPath
    /\ \E s \in Slots :
         /\ server[s].pc = "serving" /\ server[s].inode = command[c].asked
         /\ IF command[c].pc = "ensure"
            THEN /\ command' = [command EXCEPT ![c] = [@ EXCEPT !.pc = "done", !.asked = NoPath]]
                 /\ UNCHANGED server
            ELSE /\ command' = [command EXCEPT ![c] =
                      [@ EXCEPT !.pc = "poll", !.asked = NoPath, !.between_restarts = FALSE]]
                 /\ ServerGoes(s, "stopping")
    /\ UNCHANGED <<supervisor, bind_lock, socket_path, clock, superSpent>>

(* not_running: the Server it reached went away.                           *)
Disconnected(c) ==
    /\ command[c].asked # NoPath /\ \A s \in Slots : server[s].inode # command[c].asked
    /\ command' = [command EXCEPT ![c] = [@ EXCEPT !.pc = Unanswered(command[c].pc), !.asked = NoPath]]
    /\ UNCHANGED <<supervisor, server, bind_lock, socket_path, clock, superSpent>>

(* wait_for_shutdown: the bind lock is tried, and let go at once.  While a *)
(* Server holds it, the one that was started again is asked to stop.       *)
Poll(c) ==
    /\ command[c].pc = "poll"
    /\ IF bind_lock = NoOne
       THEN bind_lock' = c /\ CommandGoes(c, "locked")
       ELSE /\ command[c].between_restarts
            /\ CommandGoes(c, "again") /\ UNCHANGED bind_lock
    /\ UNCHANGED <<supervisor, server, socket_path, clock, superSpent>>
LetGo(c) ==
    /\ command[c].pc = "locked"
    /\ bind_lock' = NoOne /\ CommandGoes(c, "released")
    /\ UNCHANGED <<supervisor, server, socket_path, clock, superSpent>>

(* Broken: a free bind lock passes for a Server that will not come back.   *)
CheckNoSupervisor(c) ==
    /\ command[c].pc = "released"
    /\ command' = [command EXCEPT ![c] =
         [@ EXCEPT !.pc = IF Does(c) = "stop" THEN "done" ELSE "ensure", !.is_down = TRUE]]
    /\ UNCHANGED <<supervisor, server, bind_lock, socket_path, clock, superSpent>>

(* Then it looks for a Supervisor.                                         *)
CheckSupervisor(c) ==
    /\ command[c].pc = "released"
    /\ IF \E s \in Slots : HoldsLock(s)
       THEN command' = [command EXCEPT ![c] = [@ EXCEPT !.pc = "poll", !.between_restarts = TRUE]]
       ELSE command' = [command EXCEPT ![c] =
              [@ EXCEPT !.pc = IF Does(c) = "stop" THEN "done" ELSE "ensure", !.is_down = TRUE]]
    /\ UNCHANGED <<supervisor, server, bind_lock, socket_path, clock, superSpent>>

(* spawn_server starts a Supervisor and waits until a Server answers.      *)
SpawnServer(c, s) ==
    /\ command[c].pc = "spawn" /\ supervisor[s].pc = "none"
    /\ SupervisorGoes(s, "starting")
    /\ CommandGoes(c, "await")
    /\ UNCHANGED <<server, bind_lock, socket_path, clock, superSpent>>
Ready(c) ==
    /\ command[c].pc = "await" /\ \E s \in Listener : server[s].pc = "serving"
    /\ CommandGoes(c, "done")
    /\ UNCHANGED <<supervisor, server, bind_lock, socket_path, clock, superSpent>>

(* 30 seconds, or 150 tries, are over.                                     *)
TimeOut(c) ==
    /\ superSpent.setting.timeouts /\ command[c].pc \in {"poll", "await"}
    /\ CommandGoes(c, "failed")
    /\ UNCHANGED <<supervisor, server, bind_lock, socket_path, clock, superSpent>>

-----------------------------------------------------------------------------

NoSupervisor == [pc |-> "none", restarts |-> <<>>, all |-> <<>>, gave_up |-> -1, killed |-> FALSE]
NoServer == [pc |-> "none", inode |-> NoPath]
NoCommand == [pc |-> "idle", asked |-> NoPath, between_restarts |-> FALSE, is_down |-> FALSE,
              supervised |-> {}, orphans |-> {}]

(* The Servers of setting.running run already, at most one of them.        *)
SuperInit(setting) ==
    /\ supervisor = [s \in Slots |-> IF s \in setting.running THEN [NoSupervisor EXCEPT !.pc = "waiting"]
                                                              ELSE NoSupervisor]
    /\ server = [s \in Slots |-> IF s \in setting.running THEN [pc |-> "serving", inode |-> 1] ELSE NoServer]
    /\ bind_lock = IF setting.running = {} THEN NoOne ELSE CHOOSE s \in setting.running : TRUE
    /\ socket_path = IF setting.running = {} THEN NoPath ELSE 1
    /\ command = [c \in Commands |-> NoCommand]
    /\ clock = 0
    /\ superSpent = [setting |-> setting, crashes |-> 0, kills |-> 0, failures |-> 0, deaths |-> 0, inodes |-> 1]

ServerSteps(s) == AcquireBindLock(s) \/ Listen(s) \/ Serve(s) \/ CleanUp(s) \/ Exit(s)
SupervisorSteps(s) == HoldLock(s) \/ RunServer(s) \/ Reap(s) \/ Delay(s)
CommandSteps(c) ==
    \/ Begin(c) \/ Connect(c) \/ Answered(c) \/ Disconnected(c)
    \/ Poll(c) \/ LetGo(c) \/ CheckSupervisor(c)
    \/ (\E s \in Slots : SpawnServer(c, s)) \/ Ready(c)

SuperNext ==
    \/ \E s \in Slots :
         \/ ServerSteps(s) \/ FailBind(s) \/ FailAccept(s) \/ Crash(s) \/ Kill(s)
         \/ SupervisorSteps(s) \/ SupervisorDies(s)
    \/ \E c \in Commands : CommandSteps(c) \/ TimeOut(c)
    \/ Tick

(* What a setting may be: at most one Server runs already.                 *)
SuperSettings ==
    [running : {r \in SUBSET Slots : \A s, t \in r : s = t},
     does : [Commands -> {"nothing", "start", "stop", "restart"}],
     crashes : Nat, kills : Nat, failures : Nat, deaths : Nat, timeouts : BOOLEAN, clock : Nat]

SuperSpec == (\E setting \in SuperSettings : SuperInit(setting)) /\ [][SuperNext]_superVars

(* The processes run.  Nothing has to fail, nor does time have to pass.    *)
SuperFairness ==
    /\ \A s \in Slots : WF_superVars(ServerSteps(s)) /\ WF_superVars(SupervisorSteps(s))
    /\ \A c \in Commands : WF_superVars(CommandSteps(c))

-----------------------------------------------------------------------------

SuperTypeOK ==
    /\ bind_lock \in {NoOne} \cup Slots \cup Commands
    /\ \A s \in Slots : /\ Len(supervisor[s].restarts) <= MaxRestarts
                        /\ server[s].pc \in Bound <=> bind_lock = s
    /\ \A c \in Commands : command[c].asked \in 0..superSpent.inodes

(* Clients reach the Server that runs: its socket stays at the path until  *)
(* it removes it itself, whatever an older Server left there or a younger  *)
(* one finds there.                                                        *)
PathNamesTheServer == \A s \in Slots : server[s].pc \in HasSocket => socket_path = server[s].inode

(* "Report only once it has released its listener, so `stopped` means      *)
(* stopped" (main.rs:609): what was there when the command began, a Server *)
(* that crashed and was to be started again or one without a Supervisor,   *)
(* is gone when the wait ends, and no Supervisor is left to bring it back. *)
StoppedStaysStopped ==
    \A c \in Commands : command[c].is_down =>
        /\ \A s \in command[c].supervised : supervisor[s].killed \/ (supervisor[s].pc = "gone" /\ ~Lives(s))
        /\ \A s \in command[c].orphans : ~Lives(s)

(* Never more than MaxRestarts restarts within the window, wherever it     *)
(* begins; and a Supervisor gives up only when there were as many in the   *)
(* one that ends now.                                                      *)
RestartsAreBounded ==
    \A s \in Slots : LET all == supervisor[s].all IN
        /\ \A i \in DOMAIN all : i + MaxRestarts \in DOMAIN all => all[i + MaxRestarts] - all[i] >= Window
        /\ supervisor[s].gave_up >= 0 =>
             Cardinality({i \in DOMAIN all : supervisor[s].gave_up - all[i] < Window}) = MaxRestarts

(* All of them.                                                            *)
SupervisorIsSound == SuperTypeOK /\ PathNamesTheServer /\ StoppedStaysStopped /\ RestartsAreBounded

(* Nothing is stopped, killed or refused, nobody gives up.                 *)
Survivable(setting) ==
    /\ setting.running # {} \/ \E c \in Commands : setting.does[c] # "nothing"
    /\ \A c \in Commands : setting.does[c] # "stop"
    /\ setting.kills = 0 /\ setting.failures = 0 /\ setting.deaths = 0
    /\ ~setting.timeouts /\ setting.crashes <= MaxRestarts

(* Crashes that a Supervisor may follow, restarts and starts, however they *)
(* fall together, end with a Server that serves: none of two restarts      *)
(* waits for the other's Server to go, and a poll that was in a starting   *)
(* Server's way is followed by a start of its own.                         *)
SomeoneServes == Survivable(superSpent.setting) ~> [](\E s \in Listener : server[s].pc = "serving")
=============================================================================
