--------------------------- MODULE AgentControl ---------------------------
(* The agent of one Pane: the job in its terminal, the probe thread that      *)
(* watches it, the names, resumes and waits the Server keeps about it under   *)
(* the Session lock, and the threads that take the terminal away meanwhile:   *)
(* its monitor at the end of the shell, a Worktree removal, a closing Pane    *)
(* and the stop of the Server (server/agents.rs, clones.rs,                   *)
(* terminal_monitor.rs, terminal_state.rs, terminal/probes.rs).               *)
EXTENDS AgentDetector

CONSTANTS
    Askers,          \* connections that start, prompt and await agents
    StartupReports,  \* the kinds whose hooks report before the first turn
    MaxReports       \* notices queued for the probe; the oldest go

NoWait   == [until |-> {}]
NoName   == [kind |-> NoKind]
NoResume == [resume |-> NoReference]
Watching(i) == [at |-> "tick", instance |-> i, resuming |-> TRUE, cloning |-> TRUE]

VARIABLES
    pane,       \* the Session's and the Server's maps for the Pane
    job,        \* what runs in the terminal, and whether its shell has ended
    detector, reports,
    shown,      \* the agent the Clients are told of, and whether its Done is unseen
    control,    \* AgentControl and the pending clone
    waits,      \* one per connection
    asker,      \* a connection that prepares a launch outside the lock
    probe,      \* the probe thread of the current terminal
    ender,      \* its monitor, once the shell has ended
    removal,    \* a Worktree removal that has stopped the terminal
    stopping,   \* how far the stop of the Server is
    reference,  \* the conversation the Session keeps for the next start
    agentSpent  \* what the environment has done, and what only properties read

agentVars == <<pane, job, detector, reports, shown, control, waits, asker, probe, ender, removal,
               stopping, reference, agentSpent>>

Budget == {"runs", "reports", "asks", "ends", "closes", "removals", "stops", "leaves", "refused",
           "blind", "panics", "looks"}
NothingHappens == [b \in Budget |-> 0]
Alone == [present |-> FALSE, restored |-> NoReference, clone |-> FALSE, agents |-> {},
          notices |-> {}, askers |-> {}, asks |-> {}, until |-> {}, budget |-> NothingHappens]

NoJob == [kind |-> NoKind, hidden |-> FALSE, dead |-> FALSE]
Forgotten ==
    [resume |-> NoResume, clone |-> FALSE, name |-> NoName, live |-> NoKind, generation |-> 0]

AgentInit(setting) ==
    LET i == IF setting.present THEN 1 ELSE 0 IN
    /\ pane = [open |-> setting.present, instance |-> i, terminal |-> i, next |-> i + 1,
               exited |-> FALSE, closing |-> FALSE]
    /\ job = NoJob /\ detector = NewDetector /\ reports = <<>>
    /\ shown = [agent |-> NoAgent, unseen |-> FALSE]
    /\ control = [Forgotten EXCEPT !.clone = setting.clone,
                    !.resume = IF setting.restored = NoReference THEN NoResume
                               ELSE [resume |-> setting.restored, submitted |-> FALSE]]
    /\ waits = [c \in Askers |-> NoWait]
    /\ asker = [c \in Askers |-> [at |-> "idle"]]
    /\ probe = IF setting.present THEN Watching(1) ELSE [at |-> "gone", instance |-> 0]
    /\ ender = "watching" /\ removal = "none" /\ stopping = "no"
    /\ reference = setting.restored
    /\ agentSpent = [setting |-> setting, left |-> setting.budget, typed |-> <<>>,
                     said |-> NoReference]

Left(b) == agentSpent.left[b] > 0
Spending(b) == [agentSpent EXCEPT !.left[b] = @ - 1]
Spend(b) == Left(b) /\ agentSpent' = Spending(b)

---------------------------------------------------------------------------
(* Who is in the Pane. *)

IsCurrent(i) == i # 0 /\ pane.instance = i
LiveInstance(p) == IF p.open /\ ~p.exited /\ ~p.closing THEN p.instance ELSE 0
RunningAgent == IF job.hidden THEN NoKind ELSE job.kind

NoInfo == [kind |-> NoKind]
AgentInfo(p, sh, ct) ==
    LET kind == IF ct.live # NoKind THEN ct.live ELSE ct.name.kind IN
    IF LiveInstance(p) = 0 \/ kind = NoKind THEN NoInfo
    ELSE [kind |-> kind, state |-> IF sh.agent.kind = kind THEN sh.agent.state ELSE "unknown",
          pending |-> ct.name # NoName /\ ct.name.pending]

Settled      == {"idle", "done", "blocked", "error"}
ReadyStates(k) == IF k \in StartupReports THEN Settled ELSE Settled \cup {"unknown"}

---------------------------------------------------------------------------
(* Waits. *)

WaitResult(w, p, sh, ct) ==
    LET info == AgentInfo(p, sh, ct) IN
    IF \/ LiveInstance(p) # w.instance \/ ct.generation # w.generation
       \/ info.kind # w.kind
    THEN "error"
    ELSE IF w.needs_change \/ info.pending \/ info.state \notin w.until THEN "waiting"
    ELSE IF RunningAgent # w.kind \/ (w.starting /\ info.state \in {"blocked", "error"})
    THEN "error" ELSE "ready"

Completed(ws, p, sh, ct) ==
    [c \in Askers |->
        IF ws[c] # NoWait /\ WaitResult(ws[c], p, sh, ct) # "waiting" THEN NoWait ELSE ws[c]]

Wait(kind, until, needs_change, starting) ==
    [instance |-> pane.instance, generation |-> control.generation, kind |-> kind,
     until |-> until, needs_change |-> needs_change, starting |-> starting]

(* The waits and the name that are over: the terminal is not theirs any more,  *)
(* or their time is up. A launch's name and wait have the same deadline.      *)
Expired(ws, late, lateName) ==
    [c \in Askers |->
        IF ws[c] # NoWait /\ (\/ c \in late \/ LiveInstance(pane) # ws[c].instance
                             \/ (ws[c].starting /\ lateName))
        THEN NoWait ELSE ws[c]]

NameExpired(name, late) ==
    IF name # NoName /\ (LiveInstance(pane) # name.instance \/ (late /\ name.pending))
    THEN NoName ELSE name

ExpireAgentOperations(late, lateName) ==
    /\ stopping = "no"
    /\ waits' = Expired(waits, late, lateName)
    /\ control' = [control EXCEPT !.name = NameExpired(@, lateName)]
    /\ UNCHANGED <<pane, job, detector, reports, shown, asker, probe, ender, removal, stopping,
                   reference, agentSpent>>

---------------------------------------------------------------------------
(* The agent's process and what the probe makes of it. *)

RunAgent(k, hidden) ==
    /\ pane.open /\ job = NoJob /\ Spend("runs")
    /\ job' = [kind |-> k, hidden |-> hidden, dead |-> FALSE]
    /\ UNCHANGED <<pane, detector, reports, shown, control, waits, asker, probe, ender, removal,
                   stopping, reference>>

(* The conversation the running agent has named since the Server knows it.    *)
Said(n) ==
    IF n.type # "hook" \/ n.agent # job.kind \/ detector.agent # job.kind THEN agentSpent.said
    ELSE IF n.conversation # NoConversation THEN Reference(n.agent, n.conversation)
    ELSE IF StartsConversation(n) THEN NoReference ELSE agentSpent.said

Report(n) ==
    /\ job.kind # NoKind /\ ~job.dead /\ Left("reports")
    /\ n.type \in {"prompt", "reset"} => detector.program_status
    /\ reports' = Append(IF Len(reports) = MaxReports THEN Tail(reports) ELSE reports, n)
    /\ agentSpent' = [Spending("reports") EXCEPT !.said =
                         IF Len(reports) = MaxReports THEN NoReference ELSE Said(n)]
    /\ UNCHANGED <<pane, job, detector, shown, control, waits, asker, probe, ender, removal,
                   stopping, reference>>

Unsaid == [agentSpent EXCEPT !.said = IF stopping = "frozen" THEN @ ELSE NoReference]

ExitAgent ==
    /\ job.kind # NoKind
    /\ job' = NoJob
    /\ agentSpent' = Unsaid
    /\ UNCHANGED <<pane, detector, reports, shown, control, waits, asker, probe, ender, removal,
                   stopping, reference>>

(* The shell ends, and the terminal reports the end of its output. *)
EndShell ==
    /\ ~job.dead /\ pane.terminal # 0 /\ Left("ends")
    /\ job' = [NoJob EXCEPT !.dead = TRUE]
    /\ agentSpent' = [Unsaid EXCEPT !.left["ends"] = @ - 1]
    /\ UNCHANGED <<pane, detector, reports, shown, control, waits, asker, probe, ender, removal,
                   stopping, reference>>

RecordedResume(p, resume) ==
    IF ~p.open THEN reference ELSE IF p.exited THEN NoReference ELSE resume

(* agent_process_update: what the Server keeps about the agent the probe names. *)
NamedAfter(name, next) ==
    IF name = NoName THEN name
    ELSE IF (name.observed /\ next # name.kind) \/ next \notin {NoKind, name.kind} THEN NoName
    ELSE IF next = name.kind THEN [name EXCEPT !.observed = TRUE] ELSE name

RunEnds(next) == control.live # NoKind /\ control.live # next

ProcessUpdated(next) ==
    [control EXCEPT !.resume = IF next # NoKind THEN NoResume ELSE @,
                    !.live = next,
                    !.generation = IF RunEnds(next) THEN @ + 1 ELSE @,
                    !.name = NamedAfter(@, next)]

(* apply_agent_refresh and agent_state_changed. *)
Unseen(next, focused) ==
    IF next.state # "done" THEN FALSE
    ELSE IF shown.agent.state # "done" THEN ~focused ELSE shown.unseen

LaunchEnded(ct, next) ==
    IF ct.name # NoName /\ ct.name.observed /\ next # NoAgent /\ next.state \in ReadyStates(next.kind)
    THEN [ct EXCEPT !.name.pending = FALSE] ELSE ct

Changed(ws, next) ==
    [c \in Askers |->
        IF ws[c] = NoWait THEN NoWait
        ELSE [ws[c] EXCEPT !.needs_change = FALSE]]

Refresh(next, ct) ==
    IF next = shown.agent
    THEN /\ control' = ct /\ shown' = shown
         /\ waits' = Completed(waits, pane, shown, ct)
    ELSE \E focused \in BOOLEAN :
         LET sh == [agent |-> next, unseen |-> Unseen(next, focused)] IN
         /\ shown' = sh /\ control' = LaunchEnded(ct, next)
         /\ waits' = Completed(Changed(waits, next), pane, sh, LaunchEnded(ct, next))

(* Someone looks at the Pane. *)
LookAt ==
    /\ shown.unseen /\ Spend("looks")
    /\ shown' = [shown EXCEPT !.unseen = FALSE]
    /\ UNCHANGED <<pane, job, detector, reports, control, waits, asker, probe, ender, removal,
                   stopping, reference>>

---------------------------------------------------------------------------
(* The probe thread, one terminal's. Its sections under the lock do nothing   *)
(* once the terminal has been replaced, so only the current one's is kept.    *)

At(step) == probe.at = step
Goes(step) == probe' = [probe EXCEPT !.at = step]
ProbeOnly == UNCHANGED <<pane, job, detector, reports, shown, control, waits, asker, ender, removal,
                         stopping, reference, agentSpent>>

(* The monitor that ended has hung up on it. *)
HangUp == At("tick") /\ ender = "done" /\ Goes("gone") /\ ProbeOnly

MayType(i) == IsCurrent(i) /\ ~pane.closing
MayResume == MayType(probe.instance) /\ control.live = NoKind /\ control.resume # NoResume
ShellIsReady == job = NoJob

CheckResume ==
    /\ At("tick") /\ ender # "done"
    /\ \/ ~probe.resuming /\ Goes("clone")
       \/ probe.resuming /\ ~MayResume
          /\ probe' = [probe EXCEPT !.at = "clone", !.resuming = FALSE]
       \/ probe.resuming /\ MayResume /\ Goes("late resume")
       \/ /\ probe.resuming /\ MayResume
          /\ Goes(IF control.resume.submitted \/ ~ShellIsReady THEN "clone" ELSE "resume")
    /\ ProbeOnly

Typed(what) == [agentSpent EXCEPT !.typed = Append(@, <<what, pane.instance>>)]
Refused == Left("refused") /\ agentSpent' = Spending("refused")
GivesUp == control' = [control EXCEPT !.resume = NoResume]
           /\ probe' = [probe EXCEPT !.at = "clone", !.resuming = FALSE]

(* The lock is taken again: the same terminal must still own the reservation. *)
TypeResume ==
    /\ At("resume") \/ At("late resume")
    /\ \/ /\ ~MayResume
          /\ probe' = [probe EXCEPT !.at = "clone", !.resuming = FALSE]
          /\ UNCHANGED <<control, detector, agentSpent>>
       \/ At("late resume") /\ MayResume /\ GivesUp /\ UNCHANGED <<detector, agentSpent>>
       \/ /\ At("resume") /\ MayResume
          /\ detector' = Restoring(detector, control.resume.resume)
          /\ \/ /\ control' = [control EXCEPT !.resume.submitted = TRUE]
                /\ agentSpent' = Typed("resume")
                /\ Goes("clone")
             \/ Refused /\ Goes("clone") /\ UNCHANGED control      \* full for a moment
             \/ Refused /\ GivesUp
    /\ UNCHANGED <<pane, job, reports, shown, waits, asker, ender, removal, stopping, reference>>

(* Keys that came first, a shell that does not come up in time and one that   *)
(* cannot be typed into leave the command printed instead.                    *)
CheckClone ==
    /\ At("clone")
    /\ \/ ~probe.cloning /\ Goes("poll") /\ UNCHANGED control
       \/ /\ probe.cloning /\ ~MayType(probe.instance)
          /\ probe' = [probe EXCEPT !.at = "poll", !.cloning = FALSE]
          /\ control' = [control EXCEPT !.clone = FALSE]
       \/ /\ probe.cloning /\ MayType(probe.instance) /\ ~control.clone
          /\ probe' = [probe EXCEPT !.at = "poll", !.cloning = FALSE]
          /\ UNCHANGED control
       \/ /\ probe.cloning /\ MayType(probe.instance) /\ control.clone
          /\ Goes("no clone") \/ Goes(IF ShellIsReady THEN "type clone" ELSE "poll")
          /\ UNCHANGED control
    /\ UNCHANGED <<pane, job, detector, reports, shown, waits, asker, ender, removal, stopping,
                   reference, agentSpent>>

TypeClone ==
    /\ At("type clone") \/ At("no clone")
    /\ \/ /\ At("type clone") /\ IsCurrent(probe.instance) /\ control.clone
          /\ Refused /\ Goes("poll") /\ UNCHANGED control           \* full for a moment
       \/ /\ probe' = [probe EXCEPT !.at = "poll", !.cloning = FALSE]
          /\ control' = [control EXCEPT !.clone = IF IsCurrent(probe.instance) THEN FALSE ELSE @]
          /\ agentSpent' = IF At("type clone") /\ IsCurrent(probe.instance) /\ control.clone
                           THEN Typed("clone") ELSE agentSpent
    /\ UNCHANGED <<pane, job, detector, reports, shown, waits, asker, ender, removal, stopping,
                   reference>>

Frozen == stopping \in {"frozen", "closed"}

(* Whether to look at the process table, and the notices to apply after it.   *)
Poll(looks) ==
    /\ At("poll") /\ ~Frozen
    /\ (detector.agent = NoKind /\ \E n \in Range(reports) : NamesAgent(n)) => looks
    /\ probe' = [at |-> IF looks THEN "looking" ELSE "looked", instance |-> probe.instance,
                 resuming |-> probe.resuming, cloning |-> probe.cloning, result |-> "none",
                 count |-> Len(reports)]
    /\ ProbeOnly

PollFrozen ==
    /\ At("poll") /\ Frozen
    /\ probe' = [at |-> "polled", instance |-> probe.instance, resuming |-> probe.resuming,
                 cloning |-> probe.cloning, publish |-> <<>>, resume |-> detector.resume]
    /\ ProbeOnly

Sees == IF job.dead \/ job.hidden THEN "unidentified" ELSE IF job.kind = NoKind THEN "shell" ELSE job.kind

LookAtProcesses ==
    /\ At("looking")
    /\ \/ /\ probe' = [probe EXCEPT !.at = "looked", !.result = Sees]
          /\ UNCHANGED agentSpent
       \/ /\ Spend("blind")                                        \* unreadable for once
          /\ probe' = [probe EXCEPT !.at = "looked", !.result = "unidentified"]
    /\ UNCHANGED <<pane, job, detector, reports, shown, control, waits, asker, ender, removal,
                   stopping, reference>>

Polled(d, publish) ==
    probe' = [at |-> "polled", instance |-> probe.instance,
              resuming |-> probe.resuming, cloning |-> probe.cloning, publish |-> publish, resume |-> d.resume]

ApplyPoll ==
    /\ At("looked")
    /\ LET count == IF probe.count < Len(reports) THEN probe.count ELSE Len(reports)
           r     == Ticked(detector, probe.result, SubSeq(reports, 1, count))
       IN IF Frozen THEN Polled(detector, <<>>) /\ UNCHANGED <<detector, reports>>
          ELSE /\ Polled(r.detector, r.publish)
               /\ detector' = r.detector
               /\ reports' = SubSeq(reports, count + 1, Len(reports))
    /\ UNCHANGED <<pane, job, shown, control, waits, asker, ender, removal, stopping, reference,
                   agentSpent>>

NextTick == probe' = [at |-> "tick", instance |-> probe.instance, resuming |-> probe.resuming,
                      cloning |-> probe.cloning]

(* What the tick found reaches the Session, unless the terminal is another. *)
CommitPoll ==
    /\ At("polled")
    /\ IF probe.publish = <<>> /\ probe.resume = <<>>
       THEN NextTick /\ UNCHANGED <<shown, control, waits, reference>>
       ELSE IF ~IsCurrent(probe.instance)
       THEN probe' = [at |-> "gone", instance |-> probe.instance]
            /\ UNCHANGED <<shown, control, waits, reference>>
       ELSE /\ NextTick
            /\ reference' = IF probe.resume = <<>> THEN reference
                            ELSE RecordedResume(pane, probe.resume[1])
            /\ IF probe.publish = <<>> THEN UNCHANGED <<shown, control, waits>>
               ELSE Refresh(probe.publish[1], ProcessUpdated(detector.agent))
    /\ UNCHANGED <<pane, job, detector, reports, asker, ender, removal, stopping, agentSpent>>

(* A panic on the probe thread: what the agent last said may no longer hold. *)
ProbePanics ==
    /\ probe.at # "gone" /\ Spend("panics")
    /\ probe' = [at |-> "gone", instance |-> probe.instance]
    /\ IF IsCurrent(probe.instance) /\ shown.agent # NoAgent
       THEN Refresh([shown.agent EXCEPT !.state = "unknown", !.detail = NoDetail], control)
       ELSE UNCHANGED <<shown, control, waits>>
    /\ UNCHANGED <<pane, job, detector, reports, asker, ender, removal, stopping, reference>>

ProbeStep ==
    \/ CheckResume \/ TypeResume \/ CheckClone \/ TypeClone \/ PollFrozen
    \/ (\E looks \in BOOLEAN : Poll(looks)) \/ LookAtProcesses \/ CommitPoll \/ HangUp

---------------------------------------------------------------------------
(* What Clients ask. *)

MayAsk(c, request) ==
    c \in agentSpent.setting.askers /\ request \in agentSpent.setting.asks
    /\ waits[c] = NoWait /\ asker[c].at = "idle" /\ Left("asks") /\ stopping = "no"

(* Outside the lock: the terminal's instance, and whether its shell is ready. *)
PrepareStart(c) ==
    /\ MayAsk(c, "start") /\ agentSpent' = Spending("asks")
    /\ asker' = [asker EXCEPT ![c] = [at |-> "launching", instance |-> pane.instance,
                                      ready |-> pane.terminal # 0 /\ ShellIsReady]]
    /\ UNCHANGED <<pane, job, detector, reports, shown, control, waits, probe, ender, removal,
                   stopping, reference>>

Start(c, k, late, lateName) ==
    LET name == NameExpired(control.name, lateName)
        ws   == Expired(waits, late, lateName)
        ct   == [control EXCEPT !.name = [kind |-> k, instance |-> pane.instance,
                                          pending |-> TRUE, observed |-> FALSE]]
        free == name = NoName /\ control.live = NoKind /\ control.resume = NoResume
        may  == /\ LiveInstance(pane) # 0 /\ free /\ asker[c].ready
                /\ asker[c].instance = pane.instance
    IN
    /\ asker[c].at = "launching"
    /\ asker' = [asker EXCEPT ![c] = [at |-> "idle"]]
    /\ \/ /\ stopping # "no"
          /\ UNCHANGED <<control, waits, agentSpent>>
       \/ /\ stopping = "no" /\ ~may
          /\ control' = [control EXCEPT !.name = name] /\ waits' = ws
          /\ UNCHANGED agentSpent
       \/ /\ stopping = "no" /\ may /\ Refused
          /\ control' = [control EXCEPT !.name = name] /\ waits' = ws
       \/ /\ stopping = "no" /\ may
          /\ control' = ct
          /\ waits' = Completed([ws EXCEPT ![c] = Wait(k, ReadyStates(k), FALSE, TRUE)],
                                pane, shown, ct)
          /\ UNCHANGED agentSpent
    /\ UNCHANGED <<pane, job, detector, reports, shown, probe, ender, removal, stopping, reference>>

Info == AgentInfo(pane, shown, control)
AtPrompt == Info.state \in {"idle", "done", "error"}
FirstTurn == Info.state = "unknown" /\ Info.kind \notin StartupReports

(* A prompt that waits for the states in `until`. *)
Prompt(c, until) ==
    /\ MayAsk(c, "prompt") /\ agentSpent' = Spending("asks")
    /\ Info # NoInfo /\ Info.kind \in Hooked
    /\ ~Info.pending /\ (AtPrompt \/ FirstTurn) /\ RunningAgent = Info.kind
    /\ waits' = Completed([waits EXCEPT ![c] = Wait(Info.kind, until, TRUE, FALSE)],
                          pane, shown, control)
    /\ UNCHANGED <<pane, job, detector, reports, shown, control, asker, probe, ender, removal,
                   stopping, reference>>

AwaitAgent(c, until) ==
    /\ MayAsk(c, "wait") /\ agentSpent' = Spending("asks")
    /\ Info # NoInfo /\ Info.kind \in Hooked
    /\ waits' = Completed([waits EXCEPT ![c] = Wait(Info.kind, until, FALSE, FALSE)],
                          pane, shown, control)
    /\ UNCHANGED <<pane, job, detector, reports, shown, control, asker, probe, ender, removal,
                   stopping, reference>>

Leave(c) ==
    /\ asker[c].at = "idle" /\ waits[c] # NoWait /\ Spend("leaves")
    /\ asker' = [asker EXCEPT ![c] = [at |-> "left"]]
    /\ waits' = [waits EXCEPT ![c] = NoWait]
    /\ UNCHANGED <<pane, job, detector, reports, shown, control, probe, ender, removal, stopping,
                   reference>>

---------------------------------------------------------------------------
(* Who takes the terminal away. *)

Unshown == [agent |-> NoAgent, unseen |-> FALSE]
Killed == [NoJob EXCEPT !.dead = TRUE]

(* install_terminal. *)
Install(p) ==
    /\ pane' = [p EXCEPT !.instance = p.next, !.terminal = p.next, !.next = @ + 1,
                         !.closing = FALSE, !.exited = FALSE]
    /\ job' = NoJob /\ detector' = NewDetector /\ reports' = <<>>
    /\ control' = Forgotten /\ shown' = Unshown
    /\ probe' = Watching(p.next) /\ ender' = "watching"
    /\ agentSpent' = [agentSpent EXCEPT !.said = NoReference]

(* The monitor reaps the ended terminal outside the lock, and keeps it after. *)
TakeEnded ==
    /\ job.dead /\ ender = "watching" /\ pane.terminal # 0
    /\ IF stopping # "no" \/ pane.instance = 0
       THEN ender' = "done" /\ UNCHANGED pane
       ELSE /\ ender' = "taken"
            /\ pane' = [pane EXCEPT !.instance = 0, !.terminal = 0, !.closing = TRUE]
    /\ UNCHANGED <<job, detector, reports, shown, control, waits, asker, probe, removal, stopping,
                   reference, agentSpent>>

KeepEnded ==
    /\ ender = "taken"
    /\ ender' = "done"
    /\ IF ~pane.open \/ pane.terminal # 0 THEN UNCHANGED <<pane, shown, control, reference>>
       ELSE /\ pane' = [pane EXCEPT !.instance = probe.instance, !.terminal = probe.instance,
                                    !.closing = FALSE, !.exited = TRUE]
            /\ reference' = NoReference
            /\ control' = Forgotten
            /\ shown' = Unshown
    /\ UNCHANGED <<job, detector, reports, waits, asker, probe, removal, stopping, agentSpent>>

Closed(p) == [p EXCEPT !.open = FALSE, !.instance = 0, !.terminal = 0, !.exited = FALSE,
                       !.closing = FALSE]

EndPane ==
    /\ pane.open /\ stopping = "no" /\ Left("closes")
    /\ pane' = Closed(pane) /\ control' = Forgotten /\ shown' = Unshown
    /\ job' = Killed /\ reference' = NoReference
    /\ ender' = IF ender = "watching" THEN "done" ELSE ender
    /\ agentSpent' = [Unsaid EXCEPT !.left["closes"] = @ - 1]
    /\ UNCHANGED <<detector, reports, waits, asker, probe, removal, stopping>>

(* A Worktree removal stops the terminals before Git, and brings back shells   *)
(* when Git fails.                                                            *)
BeginRemoval ==
    /\ pane.open /\ stopping = "no" /\ removal = "none" /\ Left("removals")
    /\ removal' = IF pane.terminal = 0 THEN "without" ELSE IF pane.exited THEN "exited" ELSE "live"
    /\ IF pane.terminal = 0 THEN UNCHANGED <<pane, job, ender>>
       ELSE /\ pane' = [pane EXCEPT !.instance = 0, !.terminal = 0, !.closing = TRUE]
            /\ job' = Killed /\ ender' = "done"
    /\ agentSpent' = [Unsaid EXCEPT !.left["removals"] = @ - 1]
    /\ UNCHANGED <<detector, reports, shown, control, waits, asker, probe, stopping, reference>>

KeepsPane == pane.open /\ pane.terminal = 0

(* restore_failed_removal: a fresh shell, or the exited terminal again. *)
RemovalFails ==
    /\ removal \notin {"none", "done"} /\ removal' = "done"
    /\ \/ /\ stopping # "no" \/ removal = "without" \/ ~KeepsPane
          /\ UNCHANGED <<pane, job, detector, reports, shown, control, probe, ender, agentSpent>>
       \/ stopping = "no" /\ removal = "live" /\ KeepsPane /\ Install(pane)
       \/ /\ stopping = "no" /\ removal # "without" /\ KeepsPane
          /\ pane' = [pane EXCEPT !.terminal = pane.next, !.next = @ + 1, !.instance = 0,
                                  !.closing = FALSE, !.exited = TRUE]
          /\ control' = Forgotten /\ shown' = Unshown
          /\ UNCHANGED <<job, detector, reports, probe, ender, agentSpent>>
    /\ UNCHANGED <<waits, asker, stopping, reference>>

(* The Workspace goes, whatever else happened to its Panes meanwhile. *)
RemovalSucceeds ==
    /\ removal \notin {"none", "done"} /\ removal' = "done"
    /\ pane' = Closed(pane) /\ control' = Forgotten /\ shown' = Unshown /\ reference' = NoReference
    /\ UNCHANGED <<job, detector, reports, waits, asker, probe, ender, stopping, agentSpent>>

BeginStop ==
    /\ stopping = "no" /\ Spend("stops")
    /\ stopping' = "stopping"
    /\ UNCHANGED <<pane, job, detector, reports, shown, control, waits, asker, probe, ender, removal,
                   reference>>

(* Once the operations under way have ended, under one lock. *)
Freeze ==
    /\ stopping = "stopping" /\ ender # "taken" /\ removal \in {"none", "done"}
    /\ stopping' = "frozen"
    /\ waits' = [c \in Askers |-> NoWait]
    /\ pane' = [pane EXCEPT !.instance = 0]
    /\ UNCHANGED <<job, detector, reports, shown, control, asker, probe, ender, removal, reference,
                   agentSpent>>

(* Broken: what only the terminal has heard is dropped with it. *)
CloseTerminalsUnheard ==
    /\ stopping = "frozen" /\ stopping' = "closed"
    /\ job' = Killed
    /\ UNCHANGED <<pane, detector, reports, reference, shown, control, waits, asker, probe, ender,
                   removal, agentSpent>>

(* The terminal is closed, and what the agent said to the end is merged. *)
CloseTerminals ==
    /\ stopping = "frozen" /\ stopping' = "closed"
    /\ LET last == ObserveAll(Quietly(detector), reports).detector IN
       IF pane.terminal = 0 THEN UNCHANGED <<detector, reports, reference>>
       ELSE /\ detector' = last /\ reports' = <<>>
            /\ reference' = IF last.resume = <<>> THEN reference
                            ELSE RecordedResume(pane, last.resume[1])
    /\ job' = Killed
    /\ UNCHANGED <<pane, shown, control, waits, asker, probe, ender, removal, agentSpent>>

---------------------------------------------------------------------------

Asks(c) ==
    \/ PrepareStart(c) \/ Leave(c)
    \/ \E k \in AgentKinds, late \in SUBSET Askers, lateName \in BOOLEAN : Start(c, k, late, lateName)
    \/ \E until \in agentSpent.setting.until : Prompt(c, until) \/ AwaitAgent(c, until)

Environment ==
    \/ \E a \in agentSpent.setting.agents : RunAgent(a[1], a[2])
    \/ \E n \in agentSpent.setting.notices : Report(n)
    \/ ExitAgent \/ EndShell \/ LookAt \/ EndPane \/ BeginRemoval \/ BeginStop \/ ProbePanics
    \/ \E c \in Askers : Asks(c)
    \/ \E late \in SUBSET Askers, lateName \in BOOLEAN : ExpireAgentOperations(late, lateName)

ServerStep == TakeEnded \/ KeepEnded \/ RemovalFails \/ RemovalSucceeds \/ Freeze

AgentNext == Environment \/ ProbeStep \/ ApplyPoll \/ ServerStep \/ CloseTerminals

(* The threads run, the process table is looked at again and again, and       *)
(* the waits are looked through. No deadline need ever be reached. ApplyPoll   *)
(* and CloseTerminals are enabled exactly at their steps: the last conjuncts  *)
(* are their weak fairness.                                                   *)
AgentFairness ==
    /\ WF_agentVars(ProbeStep) /\ SF_agentVars(Poll(TRUE)) /\ WF_agentVars(ServerStep)
    /\ WF_agentVars(ExpireAgentOperations({}, FALSE))
    /\ \A c \in Askers : WF_agentVars(\E k \in AgentKinds : Start(c, k, {}, FALSE))
    /\ []<>~At("looked") /\ []<>(stopping # "frozen")

---------------------------------------------------------------------------

(* A wait that is met, or whose agent or terminal is another, is answered     *)
(* whatever its deadline: the Server looks at the waits whenever the agent    *)
(* changes, and goes through those of terminals that went away                *)
(* (complete_agent_waits, expire_agent_operations).                           *)
KnownAnswer(c) ==
    /\ waits[c] # NoWait
    /\ \/ LiveInstance(pane) # waits[c].instance \/ control.generation # waits[c].generation
       \/ WaitResult(waits[c], pane, shown, control) = "ready"
AnswersComeDue == \A c \in Askers : KnownAnswer(c) ~> ~KnownAnswer(c)

(* Once nothing but the shell runs in a live terminal, the Clients are told   *)
(* that the agent is gone, however it was found and whatever it last said.    *)
OnlyTheShell == job = NoJob /\ pane.instance # 0 /\ probe.at # "gone" /\ ~pane.exited
ForgetsTheDead == <>[]OnlyTheShell => <>[](shown.agent = NoAgent)

(* When the Server stops, the conversation kept for its next start is the one *)
(* the running agent named last, even if only its terminal had heard it.      *)
StopKeepsConversation ==
    stopping = "closed" /\ pane.open /\ ~pane.exited /\ agentSpent.said # NoReference
    => reference = agentSpent.said

(* A restored conversation and a clone's command are typed at most once, and  *)
(* never into a terminal that has replaced the one they were meant for.       *)
TypedOnce ==
    \A i \in DOMAIN agentSpent.typed :
        /\ agentSpent.typed[i][2] = 1
        /\ \A j \in DOMAIN agentSpent.typed : agentSpent.typed[i] = agentSpent.typed[j] => i = j

(* What was said to an agent is neither lost nor said twice.                 *)
ConversationsReturn == StopKeepsConversation /\ TypedOnce

(* The Pane's Terminal ended, and its Agent with it (terminal_state.rs:162).  *)
ExitedHasNoAgent == pane.exited => shown.agent = NoAgent
=============================================================================
