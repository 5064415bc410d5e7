--------------------------- MODULE ClientRequests ---------------------------
(* What the connections of Clients ask the Server for beside the Session     *)
(* (server/client.rs, terminal_state.rs, clipboard_image.rs, config.rs): the *)
(* focus, the sizing and the mouse they share, images pasted from their      *)
(* clipboards, settings, and reads of the disk, which one thread per         *)
(* connection carries out in order or hands to a worker; and the stop of the *)
(* Server around them (server.rs).                                           *)
(*                                                                          *)
(* A Pane's layout is not here, only whether its terminal is there and which *)
(* one it is.  A setting is one of two: the shell, and the proxy, which only *)
(* a connection of the host may change.                                      *)
EXTENDS Integers, FiniteSets

CONSTANTS
    Seats,          \* connections of Clients
    HostSeats,      \* those that are local or over SSH
    Screens,        \* Panes
    Unheld          \* neither of them
ASSUME NobodyIsUnheld == Unheld \notin Seats \cup Screens

VARIABLES
    seats,          \* per connection: where its thread is, with what
    screens,        \* per Pane: its terminal
    desk,           \* focused_terminal, sizing_client, mouse_client, terminal_colors
    images,         \* the files of pasted images, and who removes which
    prefs,          \* the settings: published, in config.toml, who writes
    life,           \* the Server's process
    seatLeft        \* bounds: how often each of these may still happen

seatVars == <<seats, screens, desk, images, prefs, life, seatLeft>>

SeatActs == {"focuses", "resizes", "presses", "colors", "rings", "opens", "closes", "ends",
             "removes", "pastes", "sets", "asks", "reads", "leaves", "stops", "restarts",
             "faults", "crashes", "days", "starts"}
SpendSeat(what) == seatLeft[what] > 0 /\ seatLeft' = [seatLeft EXCEPT ![what] = @ - 1]
SeatSpendsNothing == UNCHANGED seatLeft

SettingKeys == {"shell", "proxy"}
NoFocus == <<Unheld, Unheld>>
NewDesk == [focus |-> NoFocus, sizing |-> Unheld, mouse |-> Unheld, colors |-> 0]
NewLife == [at |-> "running", stopping |-> FALSE, stop |-> FALSE, run |-> 1, instances |-> 2,
            swept |-> FALSE, crashed |-> {}]

Seat == [at |-> "reading", pane |-> Unheld, instance |-> 0, image |-> <<0, 0>>, key |-> "shell",
         value |-> 0, next |-> [k \in SettingKeys |-> 0], errands |-> 0, stops |-> FALSE]
IsAt(c, at) == seats[c].at = at
Moves(c, at) == seats' = [seats EXCEPT ![c].at = at]

-----------------------------------------------------------------------------
(* Terminals.  While one closes it is in nobody's hands but the thread that  *)
(* closes it.                                                               *)

InSession(p) == screens[p].at \in {"live", "closing", "exited"}
Live(p) == screens[p].at = "live"
Reachable(p) == screens[p].at \in {"live", "exited"}

(* Broken: a disk that is read counts, too.                                *)
WithReads == {c \in Seats : seats[c].at \in {"checked", "staged", "listing"}}
             \cup {p \in Screens : screens[p].at = "closing"}
(* A Client leaves operations that began before the stop to end.            *)
Operations == {c \in Seats : seats[c].at \in {"checked", "staged"}}
              \cup {p \in Screens : screens[p].at = "closing"}

NewTerminal(instance) == [at |-> "live", by |-> "none", was |-> "live", instance |-> instance,
                    told |-> FALSE, size |-> Unheld, held |-> FALSE, colors |-> desk.colors,
                    unseen |-> FALSE]
Installs(p) ==
    /\ screens' = [screens EXCEPT ![p] = NewTerminal(life.instances)]
    /\ life' = [life EXCEPT !.instances = @ + 1]

OpenPane(p) ==
    /\ ~life.stopping /\ screens[p].at = "none" /\ SpendSeat("opens")
    /\ Installs(p)
    /\ UNCHANGED <<seats, desk, images, prefs>>

DropPane(p) ==
    /\ ~life.stopping /\ InSession(p) /\ SpendSeat("closes")
    /\ screens' = [screens EXCEPT ![p] = [@ EXCEPT !.at = "gone", !.unseen = FALSE]]
    /\ UNCHANGED <<seats, desk, images, prefs, life>>

(* The shell ends: its terminal is taken, reaped, and put back as it was.    *)
EndTerminal(p) ==
    /\ ~life.stopping /\ Live(p) /\ SpendSeat("ends")
    /\ screens' = [screens EXCEPT ![p] = [@ EXCEPT !.at = "closing", !.by = "end"]]
    /\ UNCHANGED <<seats, desk, images, prefs, life>>
KeepEndedTerminal(p) ==
    /\ screens[p].at = "closing" /\ screens[p].by = "end"
    /\ screens' = [screens EXCEPT ![p] = [@ EXCEPT !.at = "exited", !.by = "none"]]
    /\ SeatSpendsNothing /\ UNCHANGED <<seats, desk, images, prefs, life>>

(* The terminals of a worktree are stopped before it is removed; when it     *)
(* cannot be, a new one is started for each that was alive.                  *)
StopForRemoval(p) ==
    /\ ~life.stopping /\ Reachable(p) /\ SpendSeat("removes")
    /\ screens' = [screens EXCEPT ![p] = [@ EXCEPT !.at = "closing", !.by = "removal", !.was = screens[p].at]]
    /\ UNCHANGED <<seats, desk, images, prefs, life>>
EndRemoval(p) ==
    /\ screens[p].at = "closing" /\ screens[p].by = "removal"
    /\ \/ screens' = [screens EXCEPT ![p] = [@ EXCEPT !.at = "gone", !.unseen = FALSE]] /\ UNCHANGED life
       \/ screens[p].was = "live" /\ Installs(p)
       \/ /\ screens[p].was = "exited" /\ UNCHANGED life
          /\ screens' = [screens EXCEPT ![p] = [@ EXCEPT !.at = "exited", !.by = "none"]]
    /\ SeatSpendsNothing /\ UNCHANGED <<seats, desk, images, prefs>>

Rings(p) ==
    /\ Live(p) /\ SpendSeat("rings")
    /\ screens' = [screens EXCEPT ![p].unseen = @ \/ desk.focus[1] # p]
    /\ UNCHANGED <<seats, desk, images, prefs, life>>

-----------------------------------------------------------------------------
(* Commands to a terminal                                                   *)

Commands(c, p) == IsAt(c, "reading") /\ ~life.stopping /\ InSession(p)
SeatKeeps == UNCHANGED <<seats, images, prefs, life>>

(* clear_terminal_focus, on the terminals given.                            *)
WithoutFocus(ss) ==
    [p \in Screens |-> IF p = desk.focus[1] /\ Reachable(p) THEN [ss[p] EXCEPT !.told = FALSE] ELSE ss[p]]
Hears(ss, p, on) ==
    [ss EXCEPT ![p] = [@ EXCEPT !.told = IF Live(p) THEN on ELSE ss[p].told, !.unseen = ss[p].unseen /\ ~on]]

(* record_terminal_focus: the last to say so has it, and a Client that does  *)
(* not hold it cannot take it away.                                         *)
ReportFocus(c, p) ==
    /\ Commands(c, p) /\ SpendSeat("focuses")
    /\ desk' = [desk EXCEPT !.focus = <<p, c>>, !.sizing = c]
    /\ screens' = Hears(IF desk.focus[1] = p THEN screens ELSE WithoutFocus(screens), p, TRUE)
    /\ SeatKeeps
HoldsFocus(c, p) == desk.focus = <<p, c>>
ReportBlur(c, p) ==
    /\ Commands(c, p) /\ SpendSeat("focuses")
    /\ desk' = [desk EXCEPT !.focus = IF HoldsFocus(c, p) THEN NoFocus ELSE @,
                            !.sizing = IF @ = c THEN Unheld ELSE @]
    /\ screens' = IF HoldsFocus(c, p) THEN Hears(screens, p, FALSE) ELSE screens
    /\ SeatKeeps

Resize(c, p) ==
    /\ Commands(c, p) /\ Live(p) /\ SpendSeat("resizes")
    /\ desk.sizing \in {c, Unheld}
    /\ screens' = [screens EXCEPT ![p].size = c]
    /\ UNCHANGED desk /\ SeatKeeps

(* The mouse moves with a button, without, or lets go.                      *)
Mouse(c, p) ==
    /\ Commands(c, p) /\ Live(p) /\ SpendSeat("presses")
    /\ desk' = [desk EXCEPT !.mouse = c]
    /\ \E held \in {TRUE, FALSE, screens[p].held} : screens' = [screens EXCEPT ![p].held = held]
    /\ SeatKeeps

(* set_terminal_colors does not ask whether the Server stops.               *)
SetColors(c, colors) ==
    /\ IsAt(c, "reading") /\ colors # desk.colors /\ SpendSeat("colors")
    /\ desk' = [desk EXCEPT !.colors = colors]
    /\ screens' = [p \in Screens |-> IF Reachable(p) THEN [screens[p] EXCEPT !.colors = colors] ELSE screens[p]]
    /\ SeatKeeps

-----------------------------------------------------------------------------
(* PasteImage: the terminal is looked at, the file written without the lock, *)
(* the terminal looked at again.                                            *)

Image(c) == seats[c].image
BeginPaste(c, p) ==
    /\ Commands(c, p) /\ Live(p) /\ SpendSeat("pastes")
    /\ seats' = [seats EXCEPT ![c] = [@ EXCEPT !.at = "checked", !.pane = p, !.instance = screens[p].instance]]
    /\ UNCHANGED <<screens, desk, images, prefs, life>>

(* sweep_stale, once per process, before its first image.                   *)
Swept(disk) == IF life.swept THEN disk ELSE disk \ images.old
StageImage(c) ==
    /\ IsAt(c, "checked")
    /\ \/ LET image == <<life.run, images.made + 1>>
          IN  /\ seats' = [seats EXCEPT ![c] = [@ EXCEPT !.at = "staged", !.image = image]]
              /\ images' = [images EXCEPT !.made = @ + 1, !.disk = Swept(@) \cup {image}]
              /\ SeatSpendsNothing
       \/ /\ SpendSeat("faults") /\ Moves(c, "reading")
          /\ images' = [images EXCEPT !.disk = Swept(@)]
    /\ life' = [life EXCEPT !.swept = TRUE]
    /\ UNCHANGED <<screens, desk, prefs>>

(* Broken: the Pane is asked after, not the terminal in it.                 *)
SamePane(c) == ~life.stopping /\ Live(seats[c].pane)
SameTarget(c) ==
    /\ ~life.stopping /\ Live(seats[c].pane)
    /\ screens[seats[c].pane].instance = seats[c].instance
Pasted(c) ==
    [images EXCEPT !.staged[c] = @ \cup {Image(c)},
                   !.strayed = @ \/ screens[seats[c].pane].instance # seats[c].instance]
PasteImage(c) ==
    /\ IsAt(c, "staged")
    /\ images' = IF SameTarget(c) THEN Pasted(c) ELSE [images EXCEPT !.disk = @ \ {Image(c)}]
    /\ Moves(c, "reading")
    /\ SeatSpendsNothing /\ UNCHANGED <<screens, desk, prefs, life>>

-----------------------------------------------------------------------------
(* SetServerSettings: one writer at a time from what is published, through   *)
(* the file, to what is published next.                                     *)

AskSetting(c, key, value) ==
    /\ IsAt(c, "reading") /\ SpendSeat("sets")
    /\ key = "proxy" => c \in HostSeats
    /\ seats' = [seats EXCEPT ![c] = [@ EXCEPT !.at = "queued", !.key = key, !.value = value]]
    /\ UNCHANGED <<screens, desk, images, prefs, life>>

BeginSetting(c) ==
    /\ IsAt(c, "queued") /\ prefs.writer = Unheld
    /\ LET next == [prefs.published EXCEPT ![seats[c].key] = seats[c].value]
       IN  IF next = prefs.published THEN Moves(c, "reading") /\ UNCHANGED prefs
           ELSE /\ seats' = [seats EXCEPT ![c] = [@ EXCEPT !.at = "writing", !.next = next]]
                /\ prefs' = [prefs EXCEPT !.writer = c]
    /\ SeatSpendsNothing /\ UNCHANGED <<screens, desk, images, life>>

SaveSetting(c) ==
    /\ IsAt(c, "writing")
    /\ \/ /\ prefs' = [prefs EXCEPT !.file[seats[c].key] = seats[c].value]
          /\ Moves(c, "saved") /\ SeatSpendsNothing
       \/ /\ SpendSeat("faults") /\ Moves(c, "reading")
          /\ prefs' = [prefs EXCEPT !.writer = Unheld]
    /\ UNCHANGED <<screens, desk, images, life>>

PublishSetting(c) ==
    /\ IsAt(c, "saved") /\ Moves(c, "reading")
    /\ prefs' = [prefs EXCEPT !.published = seats[c].next, !.writer = Unheld]
    /\ SeatSpendsNothing /\ UNCHANGED <<screens, desk, images, life>>

-----------------------------------------------------------------------------
(* Reads of the disk: ListDirectory and ReadFile on the connection's thread, *)
(* the others by a worker that queues its answer.  A mount may hang.        *)

ReadOnTheLoop(c) ==
    /\ IsAt(c, "reading") /\ SpendSeat("reads") /\ Moves(c, "listing")
    /\ UNCHANGED <<screens, desk, images, prefs, life>>
EndRead(c) ==
    /\ IsAt(c, "listing") /\ Moves(c, "reading")
    /\ SeatSpendsNothing /\ UNCHANGED <<screens, desk, images, prefs, life>>

AskWorker(c) ==
    /\ IsAt(c, "reading") /\ SpendSeat("asks")
    /\ seats' = [seats EXCEPT ![c].errands = @ + 1]
    /\ UNCHANGED <<screens, desk, images, prefs, life>>
WorkerAnswers(c) ==
    /\ seats[c].errands > 0
    /\ seats' = [seats EXCEPT ![c].errands = @ - 1]
    /\ SeatSpendsNothing /\ UNCHANGED <<screens, desk, images, prefs, life>>

-----------------------------------------------------------------------------
(* The end of a connection, and of the Server                               *)

AskStop(c) ==
    /\ IsAt(c, "reading") /\ c \in HostSeats /\ SpendSeat("stops")
    /\ life' = [life EXCEPT !.stopping = TRUE]
    /\ seats' = [seats EXCEPT ![c] = [@ EXCEPT !.at = "leaving", !.stops = TRUE]]
    /\ UNCHANGED <<screens, desk, images, prefs>>
(* Restart answers and reads on: the process it started sends AskStop.   *)
AskRestart(c) ==
    /\ IsAt(c, "reading") /\ c \in HostSeats /\ SpendSeat("restarts")
    /\ life' = [life EXCEPT !.stopping = TRUE]
    /\ seats' = [seats EXCEPT ![c].stops = TRUE]
    /\ UNCHANGED <<screens, desk, images, prefs>>

(* The Client detached, went, fell silent or sent what is no frame.          *)
Detach(c) ==
    /\ IsAt(c, "reading") /\ SpendSeat("leaves") /\ Moves(c, "leaving")
    /\ UNCHANGED <<screens, desk, images, prefs, life>>

(* release_client_terminal_state                                            *)
ReleasedDesk(c) ==
    [desk EXCEPT !.sizing = IF @ = c THEN Unheld ELSE @, !.mouse = IF @ = c THEN Unheld ELSE @,
                 !.focus = IF @[2] = c THEN NoFocus ELSE @]
ReleasedMouse(c) ==
    IF desk.mouse # c THEN screens
    ELSE [p \in Screens |-> IF Reachable(p) THEN [screens[p] EXCEPT !.held = FALSE] ELSE screens[p]]
EndSeat(c) ==
    /\ IsAt(c, "leaving")
    /\ images' = [images EXCEPT !.disk = @ \ images.staged[c], !.staged[c] = {}]
    /\ desk' = ReleasedDesk(c)
    /\ screens' = IF desk.focus[2] = c THEN WithoutFocus(ReleasedMouse(c)) ELSE ReleasedMouse(c)
    /\ life' = [life EXCEPT !.stop = @ \/ seats[c].stops]
    /\ Moves(c, "joining")
    /\ SeatSpendsNothing /\ UNCHANGED prefs

(* The writer ends when the last worker has let go of the queue.            *)
JoinWriter(c) ==
    /\ IsAt(c, "joining") /\ seats[c].errands = 0 /\ Moves(c, "gone")
    /\ SeatSpendsNothing /\ UNCHANGED <<screens, desk, images, prefs, life>>

SeeStop ==
    /\ life.at = "running" /\ life.stop
    /\ life' = [life EXCEPT !.at = "stopping", !.stopping = TRUE]
    /\ SeatSpendsNothing /\ UNCHANGED <<seats, screens, desk, images, prefs>>

(* Operations are awaited; what is staged goes, and every terminal.         *)
Unstaged == [images EXCEPT !.disk = @ \ UNION {images.staged[c] : c \in Seats},
                           !.staged = [c \in Seats |-> {}]]
TakeTerminals ==
    /\ life.at = "stopping" /\ Operations = {}
    /\ images' = Unstaged
    /\ screens' = [p \in Screens |-> IF Reachable(p) THEN [screens[p] EXCEPT !.at = "taken"] ELSE screens[p]]
    /\ life' = [life EXCEPT !.at = "closing"]
    /\ SeatSpendsNothing /\ UNCHANGED <<seats, desk, prefs>>

ProcessEnds(at) ==
    /\ life' = [life EXCEPT !.at = at, !.stopping = TRUE]
    /\ seats' = [c \in Seats |-> [Seat EXCEPT !.at = "gone"]]
    /\ screens' = [p \in Screens |-> IF InSession(p) THEN [screens[p] EXCEPT !.at = "taken"] ELSE screens[p]]
    /\ images' = [images EXCEPT !.staged = [c \in Seats |-> {}]]
    /\ desk' = NewDesk
    /\ prefs' = [prefs EXCEPT !.writer = Unheld]
EndServer == life.at = "closing" /\ ProcessEnds("ended") /\ SeatSpendsNothing
CrashServer == life.at \notin {"ended", "crashed"} /\ SpendSeat("crashes") /\ ProcessEnds("crashed")

(* A new process, with the Panes and the settings that were kept, and new    *)
(* connections.                                                             *)
StartServer ==
    /\ life.at \in {"ended", "crashed"} /\ SpendSeat("starts")
    /\ life' = [NewLife EXCEPT !.run = life.run + 1, !.instances = 2,
                              !.crashed = life.crashed \cup (IF life.at = "crashed" THEN {life.run} ELSE {})]
    /\ seats' = [c \in Seats |-> Seat]
    /\ screens' = [p \in Screens |-> IF screens[p].at = "taken" THEN NewTerminal(1) ELSE screens[p]]
    /\ prefs' = [prefs EXCEPT !.published = prefs.file]
    /\ UNCHANGED <<desk, images>>
DayPasses ==
    /\ SpendSeat("days") /\ images' = [images EXCEPT !.old = images.disk]
    /\ UNCHANGED <<seats, screens, desk, prefs, life>>

-----------------------------------------------------------------------------

RequestsInit(bounds, there) ==
    /\ seats = [c \in Seats |-> Seat]
    /\ desk = NewDesk
    /\ screens = [p \in Screens |->
          [at |-> IF p \in there THEN "live" ELSE "none", by |-> "none", was |-> "live", instance |-> 1,
           told |-> FALSE, size |-> Unheld, held |-> FALSE, colors |-> 0, unseen |-> FALSE]]
    /\ images = [disk |-> {}, old |-> {}, made |-> 0, staged |-> [c \in Seats |-> {}], strayed |-> FALSE]
    /\ prefs = [published |-> [k \in SettingKeys |-> 0], file |-> [k \in SettingKeys |-> 0], writer |-> Unheld]
    /\ life = NewLife
    /\ seatLeft = bounds

(* What the Server does without being asked again, and without a worker or   *)
(* a disk that may hang.                                                    *)
ServerGoesOn ==
    \/ \E c \in Seats : \/ StageImage(c) \/ PasteImage(c) \/ BeginSetting(c) \/ SaveSetting(c)
                        \/ PublishSetting(c) \/ EndSeat(c)
    \/ \E p \in Screens : KeepEndedTerminal(p) \/ EndRemoval(p)
    \/ SeeStop \/ TakeTerminals \/ EndServer

RequestsNext ==
    \/ ServerGoesOn
    \/ \E p \in Screens : OpenPane(p) \/ DropPane(p) \/ EndTerminal(p) \/ StopForRemoval(p) \/ Rings(p)
    \/ \E c \in Seats, p \in Screens :
          ReportFocus(c, p) \/ ReportBlur(c, p) \/ Resize(c, p) \/ Mouse(c, p) \/ BeginPaste(c, p)
    \/ \E c \in Seats : \/ \E n \in {1, 2} : SetColors(c, n) \/ \E k \in SettingKeys : AskSetting(c, k, n)
                       \/ ReadOnTheLoop(c) \/ EndRead(c) \/ AskWorker(c) \/ WorkerAnswers(c)
                       \/ AskStop(c) \/ AskRestart(c) \/ Detach(c) \/ JoinWriter(c)
    \/ CrashServer \/ StartServer \/ DayPasses

RequestsSpec ==
    /\ \E bounds \in [SeatActs -> Nat], there \in SUBSET Screens : RequestsInit(bounds, there)
    /\ [][RequestsNext]_seatVars

-----------------------------------------------------------------------------
Connected == {c \in Seats : seats[c].at \notin {"joining", "gone"}}

OneHasTheFocus == \A p \in Screens : Live(p) /\ screens[p].told => desk.focus[1] = p
SeenIsNotUnseen == \A p \in Screens : InSession(p) /\ screens[p].unseen => desk.focus[1] # p
NobodyGoneHolds == {desk.focus[2], desk.sizing, desk.mouse} \subseteq Connected \cup {Unheld}
ButtonsAreReleased == \A p \in Screens : Live(p) /\ screens[p].held => desk.mouse # Unheld
ColorsAreEveryones == \A p \in Screens : Live(p) => screens[p].colors = desk.colors

ImagesGoWithTheirClient ==
    /\ \A c \in Seats : images.staged[c] \subseteq images.disk
    /\ \A i \in images.disk :
          \/ \E c \in Connected : i \in images.staged[c] \/ (IsAt(c, "staged") /\ Image(c) = i)
          \/ i[1] \in life.crashed \/ life.at = "crashed"
    /\ ~images.strayed

PrefsAgree ==
    prefs.writer = Unheld /\ life.at \notin {"ended", "crashed"} => prefs.published = prefs.file

(* Whatever the Clients ask, close, cut or stop: one terminal at most thinks *)
(* that it is looked at, and it is the one the Server says so of; what waits *)
(* to be seen is not being looked at; the focus, the sizing and the mouse    *)
(* are never left with a connection that is gone, and no button stays down   *)
(* with nobody to release it; an image lives as long as the connection that  *)
(* pasted it, is pasted into the terminal that was meant, and outlives its   *)
(* Server only when that crashed; and the settings the Clients have are      *)
(* those of the file (handle_client, release_client_terminal_state,          *)
(* clipboard_image.rs, set_server_setting).                                  *)
RequestsAreSound ==
    /\ OneHasTheFocus /\ SeenIsNotUnseen /\ NobodyGoneHolds /\ ButtonsAreReleased
    /\ ColorsAreEveryones /\ ImagesGoWithTheirClient /\ PrefsAgree

(* A stop that a Client asked for, whatever else the connections do, waits   *)
(* for no worker and no disk that may hang: when all that the Server does by *)
(* itself is done, the Server has ended (run_blocking, handle_client).       *)
StopGoesThrough ==
    /\ life.stop \/ \E c \in Seats : IsAt(c, "leaving") /\ seats[c].stops
    /\ ~ENABLED ServerGoesOn
    => life.at \in {"ended", "crashed"}
=============================================================================
