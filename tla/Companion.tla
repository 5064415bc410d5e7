------------------------------ MODULE Companion ------------------------------
(* The connections of the phone's library (condr-mobile's companion.rs): the *)
(* calls the app makes from its main thread, from the task that leaves the   *)
(* screen and from the one that pairs; the threads that connect; the pump of *)
(* each connection; and the notifier that tells the app of changes.  One     *)
(* lock guards the state, and every action is a stretch under it: a call     *)
(* that connects to several Devices takes it again for each.                *)
(*                                                                          *)
(* A Server is what its connection was last told: the Panes it watches, the   *)
(* Pane that has the focus, the grid.  What the Session's messages change in  *)
(* the model of a Device is in EventStream and TerminalRender.              *)
EXTENDS Integers, Sequences, FiniteSets

CONSTANTS Homes,       \* the addresses a Device is known by
          Screens,     \* the Panes of each
          NoHome, NoScreen

ASSUME PhoneAssumption == NoHome \notin Homes /\ NoScreen \notin Screens

Hidden == [home |-> NoHome, pane |-> NoScreen]
Unwatched == {NoScreen}    \* the set of a Device that was never told of one: every Pane

VARIABLES
    phone,       \* what the lock guards, without the Devices
    homes,       \* the Devices, by address
    dials,       \* every connection that was made, in order
    calls,       \* per thread of the app: the connections its call has still to make
    notifier,    \* where the notifier is, and whether the app has yet to take what it was told
    dialLog,     \* which connection of a Device is the last
    phoneLeft    \* bounds

phoneVars == <<phone, homes, dials, calls, notifier, dialLog, phoneLeft>>
PhoneActs == {"resumes", "suspends", "pairs", "forgets", "shows", "turns", "pushes", "messages"}
SpendPhone(what) == phoneLeft[what] > 0 /\ phoneLeft' = [phoneLeft EXCEPT ![what] = @ - 1]
PhoneSpendsNothing == UNCHANGED phoneLeft

Saved == DOMAIN homes
Marked(p) == [p EXCEPT !.changed = TRUE, !.notified = TRUE,
                       !.wake = @ \/ ~p.notified]
(* mark, and the notify_one that follows it once the lock is free.           *)
Marks(p) == phone' = Marked(p) /\ notifier' = [notifier EXCEPT !.asleep = FALSE]

-----------------------------------------------------------------------------
(* A Device, and what its Server is told: ds is all Devices, ls all          *)
(* connections, together a world.                                          *)

World == [homes |-> homes, dials |-> dials]
Becomes(w) == homes' = w.homes /\ dials' = w.dials

NewHome == [status |-> "suspended", generation |-> 0, io |-> 0, dial |-> 0, known |-> FALSE,
            watched |-> Unwatched]

(* Device::send, and Device::terminal, which needs to know the Session.      *)
Told(w, a, server) ==
    IF w.homes[a].io = 0 THEN w ELSE [w EXCEPT !.dials[w.homes[a].io].server = server]
ServerOf(w, a) == w.dials[w.homes[a].io].server
Takes(w, a, pane, size) ==
    IF w.homes[a].io = 0 \/ ~w.homes[a].known THEN w
    ELSE Told(w, a, [ServerOf(w, a) EXCEPT !.focus = pane, !.size = IF size # 0 THEN size ELSE @])
Gives(w, a, pane) ==
    IF w.homes[a].io = 0 \/ ~w.homes[a].known \/ ServerOf(w, a).focus # pane THEN w
    ELSE Told(w, a, [ServerOf(w, a) EXCEPT !.focus = NoScreen])
(* Device::watch                                                            *)
Watches(w, a, panes) ==
    IF w.homes[a].watched = panes THEN w
    ELSE LET told == IF w.homes[a].io = 0 THEN w
                     ELSE Told(w, a, [ServerOf(w, a) EXCEPT !.watched = panes])
         IN  [told EXCEPT !.homes[a].watched = panes]

(* Device::disconnect: the connection is cancelled wherever it is.          *)
Disconnected(w, a) ==
    LET h == w.homes[a] IN
    [homes |-> [w.homes EXCEPT ![a] = [h EXCEPT !.generation = h.generation + 1, !.io = 0]],
     dials |-> IF h.dial = 0 THEN w.dials ELSE [w.dials EXCEPT ![h.dial].cancelled = TRUE]]
AllDisconnected(w) ==
    [homes |-> [a \in DOMAIN w.homes |->
                   [w.homes[a] EXCEPT !.generation = @ + 1, !.io = 0, !.status = "suspended"]],
     dials |-> [n \in DOMAIN w.dials |->
                   [w.dials[n] EXCEPT !.cancelled = @ \/ \E a \in DOMAIN w.homes : w.homes[a].dial = n]]]

ShownOf(a) == IF phone.shown.home = a THEN {phone.shown.pane} ELSE {}

-----------------------------------------------------------------------------
(* Connections                                                              *)

Owes(c, as) == calls' = [calls EXCEPT ![c] = as]
IdleCall(c) == calls[c] = {}

(* Shared::connect                                                          *)
ConnectHome(c, a) ==
    /\ a \in calls[c] /\ Owes(c, calls[c] \ {a})
    /\ IF a \in Saved
       THEN /\ LET w == Disconnected(World, a)
                   n == Len(dials) + 1
                   panes == ShownOf(a)
               IN  /\ homes' = [w.homes EXCEPT ![a] = [@ EXCEPT !.status = "connecting", !.dial = n,
                                                                 !.watched = panes]]
                   /\ dials' = Append(w.dials,
                         [home |-> a, generation |-> w.homes[a].generation, watched |-> panes,
                          cancelled |-> FALSE, push |-> FALSE, at |-> "spawned", heard |-> <<>>,
                          server |-> [watched |-> panes, focus |-> NoScreen, size |-> 0]])
                   /\ dialLog' = [dialLog EXCEPT !.last = [@ EXCEPT ![a] = n],
                                     !.hidden = IF phone.suspended THEN @ \cup {n} ELSE @]
            /\ Marks(phone)
       ELSE UNCHANGED <<phone, homes, dials, notifier, dialLog>>
    /\ PhoneSpendsNothing

DialIs(n, d) == dials' = [dials EXCEPT ![n] = d]
Dialled(n, at) == n \in DOMAIN dials /\ dials[n].at = at
ThreadOnly == UNCHANGED calls /\ PhoneSpendsNothing
Decides(n) == dialLog' = [dialLog EXCEPT !.by[dials[n].home] = n]

(* The thread of a connection reads what the phone is called by now.         *)
SayHello(n) ==
    /\ Dialled(n, "spawned")
    /\ DialIs(n, [dials[n] EXCEPT !.at = "dialing", !.push = phone.push])
    /\ UNCHANGED <<phone, homes, notifier, dialLog>> /\ ThreadOnly

Outcomes == {"bootstrap", "refused", "failed"}
Answers(n) ==
    /\ Dialled(n, "dialing")
    /\ \E answer \in IF dials[n].cancelled THEN {"failed"} ELSE Outcomes :
         /\ answer # "bootstrap" => phone.setting.fails \/ dials[n].cancelled
         /\ DialIs(n, [dials[n] EXCEPT !.at = answer])
    /\ UNCHANGED <<phone, homes, notifier, dialLog>> /\ ThreadOnly

(* Broken: whoever comes in is of the Device's connection.                   *)
CurrentIfListed(n) == dials[n].home \in Saved
(* What a late result finds of its Device.                                  *)
Current(n) ==
    dials[n].home \in Saved /\ homes[dials[n].home].generation = dials[n].generation

(* Shared::connected: what is shown now may not be what the connection was   *)
(* made with.                                                              *)
Started(w, n) ==
    LET a == dials[n].home
        on == [homes |-> [w.homes EXCEPT ![a] = [@ EXCEPT !.io = n, !.status = "connected",
                                                          !.known = TRUE]],
               dials |-> [w.dials EXCEPT ![n].at = "pumped"]]
        told == IF on.homes[a].watched = dials[n].watched THEN on
                ELSE Told(on, a, [ServerOf(on, a) EXCEPT !.watched = on.homes[a].watched])
    IN  IF phone.shown.home = a /\ ~phone.inactive
        THEN Takes(told, a, phone.shown.pane, phone.size) ELSE told
Connected(n) ==
    /\ n \in DOMAIN dials /\ dials[n].at \in Outcomes
    /\ LET a == dials[n].home
           ended == [World EXCEPT !.dials[n].at = "over"]
       IN  IF ~Current(n) THEN Becomes(ended) /\ UNCHANGED <<phone, notifier, dialLog>>
           ELSE /\ Becomes(IF dials[n].at = "bootstrap" THEN Started(World, n)
                           ELSE [ended EXCEPT !.homes[a].status =
                                    IF dials[n].at = "refused" THEN "revoked" ELSE "failed"])
                /\ Decides(n) /\ Marks(phone)
    /\ ThreadOnly

(* What the reader hands on: a Bootstrap, and one that does not hold; that the *)
(* Server stops; and, once, that the connection has ended, as it does when   *)
(* this end lets go of it.                                                 *)
Says == {"bootstrap", "malformed", "stopping"}
LetGoOf(n) == dials[n].cancelled \/ \A a \in Saved : homes[a].io # n
Reads(n) ==
    /\ Dialled(n, "pumped") /\ Len(dials[n].heard) < 2
    /\ \A i \in DOMAIN dials[n].heard : dials[n].heard[i] # "lost"
    /\ \/ /\ SpendPhone("messages")
          /\ \E what \in Says \cup {"lost"} : DialIs(n, [dials[n] EXCEPT !.heard = Append(@, what)])
       \/ /\ LetGoOf(n) /\ DialIs(n, [dials[n] EXCEPT !.heard = Append(@, "lost")])
          /\ PhoneSpendsNothing
    /\ UNCHANGED <<phone, homes, notifier, calls, dialLog>>

(* Shared::apply                                                           *)
Apply(n) ==
    /\ Dialled(n, "pumped") /\ dials[n].heard # <<>>
    /\ LET a == dials[n].home
           what == Head(dials[n].heard)
           at == IF what = "lost" THEN "over" ELSE "pumped"
           taken == [World EXCEPT !.dials[n] =
                        [dials[n] EXCEPT !.heard = Tail(dials[n].heard), !.at = at]]
       IN  IF ~Current(n) THEN Becomes(taken) /\ UNCHANGED <<phone, notifier, dialLog>>
           ELSE /\ Becomes(IF what = "bootstrap" THEN taken
                           ELSE [Disconnected(taken, a) EXCEPT !.homes[a].status = "failed"])
                /\ Decides(n) /\ Marks(phone)
    /\ ThreadOnly

-----------------------------------------------------------------------------
(* The calls of the app: main, the task that leaves the screen and the one   *)
(* that pairs                                                              *)

Callers == {"main", "leaving", "pairing"}
Up == {"connected", "connecting"}

(* resume                                                                  *)
Resume ==
    /\ IdleCall("main") /\ SpendPhone("resumes")
    /\ phone' = [phone EXCEPT !.suspended = FALSE]
    /\ Owes("main", {a \in Saved : homes[a].status \notin Up})
    /\ UNCHANGED <<homes, dials, notifier, dialLog>>

(* suspend                                                                 *)
Suspend ==
    /\ IdleCall("leaving") /\ SpendPhone("suspends")
    /\ Becomes(AllDisconnected(World)) /\ Marks([phone EXCEPT !.suspended = TRUE])
    /\ UNCHANGED <<calls, dialLog>>

(* pair, once the handshake has been answered: whatever was at the address   *)
(* is let go of.  An address may come back only where the setting says so.   *)
Overlap(f, a, x) == [b \in DOMAIN f \cup {a} |-> IF b = a THEN x ELSE f[b]]
Pair(a) ==
    /\ IdleCall("pairing") /\ SpendPhone("pairs")
    /\ a \in Saved \/ dialLog.last[a] # 0 => phone.setting.again
    /\ homes' = Overlap(homes, a, NewHome)
    /\ Owes("pairing", IF phone.suspended THEN {} ELSE {a})
    /\ Marks(phone) /\ UNCHANGED <<dials, dialLog>>

(* set_push: every connection is made again, so that its Server hears of it.  *)
SetPush ==
    /\ IdleCall("main") /\ SpendPhone("pushes")
    /\ phone' = [phone EXCEPT !.push = ~@]
    /\ Owes("main", {a \in Saved : homes[a].status \in Up})
    /\ UNCHANGED <<homes, dials, notifier, dialLog>>

(* forget                                                                  *)
Forget(a) ==
    /\ IdleCall("main") /\ a \in Saved /\ SpendPhone("forgets")
    /\ LET w == Disconnected(World, a)
       IN  /\ homes' = [b \in Saved \ {a} |-> w.homes[b]] /\ dials' = w.dials
           /\ Marks(IF phone.shown.home = a THEN [phone EXCEPT !.shown = Hidden] ELSE phone)
    /\ UNCHANGED <<calls, dialLog>>

(* show_pane                                                               *)
ShowPane(next, size) ==
    /\ IdleCall("main") /\ SpendPhone("shows")
    /\ LET old == phone.shown
           kept == IF size # 0 \/ old # next THEN size ELSE phone.size
           left == IF old # next /\ old.home \in Saved
                   THEN Watches(Gives(World, old.home, old.pane), old.home, {}) ELSE World
           watched == IF next.home \in Saved THEN Watches(left, next.home, {next.pane}) ELSE left
       IN  /\ Becomes(IF next.home \in Saved /\ ~phone.inactive
                      THEN Takes(watched, next.home, next.pane, kept) ELSE watched)
           /\ LET p == [phone EXCEPT !.shown = next, !.size = kept]
              IN  IF next.home \in Saved THEN Marks(p) ELSE phone' = p /\ UNCHANGED notifier
    /\ UNCHANGED <<calls, dialLog>>

(* set_active                                                              *)
SetActive ==
    /\ IdleCall("main") /\ SpendPhone("turns")
    /\ phone' = [phone EXCEPT !.inactive = ~@]
    /\ LET s == phone.shown
       IN  Becomes(IF s.home \notin Saved THEN World
                   ELSE IF phone.inactive THEN Takes(World, s.home, s.pane, phone.size)
                   ELSE Gives(World, s.home, s.pane))
    /\ UNCHANGED <<calls, notifier, dialLog>>

(* notify_loop: asleep until it is woken, it looks again before it sleeps.    *)
Notify ==
    /\ ~notifier.asleep
    /\ IF phone.wake
       THEN phone' = [phone EXCEPT !.wake = FALSE] /\ notifier' = [notifier EXCEPT !.told = TRUE]
       ELSE notifier' = [notifier EXCEPT !.asleep = TRUE] /\ UNCHANGED phone
    /\ UNCHANGED <<homes, dials, dialLog>> /\ ThreadOnly

(* take_changes, which the app calls when it was told.                       *)
TakeChanges ==
    /\ notifier.told /\ notifier' = [notifier EXCEPT !.told = FALSE]
    /\ phone' = [phone EXCEPT !.changed = FALSE, !.notified = FALSE]
    /\ UNCHANGED <<homes, dials, dialLog>> /\ ThreadOnly

-----------------------------------------------------------------------------

PhoneInit(setting, bounds) ==
    /\ phone = [suspended |-> TRUE, inactive |-> FALSE, shown |-> Hidden, size |-> 0, push |-> FALSE,
                changed |-> FALSE, notified |-> FALSE, wake |-> FALSE, setting |-> setting]
    /\ homes = [a \in setting.listed |-> NewHome] /\ dials = <<>>
    /\ calls = [c \in Callers |-> {}] /\ notifier = [asleep |-> TRUE, told |-> FALSE]
    /\ dialLog = [last |-> [a \in Homes |-> 0], by |-> [a \in Homes |-> 0], hidden |-> {}]
    /\ phoneLeft = bounds

DialStep(n) == SayHello(n) \/ Answers(n) \/ Connected(n) \/ Apply(n)
PhoneNext ==
    \/ \E c \in Callers : \E a \in Homes : ConnectHome(c, a)
    \/ \E n \in DOMAIN dials : DialStep(n) \/ Reads(n)
    \/ Resume \/ Suspend \/ SetPush \/ SetActive \/ Notify \/ TakeChanges
    \/ \E a \in Homes : Pair(a) \/ Forget(a)
    \/ \E shown \in phone.setting.shows : ShowPane(shown.what, shown.size)

PhoneSettings ==
    [listed : SUBSET Homes, again : BOOLEAN, fails : BOOLEAN,
     shows : SUBSET [what : [home : Homes, pane : Screens] \cup {Hidden}, size : Nat]]
(* Where no address is paired again: the new Device would count its          *)
(* connections from 0, as the old one did.                                  *)
PhoneOnceSpec ==
    /\ \E setting \in PhoneSettings, bounds \in [PhoneActs -> Nat] :
         ~setting.again /\ PhoneInit(setting, bounds)
    /\ [][PhoneNext]_phoneVars

(* Every thread goes on, the network answers, and an end that was let go of   *)
(* is noticed.                                                             *)
PhoneGoesOn ==
    \/ \E c \in Callers : \E a \in Homes : ConnectHome(c, a)
    \/ \E n \in DOMAIN dials : DialStep(n) \/ (LetGoOf(n) /\ Reads(n))
    \/ Notify \/ TakeChanges
PhoneFairness == WF_phoneVars(PhoneGoesOn)

-----------------------------------------------------------------------------
(* Properties                                                               *)

PhoneTypeOK ==
    /\ \A a \in Saved : homes[a].io # 0 <=> homes[a].status = "connected"
    /\ \A a \in Saved : homes[a].io \in {0, homes[a].dial} /\ homes[a].dial \in 0 .. Len(dials)
    /\ phone.shown = Hidden => \A a \in Saved : homes[a].watched \in {{}, Unwatched}
    /\ \A n \in DOMAIN dials : dials[n].at \in {"spawned", "dialing", "pumped", "over"} \cup Outcomes

(* What a Device is said to be is what the last connection made to it came   *)
(* to, whatever comes in of those before (Device::generation).              *)
LateChangesNothing ==
    \A a \in Saved :
        homes[a].status \in {"connected", "failed", "revoked"} => dialLog.by[a] = dialLog.last[a]

(* A Server sends the frames of the Pane on screen and of no other, and the  *)
(* phone has its focus, in its grid, as long as the app is active            *)
(* (show_pane, set_active and connected, whichever comes first).            *)
ServersSeeThePhone ==
    \A a \in Saved : homes[a].io # 0 =>
        LET server == dials[homes[a].io].server
        IN  /\ server.watched = ShownOf(a)
            /\ server.focus = IF phone.shown.home = a /\ ~phone.inactive THEN phone.shown.pane
                              ELSE NoScreen
            /\ server.focus # NoScreen /\ phone.size # 0 => server.size = phone.size

(* In the background nothing is connected, but what a call under way         *)
(* connects after it (suspend).                                             *)
BackgroundIsQuiet ==
    phone.suspended =>
        \A n \in DOMAIN dials : dials[n].cancelled \/ dials[n].at = "over" \/ n \in dialLog.hidden

(* Every Server was told whether the phone takes pushes, once set_push is    *)
(* done.                                                                    *)
PushIsTold ==
    \A a \in Saved :
        homes[a].status \in Up /\ dials[homes[a].dial].at # "spawned" /\ calls["main"] = {} =>
            dials[homes[a].dial].push = phone.push

PhoneIsSound ==
    PhoneTypeOK /\ LateChangesNothing /\ ServersSeeThePhone /\ BackgroundIsQuiet /\ PushIsTold

(* Every change is told of and taken, every call returns, every connection   *)
(* that was let go of ends, and none is waited for for ever.                *)
PhoneRests ==
    /\ ~phone.changed /\ \A c \in Callers : calls[c] = {}
    /\ \A a \in Saved : homes[a].status # "connecting"
    /\ \A n \in DOMAIN dials : dials[n].at = "over" \/ \E a \in Saved : homes[a].io = n
=============================================================================
