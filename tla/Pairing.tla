------------------------------- MODULE Pairing -------------------------------
(* How a Device gets in: the store of paired Devices and of the one invite   *)
(* (noise/identity.rs), which the Server and the commands of its host share  *)
(* under a file lock; the handshake of an accepted connection over TCP, with *)
(* the invite as pre-shared key, and Peer-to-peer, with a Credential first   *)
(* (server/client.rs, condr-client's noise.rs and p2p.rs); and the attempt of *)
(* the Device that dials (condr-client's connection.rs).                     *)
(*                                                                          *)
(* Invites are numbered as they are made; 0 is none, and the zero pre-shared *)
(* key.  A file is replaced at once (the list) or created and then written   *)
(* (the invite).  What a connection does once it is served is not here.      *)
EXTENDS Integers, Sequences, FiniteSets

CONSTANTS
    Peers,          \* the Devices that dial
    TheHost,        \* holds the lock for a command
    Nobody          \* holds none, and is revoked by none

(* A lock is held by a connection, which is a number, or by a command.       *)
ASSUME PairingAssumption == TheHost \notin Int /\ Nobody \notin Int /\ TheHost # Nobody

Unread == -1        \* no answer of the handshake yet; a file that is created and empty

VARIABLES
    store,          \* the identity directory: the list, the invite, the lock of both
    conns,          \* the connections of which one end is still there
    dialling,       \* per Device: its last dial
    host,           \* the command that runs on the host
    running,        \* the Server does
    pairLog,        \* who redeemed what, whom the host let in
    pairLeft        \* bounds: how often each of these may still happen

pairVars == <<store, conns, dialling, host, running, pairLog, pairLeft>>

PairActs == {"dials", "invites", "revokes", "ages", "leaves", "cancels", "cuts", "kills",
             "crashes", "faults"}
SpendPair(what) == pairLeft[what] > 0 /\ pairLeft' = [pairLeft EXCEPT ![what] = @ - 1]
PairSpendsNothing == UNCHANGED pairLeft

-----------------------------------------------------------------------------
(* The store                                                                *)

Authorized(d) == d \in store.listed
(* read_invite: one that has expired is none.                               *)
PendingInvite == IF store.aged /\ store.invite # Unread THEN 0 ELSE store.invite

StoreLock(holder) == store.lock = Nobody /\ store' = [store EXCEPT !.lock = holder]

Listed(s, d) == [s EXCEPT !.listed = @ \cup {d}]
Unlisted(s, d) == [s EXCEPT !.listed = @ \ {d}, !.pushes = @ \ {d}]

(* record_seen: a Device that is not listed is ignored.                      *)
Seen(s, d) ==
    IF d \notin s.listed THEN s
    ELSE [s EXCEPT !.pushes = IF d \in pairLog.setting.pushes THEN @ \cup {d} ELSE @ \ {d}]

-----------------------------------------------------------------------------
(* An accepted connection: what the dialling end put in, where the thread of *)
(* the Server is, and what it answered.                                     *)

Free == CHOOSE n \in 1 .. Cardinality(DOMAIN conns) + 1 : n \notin DOMAIN conns
Overlay(f, g) == [x \in DOMAIN f \cup DOMAIN g |-> IF x \in DOMAIN f THEN f[x] ELSE g[x]]
NewConn(d, way, with) ==
    [device |-> d, way |-> way, with |-> with, at |-> "opening", psk |-> Unread, pairing |-> 0,
     hello |-> FALSE, says |-> "nothing", shut |-> FALSE, held |-> TRUE]

(* A connection goes when neither end has it.                               *)
StillThere(cs) == {n \in DOMAIN cs : cs[n].held \/ cs[n].at # "gone"}
Swept(cs) == [n \in StillThere(cs) |-> cs[n]]
Goes(n, c) == conns' = Swept([conns EXCEPT ![n] = c])
To(n, at) == [conns[n] EXCEPT !.at = at]
(* The thread ends, after a Welcome that refuses or without one.             *)
TurnedAway(n, why) == [conns[n] EXCEPT !.at = "gone", !.says = why, !.shut = TRUE]
Ended(n) == TurnedAway(n, "nothing")

Thread(n, at) == n \in DOMAIN conns /\ conns[n].at = at
ServerOnly == UNCHANGED <<dialling, host, running, pairLog>> /\ PairSpendsNothing

(* psk_for, and the answer of the handshake: the list is read first, then    *)
(* the invite.                                                              *)
ReadAuthorized(n) ==
    /\ Thread(n, "opening") /\ conns[n].way = "tcp"
    /\ Goes(n, IF conns[n].shut THEN Ended(n)
               ELSE IF Authorized(conns[n].device) THEN [To(n, "waiting") EXCEPT !.psk = 0]
               ELSE To(n, "unknown"))
    /\ UNCHANGED store /\ ServerOnly

ReadPendingInvite(n) ==
    /\ Thread(n, "unknown")
    /\ Goes(n, IF PendingInvite \in {0, Unread} THEN Ended(n)
               ELSE [To(n, "waiting") EXCEPT !.psk = PendingInvite, !.pairing = PendingInvite])
    /\ UNCHANGED store /\ ServerOnly

(* Credential: a Device that is paired needs none.                          *)
ReadCredential(n) ==
    /\ Thread(n, "opening") /\ conns[n].way = "p2p"
    /\ LET c == conns[n]
       IN  Goes(n, CASE c.shut -> Ended(n)
                     [] ~c.shut /\ (c.with = 0 \/ Authorized(c.device)) -> To(n, "waiting")
                     [] ~c.shut /\ c.with # 0 /\ ~Authorized(c.device) /\ c.with = PendingInvite ->
                            [To(n, "waiting") EXCEPT !.pairing = c.with]
                     [] OTHER -> TurnedAway(n, IF PendingInvite = Unread THEN "malformed" ELSE "denied"))
    /\ UNCHANGED store /\ ServerOnly

(* Hello: who it is, then the protocol; a lost connection ends the wait.    *)
ReadHello(n) ==
    /\ Thread(n, "waiting") /\ (conns[n].hello \/ conns[n].shut)
    /\ LET c == conns[n]
           unproven == c.way = "p2p" /\ c.pairing = 0 /\ ~Authorized(c.device)
       IN  Goes(n, CASE ~c.hello -> Ended(n)
                     [] c.hello /\ unproven -> TurnedAway(n, "denied")
                     [] c.hello /\ ~unproven /\ c.device \in pairLog.setting.old ->
                            TurnedAway(n, "incompatible")
                     [] OTHER -> To(n, IF c.pairing = 0 THEN "paired" ELSE "pairing"))
    /\ UNCHANGED store /\ ServerOnly

(* complete_pairing, under the lock: the invite must be the pending one still; *)
(* the Device is listed, and then the invite removed.                       *)
StillPending(n) == PendingInvite = conns[n].pairing

Redeemed(n) ==
    LET i == conns[n].pairing
    IN  [pairLog.redeemed EXCEPT ![i] = pairLog.redeemed[i] \cup {conns[n].device}]
CompletePairing(n) ==
    /\ Thread(n, "pairing")
    /\ IF StillPending(n)
       THEN /\ StoreLock(n) /\ Goes(n, To(n, "listing")) /\ UNCHANGED pairLog
       ELSE /\ store.lock = Nobody /\ Goes(n, TurnedAway(n, "denied")) /\ UNCHANGED <<store, pairLog>>
    /\ UNCHANGED <<dialling, host, running>> /\ PairSpendsNothing

WriteList(n) ==
    /\ Thread(n, "listing")
    /\ store' = Listed(store, conns[n].device)
    /\ pairLog' = [pairLog EXCEPT !.redeemed = Redeemed(n), !.entitled = @ \cup {conns[n].device},
                                  !.unfinished = @ \ {conns[n].device}]
    /\ Goes(n, To(n, "listed"))
    /\ UNCHANGED <<dialling, host, running>> /\ PairSpendsNothing

(* The invite's file goes; one that will not leaves a Device that is listed  *)
(* and is told that its pairing failed.                                     *)
RemoveInvite(n) ==
    /\ Thread(n, "listed")
    /\ \/ /\ store' = [store EXCEPT !.invite = 0, !.aged = FALSE, !.lock = Nobody]
          /\ Goes(n, [To(n, "paired") EXCEPT !.pairing = 0])
          /\ UNCHANGED pairLog /\ PairSpendsNothing
       \/ /\ SpendPair("faults")
          /\ store' = [store EXCEPT !.lock = Nobody]
          /\ pairLog' = [pairLog EXCEPT !.interrupted = @ \cup {conns[n].pairing}]
          /\ Goes(n, TurnedAway(n, "denied"))
    /\ UNCHANGED <<dialling, host, running>>

(* Broken: that the handshake was let through is enough.                     *)
AdmitOnce(n) ==
    /\ Thread(n, "paired") /\ Goes(n, To(n, "admitted"))
    /\ UNCHANGED store /\ ServerOnly

(* The list is read again under the lock of the state, which the scan of a   *)
(* revocation takes too, and the peer is registered.                        *)
Admit(n) ==
    /\ Thread(n, "paired")
    /\ Goes(n, IF Authorized(conns[n].device) THEN To(n, "admitted") ELSE TurnedAway(n, "denied"))
    /\ UNCHANGED store /\ ServerOnly

(* record_peer_seen, under the store's lock.                                *)
RecordSeen(n) ==
    /\ Thread(n, "admitted") /\ store.lock = Nobody
    /\ store' = Seen(store, conns[n].device)
    /\ Goes(n, To(n, "seen"))
    /\ ServerOnly

(* A Stream connection records nothing: its thread goes on at once.          *)
SkipSeen(n) ==
    /\ Thread(n, "admitted") /\ conns[n].device \in pairLog.setting.streams
    /\ Goes(n, To(n, "seen")) /\ UNCHANGED store /\ ServerOnly

SendWelcome(n) ==
    /\ Thread(n, "seen")
    /\ Goes(n, IF conns[n].shut THEN Ended(n) ELSE [To(n, "serving") EXCEPT !.says = "welcome"])
    /\ UNCHANGED store /\ ServerOnly

Serve(n) ==
    /\ Thread(n, "serving") /\ conns[n].shut
    /\ Goes(n, [Ended(n) EXCEPT !.says = conns[n].says])
    /\ UNCHANGED store /\ ServerOnly

ServerThread(n) ==
    \/ ReadAuthorized(n) \/ ReadPendingInvite(n) \/ ReadCredential(n) \/ ReadHello(n)
    \/ CompletePairing(n) \/ WriteList(n) \/ RemoveInvite(n) \/ Admit(n) \/ RecordSeen(n)
    \/ SkipSeen(n) \/ SendWelcome(n) \/ Serve(n)

-----------------------------------------------------------------------------
(* The Device that dials                                                    *)

ClientOnly == UNCHANGED <<store, host, running, pairLog>>
AttemptIs(d, a) == dialling' = [dialling EXCEPT ![d] = a]
Doing(d, phase) == dialling[d].phase = phase
Conn(d) == conns[dialling[d].conn]
(* The end here lets its connection go.                                     *)
LetGo(cs, n) ==
    IF n \notin DOMAIN cs THEN cs
    ELSE Swept([cs EXCEPT ![n] = [@ EXCEPT !.held = FALSE, !.shut = TRUE]])

(* What an attempt may still count on: that the Device is listed and nothing *)
(* comes in between.                                                        *)
Undisturbed(d) == Authorized(d) /\ running /\ d \notin pairLog.setting.old

(* A person connects, with the invite the address has, or one they paste.    *)
DialFor(d) ==
    /\ dialling[d].phase \in {"idle", "failed", "denied"} /\ SpendPair("dials")
    /\ \E with \in {dialling[d].with} \cup pairLog.given :
         AttemptIs(d, [phase |-> "dialing", with |-> with, conn |-> 0, second |-> FALSE,
                       calm |-> Undisturbed(d)])
    /\ UNCHANGED conns /\ ClientOnly

Carried(d) == IF dialling[d].second THEN 0 ELSE dialling[d].with
OverWith(d, phase) == [dialling[d] EXCEPT !.phase = phase, !.conn = 0]

(* Connector::connect                                                       *)
Dial(d) ==
    /\ Doing(d, "dialing")
    /\ IF running
       THEN /\ conns' = Overlay(conns, [n \in {Free} |->
                           NewConn(d, pairLog.setting.ways[d], Carried(d))])
            /\ AttemptIs(d, [dialling[d] EXCEPT !.phase = "greeting", !.conn = Free])
       ELSE /\ AttemptIs(d, OverWith(d, "failed")) /\ UNCHANGED conns
    /\ ClientOnly /\ PairSpendsNothing

(* Both pre-shared keys agree, or there is none: the handshake is through.   *)
Hello(d) ==
    /\ Doing(d, "greeting") /\ ~Conn(d).shut
    /\ Conn(d).way = "tcp" => Conn(d).psk = Conn(d).with
    /\ AttemptIs(d, [dialling[d] EXCEPT !.phase = "hailed"])
    /\ conns' = [conns EXCEPT ![dialling[d].conn].hello = TRUE]
    /\ ClientOnly /\ PairSpendsNothing

(* connect_with_state: a refusal is answered with one more attempt, without  *)
(* the invite, over TCP.                                                    *)
AfterRefusal(d) ==
    IF Conn(d).way = "tcp" /\ Carried(d) # 0
    THEN [dialling[d] EXCEPT !.phase = "dialing", !.conn = 0, !.second = TRUE]
    ELSE OverWith(d, "denied")
(* The error of the first attempt is the one that is reported.               *)
AfterError(d) == OverWith(d, IF dialling[d].second THEN "denied" ELSE "failed")

DialFails(d, a) ==
    /\ conns' = LetGo(conns, dialling[d].conn) /\ AttemptIs(d, a)
    /\ ClientOnly /\ PairSpendsNothing

(* The answer is of another pre-shared key.                                 *)
KeysDiffer(d) ==
    /\ Doing(d, "greeting") /\ Conn(d).psk \notin {Unread, Conn(d).with}
    /\ DialFails(d, AfterRefusal(d))

(* The connection ends before it answered.  During the handshake that reads  *)
(* as a refusal, unless it was reset.                                       *)
ClosedEarly(d) ==
    /\ dialling[d].phase \in {"greeting", "hailed"} /\ Conn(d).shut /\ Conn(d).says = "nothing"
    /\ \/ Conn(d).way = "tcp" /\ Conn(d).psk = Unread /\ DialFails(d, AfterRefusal(d))
       \/ DialFails(d, AfterError(d))

(* handshake_exchange: the Welcome.  A refusal that a Peer-to-peer Server     *)
(* sends as it closes may be lost.                                          *)
Welcome(d) ==
    /\ \/ Doing(d, "hailed")
       \/ Doing(d, "greeting") /\ Conn(d).way = "p2p" /\ Conn(d).shut
    /\ \/ /\ Conn(d).says = "welcome"
          /\ AttemptIs(d, [dialling[d] EXCEPT !.phase = "connected", !.with = 0])
          /\ UNCHANGED conns /\ ClientOnly /\ PairSpendsNothing
       \/ Conn(d).says = "denied" /\ DialFails(d, AfterRefusal(d))
       \/ Conn(d).says \in {"incompatible", "malformed"} /\ DialFails(d, AfterError(d))
       \/ Conn(d).says \in {"denied", "malformed"} /\ Conn(d).way = "p2p" /\ DialFails(d, AfterError(d))

Lost(d) ==
    /\ Doing(d, "connected") /\ Conn(d).shut
    /\ conns' = LetGo(conns, dialling[d].conn) /\ AttemptIs(d, OverWith(d, "idle"))
    /\ ClientOnly /\ PairSpendsNothing

HangUp(d) ==
    /\ Doing(d, "connected") /\ SpendPair("leaves")
    /\ conns' = LetGo(conns, dialling[d].conn) /\ AttemptIs(d, OverWith(d, "idle"))
    /\ ClientOnly

(* Cancellation::cancel.  A Peer-to-peer dial goes through this machine's     *)
(* Server and is not shut: its Hello may still be sent before it is dropped. *)
CancelDial(d) ==
    /\ dialling[d].phase \in {"dialing", "greeting", "hailed"} /\ SpendPair("cancels")
    /\ LET n == dialling[d].conn
           late == IF n # 0 /\ Conn(d).way = "p2p" THEN BOOLEAN ELSE {FALSE}
       IN  \E hello \in late :
             conns' = LetGo(IF hello THEN [conns EXCEPT ![n].hello = TRUE] ELSE conns, n)
    /\ AttemptIs(d, OverWith(d, "idle")) /\ ClientOnly

Client(d) ==
    Dial(d) \/ Hello(d) \/ KeysDiffer(d) \/ ClosedEarly(d) \/ Welcome(d) \/ Lost(d)

-----------------------------------------------------------------------------
(* The host                                                                 *)

HostIs(op, d) == host' = [op |-> op, device |-> d]
HostOnly == UNCHANGED <<conns, dialling, running>>

(* create_invite: the old one goes, the new file is created, then written.   *)
CreateInvite ==
    /\ host.op = "idle" /\ SpendPair("invites") /\ store.lock = Nobody
    /\ store' = [store EXCEPT !.invite = 0, !.aged = FALSE, !.lock = TheHost]
    /\ pairLog' = [pairLog EXCEPT !.replaced = @ \cup {store.invite} \cup pairLog.given]
    /\ HostIs("removed", Nobody) /\ HostOnly
CreateInviteFile ==
    /\ host.op = "removed" /\ store' = [store EXCEPT !.invite = Unread]
    /\ HostIs("created", Nobody) /\ HostOnly /\ UNCHANGED pairLog /\ PairSpendsNothing
WriteInvite ==
    /\ host.op = "created"
    /\ LET n == pairLog.made + 1
       IN  /\ store' = [store EXCEPT !.invite = n, !.lock = Nobody]
           /\ pairLog' = [pairLog EXCEPT !.made = n, !.given = {n}]
    /\ HostIs("idle", Nobody) /\ HostOnly /\ PairSpendsNothing

(* revoke, and then the running Server is asked to drop the connections.     *)
Disturbed(as, ds) == [d \in Peers |-> IF d \in ds THEN [as[d] EXCEPT !.calm = FALSE] ELSE as[d]]
Revoke(d) ==
    /\ host.op = "idle" /\ Authorized(d) /\ SpendPair("revokes") /\ store.lock = Nobody
    /\ store' = Unlisted(store, d)
    /\ pairLog' = [pairLog EXCEPT !.entitled = @ \ {d}]
    /\ dialling' = Disturbed(dialling, {d})
    /\ HostIs("revoked", d) /\ UNCHANGED <<conns, running>>

Registered == {"admitted", "seen", "serving"}
RevokeDevice ==
    /\ host.op = "revoked"
    /\ conns' = [n \in DOMAIN conns |->
                   IF conns[n].device = host.device /\ conns[n].at \in Registered
                   THEN [conns[n] EXCEPT !.shut = TRUE] ELSE conns[n]]
    /\ dialling' = Disturbed(dialling, {host.device})
    /\ HostIs("idle", Nobody)
    /\ UNCHANGED <<store, running, pairLog>> /\ PairSpendsNothing

(* The command is killed: its lock goes with it, what it wrote stays.        *)
KillHost ==
    /\ host.op # "idle" /\ SpendPair("kills")
    /\ store' = IF store.lock = TheHost THEN [store EXCEPT !.lock = Nobody] ELSE store
    /\ pairLog' = [pairLog EXCEPT !.unfinished =
                      IF host.op = "revoked" THEN @ \cup {host.device} ELSE @]
    /\ HostIs("idle", Nobody) /\ HostOnly

(* INVITE_TTL                                                               *)
InviteAges ==
    /\ store.invite > 0 /\ ~store.aged /\ SpendPair("ages")
    /\ store' = [store EXCEPT !.aged = TRUE]
    /\ UNCHANGED <<conns, dialling, host, running, pairLog>>

(* The Server crashes, and starts again.                                    *)
Between == {n \in DOMAIN conns : conns[n].at = "listed"}
(* Broken: the lock is a file that has to be deleted.                        *)
LockStays == store
(* A lock goes with the process that holds it.                              *)
LockReleased == IF store.lock = TheHost THEN store ELSE [store EXCEPT !.lock = Nobody]
ServerCrash ==
    /\ running /\ SpendPair("crashes") /\ running' = FALSE
    /\ conns' = Swept([n \in DOMAIN conns |->
                         [conns[n] EXCEPT !.at = "gone", !.shut = TRUE]])
    /\ store' = LockReleased
    /\ pairLog' = [pairLog EXCEPT !.interrupted = @ \cup {conns[n].pairing : n \in Between},
                                  !.unfinished = {}]
    /\ dialling' = Disturbed(dialling, Peers)
    /\ UNCHANGED host
StartAgain ==
    /\ ~running /\ running' = TRUE
    /\ UNCHANGED <<store, conns, dialling, host, pairLog>> /\ PairSpendsNothing

(* The network ends a connection, or a read of it times out.                 *)
CutOff ==
    /\ SpendPair("cuts")
    /\ \E n \in DOMAIN conns :
         /\ ~conns[n].shut /\ conns' = [conns EXCEPT ![n].shut = TRUE]
         /\ dialling' = Disturbed(dialling, {conns[n].device})
    /\ UNCHANGED <<store, host, running, pairLog>>

-----------------------------------------------------------------------------

NewAttempt == [phase |-> "idle", with |-> 0, conn |-> 0, second |-> FALSE, calm |-> FALSE]
PairInit(setting, bounds) ==
    /\ store = [listed |-> setting.listed, pushes |-> {}, invite |-> 0, aged |-> FALSE,
                lock |-> Nobody]
    /\ conns = <<>> /\ dialling = [d \in Peers |-> NewAttempt]
    /\ host = [op |-> "idle", device |-> Nobody] /\ running = TRUE
    /\ pairLog = [setting |-> setting, made |-> 0, given |-> {}, replaced |-> {0, Unread},
                  redeemed |-> [n \in 1 .. bounds["invites"] |-> {}], entitled |-> setting.listed,
                  unfinished |-> {}, interrupted |-> {}]
    /\ pairLeft = bounds

PairNext ==
    \/ \E n \in DOMAIN conns : ServerThread(n)
    \/ \E d \in Peers : DialFor(d) \/ Client(d) \/ HangUp(d) \/ CancelDial(d) \/ Revoke(d)
    \/ CreateInvite \/ CreateInviteFile \/ WriteInvite \/ RevokeDevice \/ KillHost \/ InviteAges
    \/ ServerCrash \/ StartAgain \/ CutOff

(* Who is paired at first, how each Device dials, which have an old protocol, *)
(* open Streams only, or take pushes.                                       *)
PairSettings ==
    [listed : SUBSET Peers, ways : [Peers -> {"tcp", "p2p"}], old : SUBSET Peers,
     streams : SUBSET Peers, pushes : SUBSET Peers]
PairingSpec ==
    /\ \E setting \in PairSettings, bounds \in [PairActs -> Nat] : PairInit(setting, bounds)
    /\ [][PairNext]_pairVars

(* Each connection has a thread, a dial has one too, a command goes on until *)
(* it is killed, and a Server that crashed is started again: some of them    *)
(* moves as long as one can.                                               *)
PairGoesOn ==
    \/ \E n \in DOMAIN conns : ServerThread(n)
    \/ \E d \in Peers : Client(d)
    \/ CreateInviteFile \/ WriteInvite \/ RevokeDevice \/ StartAgain
PairFairness == WF_pairVars(PairGoesOn)

-----------------------------------------------------------------------------
(* Properties                                                               *)

PairTypeOK ==
    /\ store.pushes \subseteq store.listed /\ store.listed \subseteq Peers
    /\ store.invite \in -1 .. pairLog.made
    /\ \A d \in Peers : dialling[d].conn # 0 <=>
         dialling[d].phase \in {"greeting", "hailed", "connected"}
    /\ \A d \in Peers : dialling[d].conn # 0 => dialling[d].conn \in DOMAIN conns
    /\ \A n \in DOMAIN conns : (conns[n].at \in {"listing", "listed"}) <=> store.lock = n

(* An invite lets one Device in (complete_pairing), unless the Server        *)
(* stopped between the two writes; and it is gone only because it was used   *)
(* or another one was made.                                                 *)
InviteIsForOne ==
    \A i \in DOMAIN pairLog.redeemed :
        /\ Cardinality(pairLog.redeemed[i]) <= 1 \/ i \in pairLog.interrupted
        /\ i <= pairLog.made /\ store.invite # i =>
             pairLog.redeemed[i] # {} \/ i \in pairLog.replaced

(* A Device that was revoked is not listed again by a connection it had       *)
(* (record_seen), and is served no longer than its revocation takes          *)
(* (Admit and RevokeDevice under one lock).                                 *)
RevokedStaysOut ==
    /\ store.listed = pairLog.entitled
    /\ \A n \in DOMAIN conns :
         conns[n].at \in Registered /\ ~conns[n].shut =>
             \/ Authorized(conns[n].device) \/ conns[n].device \in pairLog.unfinished
             \/ host = [op |-> "revoked", device |-> conns[n].device]

(* A Device that was listed when it dialled, and that nothing disturbed,     *)
(* gets in, whatever invite its address still carries.                       *)
NobodyIsStranded ==
    \A d \in Peers : dialling[d].phase \in {"failed", "denied"} => ~dialling[d].calm

PairingIsSound == PairTypeOK /\ InviteIsForOne /\ RevokedStaysOut /\ NobodyIsStranded

(* Every dial ends, no lock is kept, and every connection that was closed is *)
(* let go.                                                                  *)
PairingRests ==
    /\ store.lock = Nobody /\ host.op = "idle"
    /\ \A d \in Peers : dialling[d].phase \notin {"dialing", "greeting", "hailed"}
    /\ \A n \in DOMAIN conns : conns[n].at = "serving"
=============================================================================
