---------------------------- MODULE DevicesProofs ----------------------------
(***************************************************************************)
(* How a Device gets in, for any Devices and any number of dials, invites, *)
(* revocations, crashes and faults; the pushes to it, for any Panes and    *)
(* Devices, any limit of recipients and any number of alerts, looks and    *)
(* faults: what is posted to the Cloud goes forward for each Pane, and     *)
(* nothing is posted more than twice; and the connections of a phone, for  *)
(* any Devices, Panes and number of calls: whatever comes in of an older   *)
(* one changes nothing, and the Servers see what the phone shows.          *)
(***************************************************************************)
EXTENDS Pairing, Pushes, Companion, Induction, FiniteSetTheorems, SequenceTheorems, TLAPS

-----------------------------------------------------------------------------
(* Pairing: what the variables hold.                                       *)

ThreadPcs == {"opening", "unknown", "waiting", "pairing", "listing", "listed", "paired",
              "admitted", "seen", "serving", "gone"}
HostAnswers == {"nothing", "welcome", "denied", "incompatible", "malformed"}
Phases == {"idle", "dialing", "greeting", "hailed", "connected", "failed", "denied"}
ConnStates ==
    [device : Peers, way : {"tcp", "p2p"}, with : Nat, at : ThreadPcs, psk : Int, pairing : Nat,
     hello : BOOLEAN, says : HostAnswers, shut : BOOLEAN, held : BOOLEAN]
DialingStates == [phase : Phases, with : Nat, conn : Nat, second : BOOLEAN, calm : BOOLEAN]
StoreStates ==
    [listed : SUBSET Peers, pushes : SUBSET Peers, invite : Int, aged : BOOLEAN,
     lock : Nat \cup {Nobody, TheHost}]
HostStates == [op : {"idle", "removed", "created", "revoked"}, device : Peers \cup {Nobody}]
Redemptions == UNION {[1 .. b -> SUBSET Peers] : b \in Nat}
LogStates ==
    [setting : PairSettings, made : Nat, given : SUBSET Nat, replaced : SUBSET Int,
     redeemed : Redemptions, entitled : SUBSET Peers, unfinished : SUBSET (Peers \cup {Nobody}),
     interrupted : SUBSET Int]

PairingTypes ==
    /\ store \in StoreStates
    /\ conns \in [DOMAIN conns -> ConnStates]
    /\ DOMAIN conns \subseteq Nat \ {0} /\ IsFiniteSet(DOMAIN conns)
    /\ dialling \in [Peers -> DialingStates]
    /\ host \in HostStates /\ running \in BOOLEAN
    /\ pairLog \in LogStates /\ pairLeft \in [PairActs -> Nat]

(* Who has the lock of the store: the thread that completes a pairing, or   *)
(* the command that makes an invite.                                       *)
Holding == {"listing", "listed"}
Making == {"removed", "created"}
StoreInv ==
    /\ \A n \in DOMAIN conns : conns[n].at \in Holding <=> store.lock = n
    /\ store.lock \in DOMAIN conns \cup {Nobody, TheHost}
    /\ host.op \in Making <=> store.lock = TheHost
    /\ host.op = "removed" => store.invite = 0
    /\ host.op = "created" => store.invite = Unread
    /\ store.pushes \subseteq store.listed

(* Invites are numbered as far as they are counted; one that was redeemed is *)
(* gone, or the thread that redeemed it is about to remove it.              *)
Numbered == pairLog.made + pairLeft["invites"] + (IF host.op \in Making THEN 1 ELSE 0)
Removes(n, i) == conns[n].at = "listed" /\ conns[n].pairing = i
Redeemable(i) ==
    \/ i \in pairLog.interrupted
    \/ pairLog.redeemed[i] = {}
    \/ /\ \E d \in Peers : pairLog.redeemed[i] = {d}
       /\ i <= pairLog.made
       /\ store.invite # i \/ \E n \in DOMAIN conns : Removes(n, i)
GoneForAReason(i) ==
    i <= pairLog.made /\ store.invite # i => pairLog.redeemed[i] # {} \/ i \in pairLog.replaced
PairingThread(n) ==
    /\ conns[n].pairing <= pairLog.made
    /\ conns[n].at \in Holding \cup {"pairing"} => conns[n].pairing # 0
    /\ conns[n].at \in Holding => store.invite = conns[n].pairing
    /\ conns[n].at = "listed" => pairLog.redeemed[conns[n].pairing] # {}
InvitesInv ==
    /\ 1 .. Numbered \subseteq DOMAIN pairLog.redeemed
    /\ store.invite \in -1 .. pairLog.made
    /\ \A i \in DOMAIN pairLog.redeemed : Redeemable(i) /\ GoneForAReason(i)
    /\ \A n \in DOMAIN conns : PairingThread(n)

(* A calm dial gets on: its connection is not shut, and its thread has      *)
(* nothing against it.                                                     *)
Smooth(d, c) ==
    /\ ~c.shut /\ c.pairing = 0 /\ c.way = pairLog.setting.ways[d] /\ c.with = Carried(d)
    /\ c.psk = IF c.way = "p2p" \/ c.at = "opening" THEN Unread ELSE 0
    /\ c.says = IF c.at = "serving" THEN "welcome" ELSE "nothing"
    /\ c.at \in {"opening", "waiting"} \cup
         (IF c.hello THEN {"paired", "admitted", "seen", "serving"} ELSE {})
    /\ c.hello <=> dialling[d].phase = "hailed"
HasConn == {"greeting", "hailed", "connected"}
DialInv(d) ==
    /\ dialling[d].conn # 0 <=> dialling[d].phase \in HasConn
    /\ dialling[d].conn # 0 =>
         dialling[d].conn \in DOMAIN conns /\ Conn(d).device = d /\ Conn(d).held
    /\ dialling[d].calm =>
         /\ Undisturbed(d) /\ dialling[d].phase \notin {"failed", "denied"}
         /\ dialling[d].phase \in {"greeting", "hailed"} => Smooth(d, Conn(d))
DialsInv == \A d \in Peers : DialInv(d)

PairingInv == PairingTypes /\ StoreInv /\ InvitesInv /\ RevokedStaysOut /\ DialsInv

-----------------------------------------------------------------------------
(* The connections of which one end is still there.                        *)

(* A thread puts its connection, or lets it go.                            *)
LEMMA GoesIs ==
    ASSUME PairingTypes, NEW n \in DOMAIN conns, NEW c \in ConnStates, Goes(n, c)
    PROVE  /\ conns' \in [DOMAIN conns' -> ConnStates]
           /\ DOMAIN conns' \subseteq DOMAIN conns /\ IsFiniteSet(DOMAIN conns')
           /\ \A m \in DOMAIN conns' : conns'[m] = IF m = n THEN c ELSE conns[m]
           /\ \A m \in DOMAIN conns :
                m # n /\ (conns[m].held \/ conns[m].at # "gone") => m \in DOMAIN conns'
           /\ c.held \/ c.at # "gone" => n \in DOMAIN conns'
BY FS_Subset DEF PairingTypes, Goes, Swept, StillThere

(* The end of the Device lets its connection go.                           *)
LEMMA LetGoIs ==
    ASSUME PairingTypes, NEW cs \in [DOMAIN conns -> ConnStates], NEW n, conns' = LetGo(cs, n)
    PROVE  /\ conns' \in [DOMAIN conns' -> ConnStates]
           /\ DOMAIN conns' \subseteq DOMAIN conns /\ IsFiniteSet(DOMAIN conns')
           /\ \A m \in DOMAIN conns' :
                conns'[m] = IF m = n THEN [cs[m] EXCEPT !.held = FALSE, !.shut = TRUE] ELSE cs[m]
           /\ \A m \in DOMAIN conns :
                (m # n /\ cs[m].held) \/ cs[m].at # "gone" => m \in DOMAIN conns'
<1>1. CASE n \notin DOMAIN cs
  BY <1>1 DEF LetGo, PairingTypes
<1>2. CASE n \in DOMAIN cs
  <2> DEFINE f == [m \in DOMAIN conns |->
                     IF m = n THEN [cs[m] EXCEPT !.held = FALSE, !.shut = TRUE] ELSE cs[m]]
  <2>1. conns' = Swept(f)
    BY <1>2 DEF LetGo
  <2>2. \A r \in ConnStates : LET q == [r EXCEPT !.held = FALSE, !.shut = TRUE]
                              IN  q \in ConnStates /\ ~q.held /\ q.at = r.at
    BY DEF ConnStates
  <2>3. f \in [DOMAIN conns -> ConnStates] /\ DOMAIN f = DOMAIN conns
    BY <2>2
  <2>4. \A m \in DOMAIN conns :
          /\ m = n => ~f[m].held
          /\ m # n => f[m].held = cs[m].held
          /\ f[m].at = cs[m].at
    BY <2>2
  <2>5. conns' = [m \in StillThere(f) |-> f[m]]
    BY <2>1 DEF Swept
  <2>6. \A m \in DOMAIN conns : f[m] = IF m = n THEN [cs[m] EXCEPT !.held = FALSE, !.shut = TRUE] ELSE cs[m]
    OBVIOUS
  <2> HIDE DEF f
  <2>7. StillThere(f) = {m \in DOMAIN conns : f[m].held \/ f[m].at # "gone"}
    BY <2>3 DEF StillThere
  <2>8. DOMAIN conns' = StillThere(f) /\ StillThere(f) \subseteq DOMAIN conns
    BY <2>5, <2>7
  <2>9. IsFiniteSet(DOMAIN conns')
    BY <2>8, FS_Subset DEF PairingTypes
  <2>10. \A m \in DOMAIN conns' : m \in DOMAIN conns /\ conns'[m] = f[m]
    BY <2>5, <2>8
  <2>11. conns' \in [DOMAIN conns' -> ConnStates]
    BY <2>3, <2>5, <2>8
  <2>12. \A m \in DOMAIN conns :
           (m # n /\ cs[m].held) \/ cs[m].at # "gone" => m \in DOMAIN conns'
    BY <2>4, <2>7, <2>8
  <2> QED
    BY <2>6, <2>8, <2>9, <2>10, <2>11, <2>12
<1> QED
  BY <1>1, <1>2

(* There is always a number that no connection has.                        *)
LEMMA FreeIsFree ==
    ASSUME PairingTypes
    PROVE  Free \in Nat \ {0} /\ Free \notin DOMAIN conns
<1> DEFINE k == Cardinality(DOMAIN conns)
<1>1. k \in Nat
  BY FS_CardinalityType DEF PairingTypes
<1>2. SUFFICES \E n \in 1 .. k + 1 : n \notin DOMAIN conns
  BY <1>1 DEF Free
<1>3. SUFFICES ASSUME 1 .. k + 1 \subseteq DOMAIN conns PROVE FALSE
  OBVIOUS
<1>4. Cardinality(1 .. k + 1) = k + 1
  BY <1>1, FS_Interval
<1>5. Cardinality(1 .. k + 1) <= k
  BY <1>3, FS_Subset DEF PairingTypes
<1> QED
  BY <1>1, <1>4, <1>5

-----------------------------------------------------------------------------
(* What a step leaves alone.                                               *)

(* Threads stay where they are; a connection begins, or is shut.           *)
Quiet(f) ==
    /\ \A m \in DOMAIN f :
         \/ /\ m \in DOMAIN conns
            /\ f[m].at = conns[m].at /\ f[m].pairing = conns[m].pairing /\ f[m].device = conns[m].device
            /\ conns[m].shut => f[m].shut
         \/ m \notin DOMAIN conns /\ f[m].at = "opening" /\ f[m].pairing = 0
    /\ \A m \in DOMAIN conns : conns[m].at # "gone" => m \in DOMAIN f

(* Then the store, the invites and who holds the lock are as they were.    *)
LEMMA QuietStores ==
    ASSUME PairingInv, NEW f, conns' = f, Quiet(f), UNCHANGED <<store, pairLog>>,
           UNCHANGED host \/ (host.op \notin Making /\ host'.op \notin Making),
           pairLeft' \in [PairActs -> Nat], pairLeft'["invites"] <= pairLeft["invites"],
           DOMAIN f \subseteq Int
    PROVE  StoreInv' /\ InvitesInv'
<1>2. \A m \in DOMAIN conns : conns[m].at \in Holding => m \in DOMAIN f
  BY DEF Quiet, Holding
<1>3. StoreInv'
  BY PairingAssumption, <1>2 DEF PairingInv, StoreInv, Quiet, Holding, Making
<1>4. InvitesInv'
  BY DEF PairingInv, PairingTypes, LogStates, PairActs, Numbered, InvitesInv, PairingThread,
     Quiet, Holding, Removes, Redeemable, GoneForAReason
<1> QED
  BY <1>3, <1>4

(* And, with no command going on, who may be served.                       *)
LEMMA CalmKeeps ==
    ASSUME PairingInv, NEW f, conns' = f, Quiet(f), UNCHANGED <<store, host, pairLog>>,
           pairLeft' \in [PairActs -> Nat], pairLeft'["invites"] <= pairLeft["invites"],
           DOMAIN f \subseteq Int
    PROVE  StoreInv' /\ InvitesInv' /\ RevokedStaysOut'
BY QuietStores DEF PairingInv, RevokedStaysOut, Quiet, Registered, Authorized

(* A thread of the Server goes from one record to another, and no dial that *)
(* may count on it has anything to fear from that.                         *)
SameEnd(a, c) ==
    /\ c.device = a.device /\ c.way = a.way /\ c.with = a.with /\ c.held = a.held /\ c.hello = a.hello
    /\ a.shut => c.shut
StaysSmooth(n, c) ==
    \A d \in Peers :
        /\ dialling[d].calm /\ Undisturbed(d) /\ dialling[d].phase \in {"greeting", "hailed"}
        /\ dialling[d].conn = n /\ conns[n].device = d /\ Smooth(d, conns[n])
        => Smooth(d, c)

(* Then the dials are as they were.                                        *)
LEMMA ThreadDials ==
    ASSUME PairingInv, NEW n \in DOMAIN conns, NEW c \in ConnStates, Goes(n, c),
           SameEnd(conns[n], c), StaysSmooth(n, c), UNCHANGED <<dialling, running>>,
           pairLog'.setting = pairLog.setting, store.listed \subseteq store'.listed
    PROVE  DialsInv'
BY GoesIs DEF DialsInv, PairingInv, DialInv, Conn, SameEnd, Undisturbed, Authorized, HasConn,
   StaysSmooth, Smooth, Carried

(* Its record, the store and the log are of their types.                   *)
LEMMA ThreadTypes ==
    ASSUME PairingInv, NEW n \in DOMAIN conns, NEW c \in ConnStates, Goes(n, c),
           store' \in StoreStates, pairLog' \in LogStates, pairLeft' \in [PairActs -> Nat],
           UNCHANGED <<dialling, host, running>>
    PROVE  PairingTypes'
BY GoesIs DEF PairingInv, PairingTypes

(* One that neither takes nor has the store's lock, and leaves who is       *)
(* listed and the invite alone.                                            *)
LEMMA PlainKeeps ==
    ASSUME PairingInv, NEW n \in DOMAIN conns, NEW c \in ConnStates, Goes(n, c),
           SameEnd(conns[n], c), StaysSmooth(n, c),
           conns[n].at \notin Holding, c.at \notin Holding,
           c.pairing <= pairLog.made, c.at = "pairing" => c.pairing # 0,
           c.at \in Registered /\ ~c.shut =>
             Authorized(c.device) \/ (conns[n].at \in Registered /\ ~conns[n].shut),
           store' \in StoreStates, store'.listed = store.listed, store'.pushes \subseteq store.listed,
           store'.invite = store.invite, store'.lock = store.lock,
           UNCHANGED <<dialling, host, running, pairLog, pairLeft>>
    PROVE  PairingInv'
<1>1. PairingTypes /\ StoreInv /\ InvitesInv /\ RevokedStaysOut
  BY DEF PairingInv
<1>3. PairingTypes'
  BY <1>1, ThreadTypes DEF PairingTypes
<1>4. /\ DOMAIN conns' \subseteq DOMAIN conns
      /\ \A m \in DOMAIN conns' : conns'[m] = IF m = n THEN c ELSE conns[m]
      /\ \A m \in DOMAIN conns : m # n /\ conns[m].at \in Holding => m \in DOMAIN conns'
  BY <1>1, GoesIs DEF Holding
<1>5. StoreInv'
  BY <1>1, <1>4 DEF StoreInv, Making
<1>6. InvitesInv'
  BY <1>1, <1>4 DEF Numbered, InvitesInv, PairingThread, Holding, Removes, Redeemable,
     GoneForAReason
<1>7. RevokedStaysOut'
  BY <1>1, <1>4 DEF RevokedStaysOut, Authorized, SameEnd
<1>8. DialsInv'
  BY ThreadDials
<1> QED
  BY <1>3, <1>5, <1>6, <1>7, <1>8 DEF PairingInv

(* A thread that goes on, or turns its connection away.                    *)
LEMMA RecordIs ==
    ASSUME PairingTypes, NEW n \in DOMAIN conns, NEW at \in ThreadPcs, NEW why \in HostAnswers
    PROVE  /\ To(n, at) \in ConnStates /\ SameEnd(conns[n], To(n, at)) /\ To(n, at).at = at
           /\ To(n, at).shut = conns[n].shut /\ To(n, at).says = conns[n].says
           /\ To(n, at).psk = conns[n].psk /\ To(n, at).pairing = conns[n].pairing
           /\ TurnedAway(n, why) \in ConnStates /\ SameEnd(conns[n], TurnedAway(n, why))
           /\ TurnedAway(n, why).at = "gone" /\ TurnedAway(n, why).pairing = conns[n].pairing
           /\ conns[n] \in ConnStates
<1>1. conns[n] \in ConnStates
  BY DEF PairingTypes
<1> QED
  BY <1>1 DEF To, TurnedAway, ConnStates, SameEnd, ThreadPcs, HostAnswers

(* The same record but for one field.                                      *)
Same(r, c) ==
    /\ c \in ConnStates /\ SameEnd(r, c) /\ c.at = r.at /\ c.shut = r.shut
(* The answer of the handshake names a pre-shared key,                     *)
LEMMA KeyIs ==
    ASSUME NEW r \in ConnStates, NEW k \in Int, NEW c, c = [r EXCEPT !.psk = k]
    PROVE  Same(r, c) /\ c.psk = k /\ c.pairing = r.pairing /\ c.says = r.says
  BY DEF ConnStates, Same, SameEnd
(* a thread has an invite to redeem,                                       *)
LEMMA InviteIs ==
    ASSUME NEW r \in ConnStates, NEW i \in Nat, NEW c, c = [r EXCEPT !.pairing = i]
    PROVE  Same(r, c) /\ c.pairing = i
  BY DEF ConnStates, Same, SameEnd
(* or answers.                                                             *)
LEMMA AnswerIs ==
    ASSUME NEW r \in ConnStates, NEW why \in HostAnswers, NEW c, c = [r EXCEPT !.says = why]
    PROVE  Same(r, c) /\ c.says = why /\ c.psk = r.psk /\ c.pairing = r.pairing
  BY DEF ConnStates, Same, SameEnd

(* A thread that turns a connection away, or ends, has not kept a Device    *)
(* out that may count on it.                                               *)
LEMMA TurningKeeps ==
    ASSUME PairingInv, NEW n \in DOMAIN conns, NEW why \in HostAnswers, Goes(n, TurnedAway(n, why)),
           conns[n].at \notin Holding,
           \A d \in Peers : ~(Undisturbed(d) /\ conns[n].device = d /\ Smooth(d, conns[n])),
           UNCHANGED <<store, dialling, host, running, pairLog, pairLeft>>
    PROVE  PairingInv'
BY RecordIs, PlainKeeps DEF PairingInv, ThreadPcs, StaysSmooth, Holding, Registered, InvitesInv,
   PairingThread, PairingTypes, StoreInv

(* One that goes on.                                                       *)
LEMMA GoingOnKeeps ==
    ASSUME PairingInv, NEW n \in DOMAIN conns, NEW c \in ConnStates, Goes(n, c),
           SameEnd(conns[n], c), StaysSmooth(n, c),
           conns[n].at \notin Holding, c.at \notin Holding,
           c.pairing <= pairLog.made, c.at = "pairing" => c.pairing # 0,
           c.at \in Registered /\ ~c.shut =>
             Authorized(c.device) \/ (conns[n].at \in Registered /\ ~conns[n].shut),
           UNCHANGED <<store, dialling, host, running, pairLog, pairLeft>>
    PROVE  PairingInv'
BY PlainKeeps DEF PairingInv, PairingTypes, StoreInv

(* The invite that is pending was made.                                    *)
LEMMA InviteRange ==
    ASSUME PairingInv
    PROVE  PendingInvite \in Int /\ PendingInvite <= pairLog.made /\ pairLog.made \in Nat
           /\ (PendingInvite > 0 => store.invite = PendingInvite)
BY DEF PairingInv, InvitesInv, PairingTypes, LogStates, StoreStates, PendingInvite

(* The list is read.                                                       *)
LEMMA ReadAuthorizedKeeps ==
    ASSUME PairingInv, NEW n, ReadAuthorized(n)
    PROVE  PairingInv'
<1>1. /\ n \in DOMAIN conns /\ conns[n].at = "opening" /\ conns[n].way = "tcp"
      /\ UNCHANGED <<store, dialling, host, running, pairLog, pairLeft>>
  BY DEF ReadAuthorized, Thread, ServerOnly, PairSpendsNothing
<1>2. PairingTypes /\ conns[n] \in ConnStates /\ conns[n].at \notin Holding
  BY <1>1 DEF PairingInv, PairingTypes, Holding
<1>3. CASE conns[n].shut
  BY <1>3, <1>1, <1>2, TurningKeeps DEF ReadAuthorized, Ended, Smooth, HostAnswers
<1>4. CASE ~conns[n].shut /\ Authorized(conns[n].device)
  <2> DEFINE c == [To(n, "waiting") EXCEPT !.psk = 0]
  <2>1. Goes(n, c)
    BY <1>4 DEF ReadAuthorized
  <2>2. /\ c \in ConnStates /\ SameEnd(conns[n], c) /\ c.at = "waiting" /\ c.psk = 0
        /\ c.shut = conns[n].shut /\ c.says = conns[n].says /\ c.pairing = conns[n].pairing
    <3> DEFINE r == To(n, "waiting")
    <3>1. /\ r \in ConnStates /\ SameEnd(conns[n], r) /\ r.at = "waiting"
          /\ r.shut = conns[n].shut /\ r.says = conns[n].says /\ r.pairing = conns[n].pairing
      BY <1>1, <1>2, RecordIs DEF ThreadPcs, HostAnswers
    <3>2. c = [r EXCEPT !.psk = 0]
      OBVIOUS
    <3> HIDE DEF r, c
    <3>3. Same(r, c) /\ c.psk = 0 /\ c.pairing = r.pairing /\ c.says = r.says
      BY <3>1, <3>2, KeyIs
    <3> QED
      BY <3>1, <3>3 DEF Same, SameEnd
  <2> HIDE DEF c
  <2>3. StaysSmooth(n, c)
    BY <1>1, <1>4, <2>2 DEF StaysSmooth, Smooth, SameEnd
  <2>4. c.at \notin Holding /\ c.at \notin Registered /\ c.at # "pairing" /\ c.pairing <= pairLog.made
    BY <1>1, <2>2 DEF Holding, Registered, PairingInv, InvitesInv, PairingThread
  <2> QED
    BY <1>1, <1>2, <2>1, <2>2, <2>3, <2>4, GoingOnKeeps
<1>5. CASE ~conns[n].shut /\ ~Authorized(conns[n].device)
  BY <1>5, <1>1, <1>2, RecordIs, GoingOnKeeps DEF ReadAuthorized, ThreadPcs, HostAnswers, StaysSmooth,
     Undisturbed, Holding, Registered, PairingInv, InvitesInv, PairingThread
<1> QED
  BY <1>3, <1>4, <1>5

(* The invite is read.                                                     *)
LEMMA ReadPendingInviteKeeps ==
    ASSUME PairingInv, NEW n, ReadPendingInvite(n)
    PROVE  PairingInv'
<1>1. /\ n \in DOMAIN conns /\ conns[n].at = "unknown"
      /\ UNCHANGED <<store, dialling, host, running, pairLog, pairLeft>>
  BY DEF ReadPendingInvite, Thread, ServerOnly, PairSpendsNothing
<1>2. PairingTypes /\ conns[n] \in ConnStates /\ conns[n].at \notin Holding
      /\ conns[n].pairing \in Nat /\ conns[n].pairing <= pairLog.made
  BY <1>1 DEF PairingInv, PairingTypes, Holding, InvitesInv, PairingThread, ConnStates
<1>3. ASSUME NEW d PROVE ~Smooth(d, conns[n])
  BY <1>1 DEF Smooth
<1>4. CASE PendingInvite \in {0, Unread}
  BY <1>4, <1>1, <1>2, <1>3, TurningKeeps DEF ReadPendingInvite, Ended, HostAnswers
<1>5. CASE PendingInvite \notin {0, Unread}
  <2> DEFINE r == To(n, "waiting")
             c == [r EXCEPT !.psk = PendingInvite, !.pairing = PendingInvite]
  <2>1. Goes(n, c)
    BY <1>5 DEF ReadPendingInvite
  <2>2. PendingInvite \in Nat /\ PendingInvite <= pairLog.made
    BY <1>5, InviteRange DEF PairingInv, InvitesInv, PendingInvite, Unread
  <2>3. r \in ConnStates /\ SameEnd(conns[n], r) /\ r.at = "waiting"
    BY <1>1, <1>2, RecordIs DEF ThreadPcs, HostAnswers
  <2>4. Same(r, c) /\ c.pairing = PendingInvite
    <3> DEFINE i == PendingInvite
    <3>1. c = [r EXCEPT !.psk = i, !.pairing = i] /\ i \in Nat /\ i \in Int
      BY <2>2
    <3> HIDE DEF r, c, i
    <3>2. Same(r, c) /\ c.pairing = i
      BY <2>3, <3>1 DEF ConnStates, Same, SameEnd
    <3> QED
      BY <3>2 DEF i
  <2> HIDE DEF r, c
  <2>5. StaysSmooth(n, c)
    BY <1>3 DEF StaysSmooth
  <2>6. /\ c \in ConnStates /\ SameEnd(conns[n], c) /\ c.at = "waiting"
        /\ c.at \notin Holding /\ c.at \notin Registered /\ c.at # "pairing"
    BY <2>3, <2>4 DEF Same, SameEnd, Holding, Registered
  <2> QED
    BY <1>1, <1>2, <2>1, <2>2, <2>4, <2>5, <2>6, GoingOnKeeps
<1> QED
  BY <1>4, <1>5

(* A Credential, Peer-to-peer.                                             *)
LEMMA ReadCredentialKeeps ==
    ASSUME PairingInv, NEW n, ReadCredential(n)
    PROVE  PairingInv'
<1>1. /\ n \in DOMAIN conns /\ conns[n].at = "opening" /\ conns[n].way = "p2p"
      /\ UNCHANGED <<store, dialling, host, running, pairLog, pairLeft>>
  BY DEF ReadCredential, Thread, ServerOnly, PairSpendsNothing
<1>2. PairingTypes /\ conns[n] \in ConnStates /\ conns[n].at \notin Holding
      /\ conns[n].pairing \in Nat /\ conns[n].pairing <= pairLog.made
  BY <1>1 DEF PairingInv, PairingTypes, Holding, InvitesInv, PairingThread, ConnStates
<1> DEFINE a == conns[n]
<1>3. CASE a.shut
  BY <1>3, <1>1, <1>2, TurningKeeps DEF ReadCredential, Ended, Smooth, HostAnswers
<1>4. CASE ~a.shut /\ (a.with = 0 \/ Authorized(a.device))
  <2> DEFINE c == To(n, "waiting")
  <2>1. Goes(n, c)
    BY <1>4 DEF ReadCredential
  <2>2. /\ c \in ConnStates /\ SameEnd(conns[n], c) /\ c.at = "waiting" /\ c.pairing = conns[n].pairing
        /\ c.shut = conns[n].shut /\ c.says = conns[n].says /\ c.psk = conns[n].psk
    BY <1>1, <1>2, RecordIs DEF ThreadPcs, HostAnswers
  <2> HIDE DEF c
  <2>3. StaysSmooth(n, c)
    BY <1>1, <2>2 DEF StaysSmooth, Smooth, SameEnd
  <2>4. /\ c.at \notin Holding /\ c.pairing <= pairLog.made
        /\ c.at = "pairing" => c.pairing # 0
    BY <1>1, <1>2, <2>2 DEF Holding
  <2>5. c.at \in Registered /\ ~c.shut =>
          Authorized(c.device) \/ (conns[n].at \in Registered /\ ~conns[n].shut)
    BY <1>1, <2>2 DEF Registered, SameEnd
  <2> QED
    BY <1>1, <1>2, <2>1, <2>2, <2>3, <2>4, <2>5, GoingOnKeeps
<1>5. CASE ~a.shut /\ a.with # 0 /\ ~Authorized(a.device) /\ a.with = PendingInvite
  <2> DEFINE r == To(n, "waiting")
             c == [r EXCEPT !.pairing = a.with]
  <2>1. Goes(n, c)
    BY <1>5 DEF ReadCredential
  <2>2. a.with \in Nat /\ a.with <= pairLog.made
    BY <1>2, <1>5, InviteRange DEF ConnStates
  <2>3. r \in ConnStates /\ SameEnd(conns[n], r) /\ r.at = "waiting"
    BY <1>1, <1>2, RecordIs DEF ThreadPcs, HostAnswers
  <2>4. Same(r, c) /\ c.pairing = a.with
    BY <2>2, <2>3, InviteIs
  <2> HIDE DEF r, c
  <2>5. StaysSmooth(n, c)
    BY <1>5 DEF StaysSmooth, Undisturbed
  <2>6. /\ c \in ConnStates /\ SameEnd(conns[n], c) /\ c.at = "waiting"
        /\ c.at \notin Holding /\ c.at \notin Registered /\ c.at # "pairing"
    BY <2>3, <2>4 DEF Same, SameEnd, Holding, Registered
  <2> QED
    BY <1>1, <1>2, <2>1, <2>2, <2>4, <2>5, <2>6, GoingOnKeeps
<1>6. CASE ~a.shut /\ a.with # 0 /\ ~Authorized(a.device) /\ a.with # PendingInvite
  BY <1>6, <1>1, <1>2, TurningKeeps DEF ReadCredential, HostAnswers, Undisturbed
<1> QED
  BY <1>3, <1>4, <1>5, <1>6

(* The Hello.                                                              *)
LEMMA ReadHelloKeeps ==
    ASSUME PairingInv, NEW n, ReadHello(n)
    PROVE  PairingInv'
<1>1. /\ n \in DOMAIN conns /\ conns[n].at = "waiting"
      /\ UNCHANGED <<store, dialling, host, running, pairLog, pairLeft>>
  BY DEF ReadHello, Thread, ServerOnly, PairSpendsNothing
<1>2. PairingTypes /\ conns[n] \in ConnStates /\ conns[n].at \notin Holding
      /\ conns[n].pairing \in Nat /\ conns[n].pairing <= pairLog.made
  BY <1>1 DEF PairingInv, PairingTypes, Holding, InvitesInv, PairingThread, ConnStates
<1> DEFINE a == conns[n]
           unproven == a.way = "p2p" /\ a.pairing = 0 /\ ~Authorized(a.device)
<1>3. CASE ~a.hello
  BY <1>3, <1>1, <1>2, TurningKeeps DEF ReadHello, Ended, Smooth, HostAnswers
<1>4. CASE a.hello /\ unproven
  BY <1>4, <1>1, <1>2, TurningKeeps DEF ReadHello, Undisturbed, HostAnswers
<1>5. CASE a.hello /\ ~unproven /\ a.device \in pairLog.setting.old
  BY <1>5, <1>1, <1>2, TurningKeeps DEF ReadHello, Undisturbed, HostAnswers
<1>6. CASE a.hello /\ ~unproven /\ a.device \notin pairLog.setting.old /\ a.pairing = 0
  <2> DEFINE c == To(n, "paired")
  <2>1. Goes(n, c)
    BY <1>6 DEF ReadHello
  <2>2. /\ c \in ConnStates /\ SameEnd(conns[n], c) /\ c.at = "paired" /\ c.pairing = conns[n].pairing
        /\ c.shut = conns[n].shut /\ c.says = conns[n].says /\ c.psk = conns[n].psk
    BY <1>1, <1>2, RecordIs DEF ThreadPcs, HostAnswers
  <2> HIDE DEF c
  <2>3. StaysSmooth(n, c)
    BY <1>1, <1>6, <2>2 DEF StaysSmooth, Smooth, SameEnd
  <2>4. /\ c.at \notin Holding /\ c.pairing <= pairLog.made
        /\ c.at = "pairing" => c.pairing # 0
    BY <1>1, <1>2, <2>2 DEF Holding
  <2>5. c.at \in Registered /\ ~c.shut =>
          Authorized(c.device) \/ (conns[n].at \in Registered /\ ~conns[n].shut)
    BY <1>1, <2>2 DEF Registered, SameEnd
  <2> QED
    BY <1>1, <1>2, <2>1, <2>2, <2>3, <2>4, <2>5, GoingOnKeeps
<1>7. CASE a.hello /\ ~unproven /\ a.device \notin pairLog.setting.old /\ a.pairing # 0
  <2> DEFINE c == To(n, "pairing")
  <2>1. Goes(n, c)
    BY <1>7 DEF ReadHello
  <2>2. /\ c \in ConnStates /\ SameEnd(conns[n], c) /\ c.at = "pairing" /\ c.pairing = conns[n].pairing
        /\ c.shut = conns[n].shut /\ c.says = conns[n].says /\ c.psk = conns[n].psk
    BY <1>1, <1>2, RecordIs DEF ThreadPcs, HostAnswers
  <2> HIDE DEF c
  <2>3. StaysSmooth(n, c)
    BY <1>1, <1>7 DEF StaysSmooth, Smooth
  <2>4. /\ c.at \notin Holding /\ c.pairing <= pairLog.made
        /\ c.at = "pairing" => c.pairing # 0
    BY <1>1, <1>2, <2>2, <1>7 DEF Holding
  <2>5. c.at \in Registered /\ ~c.shut =>
          Authorized(c.device) \/ (conns[n].at \in Registered /\ ~conns[n].shut)
    BY <1>1, <2>2, <1>7 DEF Registered, SameEnd
  <2> QED
    BY <1>1, <1>2, <2>1, <2>2, <2>3, <2>4, <2>5, GoingOnKeeps
<1> QED
  BY <1>3, <1>4, <1>5, <1>6, <1>7

(* The list is read again, as the peer is registered.                      *)
LEMMA AdmitKeeps ==
    ASSUME PairingInv, NEW n, Admit(n)
    PROVE  PairingInv'
<1>1. /\ n \in DOMAIN conns /\ conns[n].at = "paired"
      /\ UNCHANGED <<store, dialling, host, running, pairLog, pairLeft>>
  BY DEF Admit, Thread, ServerOnly, PairSpendsNothing
<1>2. PairingTypes /\ conns[n] \in ConnStates /\ conns[n].at \notin Holding
      /\ conns[n].pairing \in Nat /\ conns[n].pairing <= pairLog.made
  BY <1>1 DEF PairingInv, PairingTypes, Holding, InvitesInv, PairingThread, ConnStates
<1>3. CASE Authorized(conns[n].device)
  BY <1>3, <1>1, <1>2, RecordIs, GoingOnKeeps DEF Admit, ThreadPcs, HostAnswers, StaysSmooth, Smooth,
     SameEnd, Holding, Registered
<1>4. CASE ~Authorized(conns[n].device)
  BY <1>4, <1>1, <1>2, TurningKeeps DEF Admit, Undisturbed, HostAnswers
<1> QED
  BY <1>3, <1>4

(* A Stream connection records nothing.                                    *)
LEMMA SkipSeenKeeps ==
    ASSUME PairingInv, NEW n, SkipSeen(n)
    PROVE  PairingInv'
<1>1. /\ n \in DOMAIN conns /\ conns[n].at = "admitted"
      /\ UNCHANGED <<store, dialling, host, running, pairLog, pairLeft>>
  BY DEF SkipSeen, Thread, ServerOnly, PairSpendsNothing
<1>2. PairingTypes /\ conns[n] \in ConnStates /\ conns[n].at \notin Holding
      /\ conns[n].pairing \in Nat /\ conns[n].pairing <= pairLog.made
  BY <1>1 DEF PairingInv, PairingTypes, Holding, InvitesInv, PairingThread, ConnStates
<1> DEFINE c == To(n, "seen")
<1>3. Goes(n, c)
  BY SkipSeen(n) DEF SkipSeen
<1>4. /\ c \in ConnStates /\ SameEnd(conns[n], c) /\ c.at = "seen" /\ c.pairing = conns[n].pairing
      /\ c.shut = conns[n].shut /\ c.says = conns[n].says /\ c.psk = conns[n].psk
  BY <1>1, <1>2, RecordIs DEF ThreadPcs, HostAnswers
<1> HIDE DEF c
<1>5. StaysSmooth(n, c)
  BY <1>1, <1>4 DEF StaysSmooth, Smooth, SameEnd
<1>6. /\ c.at \notin Holding /\ c.pairing <= pairLog.made
      /\ c.at = "pairing" => c.pairing # 0
  BY <1>1, <1>2, <1>4 DEF Holding
<1>7. c.at \in Registered /\ ~c.shut =>
        Authorized(c.device) \/ (conns[n].at \in Registered /\ ~conns[n].shut)
  BY <1>1, <1>4 DEF Registered, SameEnd
<1> QED
  BY <1>1, <1>2, <1>3, <1>4, <1>5, <1>6, <1>7, GoingOnKeeps

(* The Welcome.                                                            *)
LEMMA SendWelcomeKeeps ==
    ASSUME PairingInv, NEW n, SendWelcome(n)
    PROVE  PairingInv'
<1>1. /\ n \in DOMAIN conns /\ conns[n].at = "seen"
      /\ UNCHANGED <<store, dialling, host, running, pairLog, pairLeft>>
  BY DEF SendWelcome, Thread, ServerOnly, PairSpendsNothing
<1>2. PairingTypes /\ conns[n] \in ConnStates /\ conns[n].at \notin Holding
      /\ conns[n].pairing \in Nat /\ conns[n].pairing <= pairLog.made
  BY <1>1 DEF PairingInv, PairingTypes, Holding, InvitesInv, PairingThread, ConnStates
<1>3. CASE conns[n].shut
  BY <1>3, <1>1, <1>2, TurningKeeps DEF SendWelcome, Ended, Smooth, HostAnswers
<1>4. CASE ~conns[n].shut
  <2> DEFINE r == To(n, "serving")
             c == [r EXCEPT !.says = "welcome"]
  <2>1. Goes(n, c)
    BY <1>4 DEF SendWelcome
  <2>2. /\ r \in ConnStates /\ SameEnd(conns[n], r) /\ r.at = "serving" /\ r.shut = conns[n].shut
        /\ r.psk = conns[n].psk /\ r.pairing = conns[n].pairing
    BY <1>1, <1>2, RecordIs DEF ThreadPcs, HostAnswers
  <2>3. Same(r, c) /\ c.says = "welcome" /\ c.psk = r.psk /\ c.pairing = r.pairing
    BY <2>2, AnswerIs DEF HostAnswers
  <2> HIDE DEF r, c
  <2>4. /\ c \in ConnStates /\ SameEnd(conns[n], c) /\ c.at = "serving" /\ c.shut = conns[n].shut
        /\ c.psk = conns[n].psk /\ c.pairing = conns[n].pairing /\ c.says = "welcome"
    BY <2>2, <2>3 DEF Same, SameEnd
  <2>5. StaysSmooth(n, c)
    BY <1>1, <2>4 DEF StaysSmooth, Smooth, SameEnd
  <2>6. c.at \notin Holding /\ c.pairing <= pairLog.made /\ c.at # "pairing"
    BY <1>1, <1>2, <2>4 DEF Holding
  <2>7. conns[n].at \in Registered /\ ~conns[n].shut
    BY <1>1, <1>4 DEF Registered
  <2> QED
    BY <1>1, <1>2, <2>1, <2>4, <2>5, <2>6, <2>7, GoingOnKeeps
<1> QED
  BY <1>3, <1>4

(* A served connection ends.                                               *)
LEMMA ServeKeeps ==
    ASSUME PairingInv, NEW n, Serve(n)
    PROVE  PairingInv'
<1>1. /\ n \in DOMAIN conns /\ conns[n].at = "serving" /\ conns[n].shut
      /\ UNCHANGED <<store, dialling, host, running, pairLog, pairLeft>>
  BY DEF Serve, Thread, ServerOnly, PairSpendsNothing
<1>2. PairingTypes /\ conns[n] \in ConnStates /\ conns[n].at \notin Holding
      /\ conns[n].pairing \in Nat /\ conns[n].pairing <= pairLog.made
  BY <1>1 DEF PairingInv, PairingTypes, Holding, InvitesInv, PairingThread, ConnStates
<1> DEFINE r == Ended(n)
           c == [r EXCEPT !.says = conns[n].says]
<1>3. Goes(n, c)
  BY DEF Serve
<1>4. r \in ConnStates /\ SameEnd(conns[n], r) /\ r.at = "gone" /\ r.pairing = conns[n].pairing
  BY <1>1, <1>2, RecordIs DEF ThreadPcs, HostAnswers, Ended
<1>5. Same(r, c) /\ c.pairing = r.pairing
  BY <1>2, <1>4, AnswerIs DEF ConnStates
<1> HIDE DEF r, c
<1>6. StaysSmooth(n, c)
  BY <1>1 DEF StaysSmooth, Smooth
<1>7. /\ c \in ConnStates /\ SameEnd(conns[n], c) /\ c.at = "gone" /\ c.pairing <= pairLog.made
      /\ c.at \notin Holding /\ c.at \notin Registered /\ c.at # "pairing"
  BY <1>2, <1>4, <1>5 DEF Same, SameEnd, Holding, Registered
<1> QED
  BY <1>1, <1>2, <1>3, <1>6, <1>7, GoingOnKeeps

(* A Device that was seen: it stays listed, or is not listed by that.      *)
LEMMA RecordSeenKeeps ==
    ASSUME PairingInv, NEW n, RecordSeen(n)
    PROVE  PairingInv'
<1>1. /\ n \in DOMAIN conns /\ conns[n].at = "admitted"
      /\ UNCHANGED <<dialling, host, running, pairLog, pairLeft>> /\ store' = Seen(store, conns[n].device)
  BY DEF RecordSeen, Thread, ServerOnly, PairSpendsNothing
<1>2. PairingTypes /\ conns[n] \in ConnStates /\ conns[n].at \notin Holding
      /\ conns[n].pairing \in Nat /\ conns[n].pairing <= pairLog.made
  BY <1>1 DEF PairingInv, PairingTypes, Holding, InvitesInv, PairingThread, ConnStates
<1>3. /\ store' \in StoreStates /\ store'.listed = store.listed /\ store'.pushes \subseteq store.listed
      /\ store'.invite = store.invite /\ store'.lock = store.lock
  BY <1>1 DEF PairingInv, PairingTypes, StoreInv, Seen, StoreStates
<1> DEFINE c == To(n, "seen")
<1>4. Goes(n, c)
  BY DEF RecordSeen
<1>5. /\ c \in ConnStates /\ SameEnd(conns[n], c) /\ c.at = "seen" /\ c.pairing = conns[n].pairing
      /\ c.shut = conns[n].shut /\ c.says = conns[n].says /\ c.psk = conns[n].psk
  BY <1>1, <1>2, RecordIs DEF ThreadPcs, HostAnswers
<1> HIDE DEF c
<1>6. StaysSmooth(n, c)
  BY <1>1, <1>5 DEF StaysSmooth, Smooth, SameEnd
<1>7. /\ c.at \notin Holding /\ c.pairing <= pairLog.made
      /\ c.at = "pairing" => c.pairing # 0
  BY <1>1, <1>2, <1>5 DEF Holding
<1>8. ~c.shut => conns[n].at \in Registered /\ ~conns[n].shut
  BY <1>1, <1>5 DEF Registered
<1> QED
  BY <1>1, <1>2, <1>3, <1>4, <1>5, <1>6, <1>7, <1>8, PlainKeeps

-----------------------------------------------------------------------------
(* A pairing is completed.                                                 *)

(* What is on the disk, and what was redeemed, as they were counted.        *)
LEMMA NumbersAre ==
    ASSUME PairingInv
    PROVE  /\ DOMAIN conns \subseteq Int /\ DOMAIN pairLog.redeemed \subseteq Nat \ {0}
           /\ 1 .. pairLog.made \subseteq DOMAIN pairLog.redeemed
           /\ pairLog.made \in Nat /\ pairLeft["invites"] \in Nat /\ store.invite \in Int
           /\ \A i \in DOMAIN pairLog.redeemed : pairLog.redeemed[i] \subseteq Peers
<1>1. pairLog.redeemed \in Redemptions /\ pairLog.made \in Nat /\ pairLeft["invites"] \in Nat
      /\ store.invite \in Int /\ DOMAIN conns \subseteq Int
  BY DEF PairingInv, PairingTypes, LogStates, StoreStates, PairActs
<1>2. Numbered \in Nat /\ pairLog.made <= Numbered
  BY <1>1 DEF Numbered
<1>3. 1 .. pairLog.made \subseteq DOMAIN pairLog.redeemed
  BY <1>1, <1>2 DEF PairingInv, InvitesInv
<1>4. PICK b \in Nat : pairLog.redeemed \in [1 .. b -> SUBSET Peers]
  BY <1>1 DEF Redemptions
<1> QED
  BY <1>1, <1>3, <1>4

(* No calm dial has a thread that redeems an invite.                       *)
LEMMA NoDialMinds ==
    ASSUME NEW n, NEW c, conns[n].at \in {"pairing", "listing", "listed"}
    PROVE  StaysSmooth(n, c)
  BY DEF StaysSmooth, Smooth

(* complete_pairing: the lock is taken while the invite is pending,        *)
LEMMA CompletePairingKeeps ==
    ASSUME PairingInv, NEW n, CompletePairing(n)
    PROVE  PairingInv'
<1>1. /\ n \in DOMAIN conns /\ conns[n].at = "pairing" /\ store.lock = Nobody
      /\ UNCHANGED <<dialling, host, running, pairLog, pairLeft>>
  BY DEF CompletePairing, Thread, PairSpendsNothing, StoreLock
<1>2. PairingTypes /\ StoreInv /\ InvitesInv /\ RevokedStaysOut
      /\ conns[n] \in ConnStates /\ conns[n].at \notin Holding
      /\ conns[n].pairing \in Nat /\ conns[n].pairing # 0
  BY <1>1 DEF PairingInv, PairingTypes, Holding, InvitesInv, PairingThread, ConnStates
<1>3. CASE ~StillPending(n)
  BY <1>3, <1>1, <1>2, TurningKeeps DEF CompletePairing, Smooth, HostAnswers
<1>4. CASE StillPending(n)
  <2> DEFINE c == To(n, "listing")
  <2>1. Goes(n, c) /\ store' = [store EXCEPT !.lock = n]
    BY <1>4 DEF CompletePairing, StoreLock
  <2>2. /\ c \in ConnStates /\ SameEnd(conns[n], c) /\ c.at = "listing" /\ c.pairing = conns[n].pairing
    BY <1>1, <1>2, RecordIs DEF ThreadPcs, HostAnswers
  <2> HIDE DEF c
  <2>3. n \in Nat
    BY <1>1, <1>2 DEF PairingTypes
  <2>4. /\ store' \in StoreStates /\ store'.lock = n /\ store'.listed = store.listed
        /\ store'.pushes = store.pushes /\ store'.invite = store.invite
    BY <1>2, <2>1, <2>3 DEF PairingTypes, StoreStates
  <2>5. PairingTypes'
    BY <1>1, <1>2, <2>1, <2>2, <2>4, ThreadTypes DEF PairingTypes
  <2>6. DialsInv'
    BY <1>1, <2>1, <2>2, <2>4, NoDialMinds, ThreadDials
  <2>7. /\ DOMAIN conns' \subseteq DOMAIN conns /\ n \in DOMAIN conns'
        /\ \A m \in DOMAIN conns' : conns'[m] = IF m = n THEN c ELSE conns[m]
    BY <1>1, <1>2, <2>1, <2>2, GoesIs
  <2>8. \A m \in DOMAIN conns : conns[m].at \notin Holding
    BY <1>1, <1>2, NumbersAre, PairingAssumption DEF StoreInv
  <2>9. StoreInv'
    BY <2>2, <2>7, <2>8, <1>1, <1>2, <2>3, PairingAssumption, <2>4 DEF Holding, StoreInv, Making
  <2>10. store.invite = conns[n].pairing
    BY <1>2, <1>4, InviteRange DEF StillPending
  <2>11. InvitesInv'
    BY <1>1, <1>2, <2>2, <2>4, <2>7, <2>10, <2>8 DEF Numbered, InvitesInv, PairingThread, Holding,
       Removes, Redeemable, GoneForAReason
  <2>12. RevokedStaysOut'
    BY <1>1, <1>2, <2>2, <2>4, <2>7 DEF RevokedStaysOut, Authorized, Registered
  <2> QED
    BY <2>5, <2>6, <2>9, <2>11, <2>12 DEF PairingInv
<1> QED
  BY <1>3, <1>4

(* the Device is listed,                                                   *)
LEMMA WriteListKeeps ==
    ASSUME PairingInv, NEW n, WriteList(n)
    PROVE  PairingInv'
<1>0. PICK e, k : e = conns[n].device /\ k = conns[n].pairing
  OBVIOUS
<1> DEFINE c == To(n, "listed")
<1>1. /\ n \in DOMAIN conns /\ conns[n].at = "listing" /\ Goes(n, c)
      /\ UNCHANGED <<dialling, host, running, pairLeft>>
  BY DEF WriteList, Thread, PairSpendsNothing
<1>2. PairingTypes /\ StoreInv /\ InvitesInv /\ RevokedStaysOut /\ conns[n] \in ConnStates
  BY <1>1 DEF PairingInv, PairingTypes
<1>3. /\ store.lock = n /\ store.invite = k /\ k \in Nat /\ k # 0 /\ k <= pairLog.made /\ e \in Peers
  BY <1>0, <1>1, <1>2 DEF StoreInv, InvitesInv, PairingThread, Holding, ConnStates
<1>4. k \in DOMAIN pairLog.redeemed
  BY <1>3, NumbersAre
<1>5. /\ c \in ConnStates /\ SameEnd(conns[n], c) /\ c.at = "listed" /\ c.pairing = k
  BY <1>0, <1>1, <1>2, RecordIs DEF ThreadPcs, HostAnswers
<1>6. /\ store' \in StoreStates /\ store'.lock = n /\ store'.listed = store.listed \cup {e}
      /\ store'.pushes = store.pushes /\ store'.invite = k
  BY <1>0, <1>2, <1>3 DEF WriteList, Listed, PairingTypes, StoreStates
<1>7. /\ pairLog' \in LogStates /\ pairLog'.setting = pairLog.setting /\ pairLog'.made = pairLog.made
      /\ pairLog'.replaced = pairLog.replaced /\ pairLog'.interrupted = pairLog.interrupted
      /\ pairLog'.entitled = pairLog.entitled \cup {e} /\ pairLog'.unfinished = pairLog.unfinished \ {e}
      /\ pairLog'.redeemed = Redeemed(n)
  <2> DEFINE r == Redeemed(n)
             en == pairLog.entitled \cup {e}
             un == pairLog.unfinished \ {e}
  <2>1. pairLog' = [pairLog EXCEPT !.redeemed = r, !.entitled = en, !.unfinished = un]
    BY <1>0 DEF WriteList
  <2>2. r \in Redemptions
    BY <1>2, <1>0, <1>3, <1>4 DEF PairingTypes, LogStates, Redemptions, Redeemed
  <2>3. en \in SUBSET Peers /\ un \in SUBSET (Peers \cup {Nobody}) /\ pairLog \in LogStates
    BY <1>2, <1>3 DEF PairingTypes, LogStates
  <2> HIDE DEF r, en, un
  <2>4. /\ pairLog' \in LogStates /\ pairLog'.setting = pairLog.setting /\ pairLog'.made = pairLog.made
        /\ pairLog'.replaced = pairLog.replaced /\ pairLog'.interrupted = pairLog.interrupted
        /\ pairLog'.entitled = en /\ pairLog'.unfinished = un /\ pairLog'.redeemed = r
    BY <2>1, <2>2, <2>3 DEF LogStates
  <2> QED
    BY <2>4 DEF r, en, un
<1> HIDE DEF c
<1>8. PairingTypes'
  BY <1>1, <1>2, <1>5, <1>6, <1>7, ThreadTypes DEF PairingTypes
<1>9. DialsInv'
  BY <1>1, <1>5, <1>6, <1>7, NoDialMinds, ThreadDials
<1>10. /\ DOMAIN conns' \subseteq DOMAIN conns /\ n \in DOMAIN conns'
       /\ \A m \in DOMAIN conns' : conns'[m] = IF m = n THEN c ELSE conns[m]
  BY <1>1, <1>2, <1>5, GoesIs
<1>11. \A m \in DOMAIN conns : m # n => conns[m].at \notin Holding
  BY <1>2, <1>3 DEF StoreInv
<1>12. StoreInv'
  BY <1>5, <1>10, <1>11, <1>1, <1>2, <1>3, <1>6 DEF Holding, StoreInv, Making
<1>13. InvitesInv'
  <2>1. Numbered' = Numbered
    BY <1>1, <1>7 DEF Numbered
  <2>2. /\ DOMAIN pairLog'.redeemed = DOMAIN pairLog.redeemed
        /\ \A i \in DOMAIN pairLog.redeemed :
             pairLog'.redeemed[i] = IF i = k THEN pairLog.redeemed[k] \cup {e} ELSE pairLog.redeemed[i]
    BY <1>0, <1>2, <1>7 DEF Redeemed, PairingTypes, LogStates, Redemptions
  <2>3. ASSUME NEW m \in DOMAIN conns' PROVE PairingThread(m)'
    <3>1. CASE m = n
      BY <1>3, <1>4, <1>5, <1>6, <1>7, <1>10, <2>2, <3>1 DEF PairingThread, Holding
    <3>2. CASE m # n
      BY <1>2, <1>7, <1>10, <1>11, <3>2 DEF InvitesInv, PairingThread, Holding
    <3> QED
      BY <3>1, <3>2
  <2>4. ASSUME NEW i \in DOMAIN pairLog.redeemed PROVE Redeemable(i)' /\ GoneForAReason(i)'
    <3>1. \A m \in DOMAIN conns : ~Removes(m, i)
      BY <1>1, <1>11 DEF Removes, Holding
    <3>2. CASE i = k
      <4>1. k \in pairLog.interrupted \/ pairLog.redeemed[k] = {}
        BY <1>2, <1>3, <1>4, <3>1, <3>2 DEF InvitesInv, Redeemable
      <4>2. Removes(n, k)'
        BY <1>5, <1>10 DEF Removes
      <4>3. Redeemable(k)'
        BY <1>3, <1>4, <1>7, <1>10, <2>2, <4>1, <4>2 DEF Redeemable
      <4>4. GoneForAReason(k)'
        BY <1>4, <2>2 DEF GoneForAReason
      <4> QED
        BY <3>2, <4>3, <4>4
    <3>3. CASE i # k
      BY <1>2, <1>3, <1>6, <1>7, <2>2, <3>1, <3>3 DEF InvitesInv, Redeemable, GoneForAReason
    <3> QED
      BY <3>2, <3>3
  <2> QED
    BY <1>2, <1>3, <1>6, <1>7, <2>1, <2>2, <2>3, <2>4 DEF InvitesInv
<1>14. RevokedStaysOut'
  BY <1>2, <1>6, <1>7, <1>5, <1>10, <1>1 DEF RevokedStaysOut, Registered, Authorized
<1> QED
  BY <1>8, <1>9, <1>12, <1>13, <1>14 DEF PairingInv

(* and the invite goes, or stays with a fault.                             *)
LEMMA RemoveInviteKeeps ==
    ASSUME PairingInv, NEW n, RemoveInvite(n)
    PROVE  PairingInv'
<1>0. PICK k : k = conns[n].pairing
  OBVIOUS
<1> DEFINE away == TurnedAway(n, "denied")
           on == [To(n, "paired") EXCEPT !.pairing = 0]
<1>1. /\ n \in DOMAIN conns /\ conns[n].at = "listed" /\ UNCHANGED <<dialling, host, running>>
  BY DEF RemoveInvite, Thread
<1>2. PairingTypes /\ StoreInv /\ InvitesInv /\ RevokedStaysOut /\ conns[n] \in ConnStates
  BY <1>1 DEF PairingInv, PairingTypes
<1>3. /\ store.lock = n /\ store.invite = k /\ k \in Nat /\ k # 0 /\ k <= pairLog.made
      /\ pairLog.redeemed[k] # {}
  BY <1>0, <1>1, <1>2 DEF StoreInv, InvitesInv, PairingThread, Holding, ConnStates
<1>4. /\ away \in ConnStates /\ SameEnd(conns[n], away) /\ away.at = "gone" /\ away.pairing = k
  BY <1>0, <1>1, <1>2, RecordIs DEF ThreadPcs, HostAnswers
<1>5. /\ on \in ConnStates /\ SameEnd(conns[n], on) /\ on.at = "paired" /\ on.pairing = 0
  <2> DEFINE r == To(n, "paired")
  <2>1. r \in ConnStates /\ SameEnd(conns[n], r) /\ r.at = "paired"
    BY <1>1, <1>2, RecordIs DEF ThreadPcs, HostAnswers
  <2>2. on = [r EXCEPT !.pairing = 0] /\ 0 \in Nat
    OBVIOUS
  <2> HIDE DEF r, on
  <2>3. Same(r, on) /\ on.pairing = 0
    BY <2>1, <2>2, InviteIs
  <2> QED
    BY <2>1, <2>3 DEF Same, SameEnd
<1> HIDE DEF away, on
<1>6. PICK c \in {away, on} :
        /\ Goes(n, c)
        /\ \/ /\ store' = [store EXCEPT !.invite = 0, !.aged = FALSE, !.lock = Nobody]
              /\ UNCHANGED <<pairLog, pairLeft>>
           \/ /\ store' = [store EXCEPT !.lock = Nobody] /\ SpendPair("faults")
              /\ pairLog' = [pairLog EXCEPT !.interrupted = pairLog.interrupted \cup {k}]
  BY <1>0 DEF RemoveInvite, PairSpendsNothing, away, on
<1>7. c \in ConnStates /\ SameEnd(conns[n], c) /\ c.at \notin Holding \cup Registered \cup {"pairing"}
      /\ c.pairing <= pairLog.made
  BY <1>3, <1>4, <1>5, <1>6, NumbersAre DEF Holding, Registered
<1>8. /\ store' \in StoreStates /\ store'.lock = Nobody /\ store'.listed = store.listed
      /\ store'.pushes = store.pushes
      /\ store'.invite = 0 \/ (store'.invite = k /\ k \in pairLog'.interrupted)
  <2>1. store \in StoreStates /\ pairLog \in LogStates
    BY <1>2 DEF PairingTypes
  <2>2. CASE store' = [store EXCEPT !.invite = 0, !.aged = FALSE, !.lock = Nobody]
    <3>1. store' = [listed |-> store.listed, pushes |-> store.pushes, invite |-> 0, aged |-> FALSE,
                    lock |-> Nobody]
      BY <2>1, <2>2 DEF StoreStates
    <3> QED
      BY <2>1, <3>1 DEF StoreStates
  <2>3. CASE /\ store' = [store EXCEPT !.lock = Nobody]
             /\ pairLog' = [pairLog EXCEPT !.interrupted = pairLog.interrupted \cup {k}]
    BY <2>1, <2>3, <1>3 DEF LogStates, StoreStates
  <2> QED
    BY <1>6, <2>2, <2>3
<1>9. /\ pairLog' \in LogStates /\ pairLog'.setting = pairLog.setting /\ pairLog'.made = pairLog.made
      /\ pairLog'.replaced = pairLog.replaced /\ pairLog'.redeemed = pairLog.redeemed
      /\ pairLog'.entitled = pairLog.entitled /\ pairLog'.unfinished = pairLog.unfinished
      /\ pairLog.interrupted \subseteq pairLog'.interrupted
  BY <1>2, <1>3, <1>6 DEF PairingTypes, LogStates
<1>10. pairLeft' \in [PairActs -> Nat] /\ pairLeft'["invites"] = pairLeft["invites"]
  BY <1>2, <1>6 DEF PairingTypes, SpendPair, PairActs
<1>11. PairingTypes'
  BY <1>1, <1>6, <1>7, <1>8, <1>9, <1>10, ThreadTypes
<1>12. DialsInv'
  BY <1>1, <1>6, <1>7, <1>8, <1>9, NoDialMinds, ThreadDials
<1>13. /\ DOMAIN conns' \subseteq DOMAIN conns
       /\ \A m \in DOMAIN conns' : conns'[m] = IF m = n THEN c ELSE conns[m]
  BY <1>1, <1>2, <1>6, <1>7, GoesIs
<1>14. \A m \in DOMAIN conns : m # n => conns[m].at \notin Holding
  BY <1>2, <1>3 DEF StoreInv
<1>15. StoreInv'
  <2>1. \A m \in DOMAIN conns' : conns'[m].at \notin Holding /\ m # Nobody
    BY <1>7, <1>13, <1>14, NumbersAre, PairingAssumption
  <2>2. host.op \notin Making
    BY <1>1, <1>2, <1>3, NumbersAre, PairingAssumption DEF StoreInv
  <2> QED
    BY <1>1, <1>2, <1>8, <2>1, <2>2, PairingAssumption DEF StoreInv, Making
<1>16. InvitesInv'
  <2>1. Numbered' = Numbered
    BY <1>1, <1>9, <1>10 DEF Numbered
  <2>2. \A m \in DOMAIN conns' : PairingThread(m)'
    BY <1>7, <1>9, <1>13, <1>2, <1>14 DEF PairingThread, Holding, InvitesInv
  <2>3. ASSUME NEW i \in DOMAIN pairLog.redeemed PROVE Redeemable(i)' /\ GoneForAReason(i)'
    BY <1>14, NumbersAre, <1>2, <1>3, <1>8, <1>9, <1>0 DEF Removes, Holding, InvitesInv,
       Redeemable, GoneForAReason
  <2>4. store'.invite \in -1 .. pairLog'.made
    BY <1>3, <1>8, <1>9, NumbersAre
  <2> QED
    BY <1>2, <1>9, <2>1, <2>2, <2>3, <2>4 DEF InvitesInv
<1>17. RevokedStaysOut'
  BY <1>1, <1>2, <1>7, <1>8, <1>9, <1>13 DEF RevokedStaysOut, Authorized
<1> QED
  BY <1>11, <1>12, <1>15, <1>16, <1>17 DEF PairingInv

-----------------------------------------------------------------------------
(* The Device that dials.                                                  *)

(* What one of them does is nothing to the others.                         *)
LEMMA OthersDials ==
    ASSUME PairingInv, NEW d \in Peers, NEW f, conns' = f,
           \A m \in DOMAIN conns :
             m # dialling[d].conn /\ conns[m].held => m \in DOMAIN f /\ f[m] = conns[m],
           NEW a \in DialingStates, AttemptIs(d, a), UNCHANGED <<store, running, pairLog>>,
           DialInv(d)'
    PROVE  DialsInv'
BY DEF DialsInv, AttemptIs, PairingInv, PairingTypes, DialInv, Conn, Undisturbed, Authorized,
   Smooth, Carried, HasConn

(* What a dialling Device does keeps the types,                            *)
LEMMA ClientTypes ==
    ASSUME PairingInv, NEW d \in Peers, NEW a \in DialingStates, AttemptIs(d, a),
           conns' \in [DOMAIN conns' -> ConnStates], DOMAIN conns' \subseteq Nat \ {0},
           IsFiniteSet(DOMAIN conns'), ClientOnly, pairLeft' \in [PairActs -> Nat]
    PROVE  PairingTypes'
  BY DEF PairingInv, PairingTypes, AttemptIs, ClientOnly

(* and counts down.                                                        *)
LEMMA SpendIs ==
    ASSUME PairingInv, NEW what \in PairActs, SpendPair(what) \/ PairSpendsNothing
    PROVE  pairLeft' \in [PairActs -> Nat] /\ pairLeft'["invites"] <= pairLeft["invites"]
BY DEF PairingInv, PairingTypes, PairActs, SpendPair, PairSpendsNothing

(* A dial that ends, and lets its connection go.                           *)
LEMMA LettingGoKeeps ==
    ASSUME PairingInv, NEW d \in Peers, NEW a \in DialingStates, AttemptIs(d, a), ClientOnly,
           a.conn = 0, a.phase \notin HasConn,
           a.calm => dialling[d].calm /\ a.phase \notin {"failed", "denied"},
           pairLeft' \in [PairActs -> Nat], pairLeft'["invites"] <= pairLeft["invites"],
           NEW cs \in [DOMAIN conns -> ConnStates], conns' = LetGo(cs, dialling[d].conn),
           \A m \in DOMAIN conns :
             /\ cs[m].at = conns[m].at /\ cs[m].pairing = conns[m].pairing
             /\ cs[m].device = conns[m].device /\ cs[m].shut = conns[m].shut
             /\ m # dialling[d].conn => cs[m] = conns[m]
    PROVE  PairingInv'
<1> DEFINE n == dialling[d].conn
<1>1. PairingTypes /\ DialInv(d)
  BY DEF PairingInv, DialsInv
<1>2. /\ conns' \in [DOMAIN conns' -> ConnStates]
      /\ DOMAIN conns' \subseteq DOMAIN conns /\ IsFiniteSet(DOMAIN conns')
      /\ \A m \in DOMAIN conns' :
           conns'[m] = IF m = n THEN [cs[m] EXCEPT !.held = FALSE, !.shut = TRUE] ELSE cs[m]
      /\ \A m \in DOMAIN conns : (m # n /\ cs[m].held) \/ cs[m].at # "gone" => m \in DOMAIN conns'
  BY <1>1, LetGoIs
<1>3. PairingTypes'
  BY <1>1, <1>2, ClientTypes DEF PairingTypes
<1>4. Quiet(conns')
  <2>1. \A r \in ConnStates : LET q == [r EXCEPT !.held = FALSE, !.shut = TRUE]
                              IN  q.at = r.at /\ q.pairing = r.pairing /\ q.device = r.device /\ q.shut
    BY DEF ConnStates
  <2>2. \A m \in DOMAIN conns' : cs[m] \in ConnStates
    BY <1>2
  <2>3. ASSUME NEW m \in DOMAIN conns'
        PROVE  /\ m \in DOMAIN conns /\ conns'[m].at = conns[m].at /\ conns'[m].pairing = conns[m].pairing
               /\ conns'[m].device = conns[m].device
               /\ conns[m].shut => conns'[m].shut
    <3>1. CASE m = n
      <4>1. m \in DOMAIN conns /\ conns'[m] = [cs[m] EXCEPT !.held = FALSE, !.shut = TRUE]
        BY <1>2, <3>1
      <4>2. cs[m] \in ConnStates
        BY <2>2
      <4> QED
        BY <2>1, <4>1, <4>2
    <3>2. CASE m # n
      BY <1>2, <3>2
    <3> QED
      BY <3>1, <3>2
  <2>4. \A m \in DOMAIN conns : conns[m].at # "gone" => m \in DOMAIN conns'
    BY <1>2
  <2> QED
    BY <2>3, <2>4 DEF Quiet
<1>5. StoreInv' /\ InvitesInv' /\ RevokedStaysOut'
  BY NumbersAre, <1>2, <1>4, CalmKeeps DEF ClientOnly
<1>6. dialling'[d] = a
  BY <1>1 DEF AttemptIs, PairingTypes
<1>7. DialInv(d)'
  BY <1>1, <1>6 DEF ClientOnly, DialInv, Undisturbed, Authorized, HasConn
<1>8. DialsInv'
  <2>1. \A m \in DOMAIN conns : m # n /\ conns[m].held => m \in DOMAIN conns' /\ conns'[m] = conns[m]
    BY <1>2
  <2> QED
    BY <1>7, <2>1, OthersDials DEF ClientOnly
<1> QED
  BY <1>3, <1>5, <1>8 DEF PairingInv

(* The connection is let go as it is.                                      *)
LEMMA DialFailsKeeps ==
    ASSUME PairingInv, NEW d \in Peers, NEW a \in DialingStates, AttemptIs(d, a), ClientOnly,
           a.conn = 0, a.phase \notin HasConn,
           a.calm => dialling[d].calm /\ a.phase \notin {"failed", "denied"},
           NEW what \in PairActs, SpendPair(what) \/ PairSpendsNothing,
           conns' = LetGo(conns, dialling[d].conn)
    PROVE  PairingInv'
BY SpendIs, LettingGoKeeps DEF PairingInv, PairingTypes

(* What an attempt becomes when it is over,                                *)
LEMMA AttemptsAre ==
    ASSUME PairingInv, NEW d \in Peers
    PROVE  /\ dialling[d] \in DialingStates /\ DialInv(d)
           /\ \A p \in Phases :
                /\ OverWith(d, p) \in DialingStates /\ OverWith(d, p).conn = 0
                /\ OverWith(d, p).phase = p /\ OverWith(d, p).calm = dialling[d].calm
BY DEF PairingInv, PairingTypes, OverWith, DialingStates, DialsInv

(* and after a refusal or an error.                                        *)
LEMMA AfterRefusalIs ==
    ASSUME PairingInv, NEW d \in Peers
    PROVE  /\ AfterRefusal(d) \in DialingStates /\ AfterRefusal(d).conn = 0
           /\ AfterRefusal(d).phase = IF Conn(d).way = "tcp" /\ Carried(d) # 0 THEN "dialing" ELSE "denied"
           /\ AfterRefusal(d).calm = dialling[d].calm
           /\ AfterError(d) \in DialingStates /\ AfterError(d).conn = 0
           /\ AfterError(d).phase \in {"denied", "failed"}
           /\ AfterError(d).calm = dialling[d].calm
<1>1. dialling[d] \in DialingStates
  BY DEF PairingInv, PairingTypes
<1>2. CASE Conn(d).way = "tcp" /\ Carried(d) # 0
  BY <1>2, <1>1, AttemptsAre DEF AfterRefusal, DialingStates, Phases, AfterError
<1>3. CASE ~(Conn(d).way = "tcp" /\ Carried(d) # 0)
  BY <1>3, AttemptsAre DEF AfterRefusal, AfterError, Phases
<1> QED
  BY <1>2, <1>3

(* Those that end an attempt: a calm one is not told that it has failed.    *)
LEMMA EndingDialKeeps ==
    ASSUME PairingInv, NEW d \in Peers,
           KeysDiffer(d) \/ ClosedEarly(d) \/ Lost(d) \/ HangUp(d)
             \/ (Welcome(d) /\ Conn(d).says # "welcome")
    PROVE  PairingInv'
<1>1. dialling[d] \in DialingStates /\ DialInv(d) /\ "dials" \in PairActs /\ "leaves" \in PairActs
  BY AttemptsAre DEF PairActs
<1>2. ASSUME dialling[d].phase \in {"greeting", "hailed"}, DialFails(d, AfterRefusal(d)),
             dialling[d].calm => Conn(d).way = "tcp" /\ Carried(d) # 0
      PROVE  PairingInv'
  BY <1>1, <1>2, AfterRefusalIs, DialFailsKeeps DEF DialFails, HasConn
<1>3. ASSUME DialFails(d, AfterError(d)), ~dialling[d].calm
      PROVE  PairingInv'
  BY <1>1, <1>3, AfterRefusalIs, DialFailsKeeps DEF DialFails, HasConn
<1>4. ASSUME dialling[d].calm, dialling[d].phase \in {"greeting", "hailed"} PROVE Smooth(d, Conn(d))
  BY <1>1, <1>4 DEF DialInv
<1>5. CASE KeysDiffer(d)
  BY <1>5, <1>4, <1>2 DEF KeysDiffer, Doing, PairingInv, PairingTypes, LogStates, PairSettings,
     Smooth
<1>6. CASE ClosedEarly(d)
  BY <1>6, <1>4, <1>2, <1>3 DEF ClosedEarly, Smooth
<1>7. CASE Welcome(d) /\ Conn(d).says # "welcome"
  BY <1>7, <1>4, <1>2, <1>3 DEF Welcome, Doing, Smooth
<1>8. CASE Lost(d) \/ HangUp(d)
  BY <1>8, <1>1, AttemptsAre, DialFailsKeeps DEF Lost, HangUp, HasConn, Phases
<1> QED
  BY <1>5, <1>6, <1>7, <1>8

(* A dial that is cancelled; its Hello may still be sent.                  *)
LEMMA CancelDialKeeps ==
    ASSUME PairingInv, NEW d \in Peers, CancelDial(d)
    PROVE  PairingInv'
<1> DEFINE n == dialling[d].conn
<1>1. /\ dialling[d].phase \in {"dialing", "greeting", "hailed"} /\ SpendPair("cancels")
      /\ AttemptIs(d, OverWith(d, "idle")) /\ ClientOnly
  BY DEF CancelDial
<1>2. PICK hello \in BOOLEAN :
        /\ conns' = LetGo(IF hello THEN [conns EXCEPT ![n].hello = TRUE] ELSE conns, n)
        /\ hello => n # 0
  BY DEF CancelDial
<1>3. /\ pairLeft' \in [PairActs -> Nat] /\ pairLeft'["invites"] <= pairLeft["invites"]
  BY <1>1, SpendIs DEF PairActs
<1>4. conns \in [DOMAIN conns -> ConnStates]
  BY DEF PairingInv, PairingTypes
<1>5. CASE ~hello
  BY <1>2, <1>5, <1>1, <1>3, <1>4, AttemptsAre, LettingGoKeeps DEF HasConn, Phases
<1>6. CASE hello
  <2>1. n \in DOMAIN conns /\ conns[n] \in ConnStates
    BY <1>2, <1>4, <1>6, AttemptsAre DEF DialInv
  <2>2. PICK r : r = [conns[n] EXCEPT !.hello = TRUE]
    OBVIOUS
  <2>3. /\ r \in ConnStates /\ r.at = conns[n].at /\ r.pairing = conns[n].pairing
        /\ r.device = conns[n].device /\ r.shut = conns[n].shut
    BY <2>1, <2>2 DEF ConnStates
  <2>4. PICK cs : cs = [conns EXCEPT ![n] = r]
    OBVIOUS
  <2>5. conns' = LetGo(cs, n)
    BY <1>4, <2>1, <2>2, <2>4, <1>2, <1>6
  <2>6. /\ cs \in [DOMAIN conns -> ConnStates]
        /\ \A m \in DOMAIN conns :
             /\ cs[m].at = conns[m].at /\ cs[m].pairing = conns[m].pairing
             /\ cs[m].device = conns[m].device /\ cs[m].shut = conns[m].shut
             /\ m # n => cs[m] = conns[m]
    BY <1>4, <2>1, <2>3, <2>4
  <2> QED
    BY <1>1, <1>3, <2>5, <2>6, AttemptsAre, LettingGoKeeps DEF HasConn, Phases
<1> QED
  BY <1>5, <1>6

(* A person connects.                                                      *)
LEMMA DialForKeeps ==
    ASSUME PairingInv, NEW d \in Peers, DialFor(d)
    PROVE  PairingInv'
<1>1. dialling[d] \in DialingStates /\ DialInv(d) /\ pairLog.given \subseteq Nat
      /\ conns \in [DOMAIN conns -> ConnStates]
  BY AttemptsAre DEF PairingInv, PairingTypes, LogStates
<1>2. PICK with \in {dialling[d].with} \cup pairLog.given :
        AttemptIs(d, [phase |-> "dialing", with |-> with, conn |-> 0, second |-> FALSE,
                      calm |-> Undisturbed(d)])
  BY DEF DialFor
<1>3. PICK b \in BOOLEAN : b <=> Undisturbed(d)
  OBVIOUS
<1>4. PICK a : a = [phase |-> "dialing", with |-> with, conn |-> 0, second |-> FALSE, calm |-> b]
  OBVIOUS
<1>5. a \in DialingStates /\ a.conn = 0 /\ a.phase = "dialing" /\ (a.calm <=> Undisturbed(d))
  BY <1>1, <1>3, <1>4 DEF DialingStates, Phases
<1>6. AttemptIs(d, a)
  BY <1>3, <1>2, <1>4 DEF Undisturbed, Authorized
<1>7. ClientOnly /\ conns' = conns
      /\ pairLeft' \in [PairActs -> Nat] /\ pairLeft'["invites"] <= pairLeft["invites"]
  BY SpendIs DEF DialFor, PairActs
<1>8. PairingTypes'
  BY <1>1, <1>5, <1>6, <1>7, ClientTypes DEF PairingInv, PairingTypes
<1>9. StoreInv' /\ InvitesInv' /\ RevokedStaysOut'
  BY <1>7, NumbersAre, CalmKeeps DEF Quiet, ClientOnly
<1>10. dialling'[d] = a
  BY <1>6 DEF AttemptIs, PairingInv, PairingTypes
<1>11. DialInv(d)'
  BY <1>7, <1>5, <1>10 DEF ClientOnly, Undisturbed, Authorized, DialInv, HasConn
<1>12. DialsInv'
  BY <1>5, <1>6, <1>7, <1>11, OthersDials DEF ClientOnly
<1> QED
  BY <1>8, <1>9, <1>12 DEF PairingInv

(* The connection is made.                                                 *)
LEMMA DialKeeps ==
    ASSUME PairingInv, NEW d \in Peers, Dial(d)
    PROVE  PairingInv'
<1>1. dialling[d] \in DialingStates /\ DialInv(d) /\ dialling[d].phase = "dialing" /\ PairingTypes
      /\ dialling[d].conn = 0 /\ ClientOnly /\ PairSpendsNothing
  BY AttemptsAre DEF Dial, Doing, PairingInv, DialInv, HasConn
<1>2. CASE ~running
  <2>1. AttemptIs(d, OverWith(d, "failed")) /\ conns' = conns
    BY <1>2 DEF Dial
  <2>2. conns' = LetGo(conns, dialling[d].conn)
    BY <1>1, <2>1 DEF LetGo, PairingTypes
  <2>3. ~dialling[d].calm
    BY <1>1, <1>2 DEF DialInv, Undisturbed
  <2>4. "dials" \in PairActs
    BY DEF PairActs
  <2> QED
    BY <1>1, <2>1, <2>2, <2>3, <2>4, AttemptsAre, DialFailsKeeps DEF HasConn, Phases
<1>3. CASE running
  <2>1. PICK n : n = Free
    OBVIOUS
  <2>2. n \in Nat \ {0} /\ n \notin DOMAIN conns
    BY <1>1, <2>1, FreeIsFree
  <2>3. PICK c : c = NewConn(d, pairLog.setting.ways[d], Carried(d))
    OBVIOUS
  <2>4. PICK a : a = [dialling[d] EXCEPT !.phase = "greeting", !.conn = n]
    OBVIOUS
  <2>5. conns' = Overlay(conns, [m \in {n} |-> c]) /\ AttemptIs(d, a)
    BY <1>3, <2>1, <2>3, <2>4 DEF Dial
  <2>6. /\ c \in ConnStates /\ c.device = d /\ c.held /\ c.at = "opening" /\ c.pairing = 0 /\ ~c.shut
        /\ c.psk = Unread /\ ~c.hello /\ c.says = "nothing" /\ c.way = pairLog.setting.ways[d]
        /\ c.with = Carried(d)
    BY <1>1, <2>3 DEF PairingTypes, LogStates, PairSettings, Carried, DialingStates, NewConn,
       ConnStates, ThreadPcs, HostAnswers, Unread
  <2>7. /\ a \in DialingStates /\ a.phase = "greeting" /\ a.conn = n /\ a.calm = dialling[d].calm
        /\ a.second = dialling[d].second /\ a.with = dialling[d].with
    BY <1>1, <2>2, <2>4 DEF DialingStates, Phases
  <2>8. /\ DOMAIN conns' = DOMAIN conns \cup {n}
        /\ \A m \in DOMAIN conns' : conns'[m] = IF m = n THEN c ELSE conns[m]
        /\ conns' \in [DOMAIN conns' -> ConnStates]
    BY <2>5, <1>1, <2>2, <2>6 DEF Overlay, PairingTypes
  <2>9. IsFiniteSet(DOMAIN conns')
    BY <1>1, <2>8, FS_AddElement DEF PairingTypes
  <2>10. pairLeft' \in [PairActs -> Nat] /\ pairLeft'["invites"] <= pairLeft["invites"]
    BY <1>1, SpendIs DEF PairActs
  <2>11. PairingTypes'
    BY <1>1, <2>2, <2>5, <2>7, <2>8, <2>9, <2>10, ClientTypes DEF PairingTypes
  <2>12. StoreInv' /\ InvitesInv' /\ RevokedStaysOut'
    BY <2>2, <2>6, <2>8, NumbersAre, <1>1, <2>10, CalmKeeps DEF Quiet, ClientOnly
  <2>13. dialling'[d] = a
    BY <1>1, <2>5 DEF AttemptIs, PairingTypes
  <2>14. DialInv(d)'
    BY <2>2, <2>7, <2>8, <2>13, <1>1, <2>6 DEF Conn, Carried, ClientOnly, DialInv, Undisturbed,
       Authorized, Smooth, HasConn
  <2>15. DialsInv'
    BY <2>2, <2>8, <1>1, <2>5, <2>7, <2>14, OthersDials DEF ClientOnly
  <2> QED
    BY <2>11, <2>12, <2>15 DEF PairingInv
<1> QED
  BY <1>2, <1>3

(* The handshake is through.                                               *)
LEMMA HelloKeeps ==
    ASSUME PairingInv, NEW d \in Peers, Hello(d)
    PROVE  PairingInv'
<1>0. PICK n : n = dialling[d].conn
  OBVIOUS
<1>1. dialling[d] \in DialingStates /\ DialInv(d) /\ dialling[d].phase = "greeting" /\ PairingTypes
      /\ ClientOnly /\ PairSpendsNothing
  BY AttemptsAre DEF Hello, Doing, PairingInv
<1>2. n # 0 /\ n \in DOMAIN conns /\ conns[n] \in ConnStates /\ conns[n].device = d /\ conns[n].held
  BY <1>0, <1>1 DEF DialInv, HasConn, Conn, PairingTypes
<1>3. conns' = [conns EXCEPT ![n].hello = TRUE]
  BY <1>0 DEF Hello
<1>4. PICK c : c = [conns[n] EXCEPT !.hello = TRUE]
  OBVIOUS
<1>5. /\ c \in ConnStates /\ c.at = conns[n].at /\ c.pairing = conns[n].pairing /\ c.hello
      /\ c.device = conns[n].device /\ c.shut = conns[n].shut /\ c.held = conns[n].held
      /\ c.way = conns[n].way /\ c.with = conns[n].with /\ c.psk = conns[n].psk
      /\ c.says = conns[n].says
  BY <1>2, <1>4 DEF ConnStates
<1>6. /\ DOMAIN conns' = DOMAIN conns /\ conns' \in [DOMAIN conns -> ConnStates]
      /\ \A m \in DOMAIN conns : conns'[m] = IF m = n THEN c ELSE conns[m]
  BY <1>1, <1>2, <1>3, <1>4, <1>5 DEF PairingTypes
<1>7. PICK a : a = [dialling[d] EXCEPT !.phase = "hailed"]
  OBVIOUS
<1>8. /\ a \in DialingStates /\ a.phase = "hailed" /\ a.conn = n /\ a.calm = dialling[d].calm
      /\ a.second = dialling[d].second /\ a.with = dialling[d].with
  BY <1>0, <1>1, <1>7 DEF DialingStates, Phases
<1>9. AttemptIs(d, a)
  BY <1>7 DEF Hello
<1>10. dialling'[d] = a
  BY <1>1, <1>9 DEF AttemptIs, PairingTypes
<1>11. pairLeft' \in [PairActs -> Nat] /\ pairLeft'["invites"] <= pairLeft["invites"]
  BY <1>1, SpendIs DEF PairActs
<1>12. PairingTypes'
  BY <1>1, <1>6, <1>8, <1>9, <1>11, ClientTypes DEF PairingTypes
<1>13. StoreInv' /\ InvitesInv' /\ RevokedStaysOut'
  BY <1>5, <1>6, NumbersAre, <1>1, <1>11, CalmKeeps DEF Quiet, ClientOnly
<1>14. DialInv(d)'
  <2>1. n \in DOMAIN conns' /\ conns'[n] = c /\ Conn(d)' = c
    BY <1>2, <1>6, <1>8, <1>10 DEF Conn
  <2>2. Carried(d)' = Carried(d)
    BY <1>8, <1>10 DEF Carried
  <2>3. a.calm => Undisturbed(d)' /\ pairLog'.setting = pairLog.setting
    BY <1>1, <1>8 DEF ClientOnly, DialInv, Undisturbed, Authorized
  <2>4. a.calm => Smooth(d, conns[n])
    BY <1>0, <1>1, <1>8 DEF DialInv, Conn
  <2>5. a.calm => Smooth(d, c)'
    BY <1>1, <1>5, <1>8, <1>10, <2>2, <2>3, <2>4 DEF Smooth
  <2>6. a.calm => Smooth(d, Conn(d))'
    BY <2>1, <2>5 DEF Smooth
  <2> QED
    BY <1>2, <1>5, <1>8, <1>10, <2>1, <2>3, <2>6 DEF DialInv, HasConn
<1>15. DialsInv'
  BY <1>6, <1>0, <1>1, <1>8, <1>9, <1>14, OthersDials DEF ClientOnly
<1> QED
  BY <1>12, <1>13, <1>15 DEF PairingInv

(* The Welcome is read.                                                    *)
LEMMA WelcomeKeeps ==
    ASSUME PairingInv, NEW d \in Peers, Welcome(d)
    PROVE  PairingInv'
<1>1. CASE Conn(d).says # "welcome"
  BY <1>1, EndingDialKeeps
<1>2. CASE Conn(d).says = "welcome"
  <2>1. dialling[d] \in DialingStates /\ DialInv(d) /\ PairingTypes
    BY AttemptsAre DEF PairingInv
  <2>2. PICK a : a = [dialling[d] EXCEPT !.phase = "connected", !.with = 0]
    OBVIOUS
  <2>3. /\ dialling[d].phase \in {"greeting", "hailed"} /\ AttemptIs(d, a)
        /\ conns' = conns /\ ClientOnly /\ PairSpendsNothing
    BY <1>2, <2>2 DEF Welcome, Doing
  <2>4. a \in DialingStates /\ a.phase = "connected" /\ a.conn = dialling[d].conn
        /\ a.calm = dialling[d].calm
    BY <2>1, <2>2 DEF DialingStates, Phases
  <2>5. pairLeft' \in [PairActs -> Nat] /\ pairLeft'["invites"] <= pairLeft["invites"]
    BY <2>3, SpendIs DEF PairActs
  <2>6. PairingTypes'
    BY <2>1, <2>3, <2>4, <2>5, ClientTypes DEF PairingTypes
  <2>7. StoreInv' /\ InvitesInv' /\ RevokedStaysOut'
    BY <2>3, <2>5, NumbersAre, CalmKeeps DEF Quiet, ClientOnly
  <2>8. dialling'[d] = a
    BY <2>1, <2>3 DEF AttemptIs, PairingTypes
  <2>9. DialInv(d)'
    BY <2>1, <2>3, <2>4, <2>8 DEF ClientOnly, DialInv, Undisturbed, Authorized, HasConn, Conn
  <2>10. DialsInv'
    BY <2>3, <2>4, <2>9, OthersDials DEF ClientOnly
  <2> QED
    BY <2>6, <2>7, <2>10 DEF PairingInv
<1> QED
  BY <1>1, <1>2

-----------------------------------------------------------------------------
(* The host, the Server's end and the network.                             *)

(* What touches neither a dial nor what it counts on.                      *)
LEMMA DialsStay ==
    ASSUME PairingInv, UNCHANGED <<conns, dialling>>, running => running',
           pairLog'.setting = pairLog.setting, store'.listed = store.listed
    PROVE  DialsInv'
BY DEF DialsInv, PairingInv, Undisturbed, Authorized, Conn, Smooth, Carried, DialInv

(* What comes between a dial and its end: the dial is not calm any more.   *)
LEMMA DisturbedDials ==
    ASSUME PairingInv, NEW ds, dialling' = Disturbed(dialling, ds),
           pairLog'.setting = pairLog.setting,
           \A d \in Peers : d \notin ds /\ Undisturbed(d) => Undisturbed(d)',
           \A m \in DOMAIN conns :
             conns[m].held => /\ m \in DOMAIN conns' /\ conns'[m].device = conns[m].device
                              /\ conns'[m].held
                              /\ conns[m].device \in Peers \ ds => conns'[m] = conns[m]
    PROVE  DialsInv' /\ dialling' \in [Peers -> DialingStates]
<1>1. \A d \in Peers :
        /\ dialling[d] \in DialingStates /\ dialling'[d] \in DialingStates
        /\ dialling'[d].phase = dialling[d].phase /\ dialling'[d].conn = dialling[d].conn
        /\ dialling'[d].with = dialling[d].with /\ dialling'[d].second = dialling[d].second
        /\ d \in ds => ~dialling'[d].calm
        /\ d \notin ds => dialling'[d] = dialling[d]
  BY DEF PairingInv, PairingTypes, DialingStates, Disturbed
<1>2. dialling' \in [Peers -> DialingStates]
  BY <1>1 DEF Disturbed
<1>3. ASSUME NEW d \in Peers PROVE DialInv(d)'
  BY <1>1 DEF PairingInv, DialsInv, DialInv, Conn, HasConn, Carried, Smooth
<1> QED
  BY <1>2, <1>3 DEF DialsInv

(* Nobody but the host has the lock, or nobody has: no thread is completing *)
(* a pairing.                                                              *)
LEMMA NoThreadHolds ==
    ASSUME PairingInv, store.lock \in {Nobody, TheHost}
    PROVE  \A m \in DOMAIN conns : conns[m].at \notin Holding
BY NumbersAre, PairingAssumption DEF PairingInv, StoreInv

(* The invite of the host, and what is known of the invites that were made. *)
LEMMA InvitesMove ==
    ASSUME PairingInv, UNCHANGED conns, store.lock \in {Nobody, TheHost},
           Numbered' <= Numbered, Numbered' \in Int,
           pairLog'.redeemed = pairLog.redeemed, pairLog'.interrupted = pairLog.interrupted,
           pairLog'.made \in Nat, pairLog.made <= pairLog'.made,
           pairLog.replaced \subseteq pairLog'.replaced,
           store'.invite \in -1 .. pairLog'.made,
           store'.invite = store.invite \/ store'.invite \in {0, Unread}
             \/ store'.invite > pairLog.made,
           \A i \in DOMAIN pairLog.redeemed :
             i <= pairLog'.made /\ store'.invite # i =>
               i <= pairLog.made /\ (store.invite # i \/ i \in pairLog'.replaced)
    PROVE  InvitesInv'
BY NoThreadHolds, NumbersAre DEF PairingInv, Numbered, InvitesInv, PairingTypes, ConnStates,
   PairingThread, Removes, Holding, Unread, Redeemable, GoneForAReason

(* create_invite: the old invite goes,                                     *)
LEMMA CreateInviteKeeps ==
    ASSUME PairingInv, CreateInvite
    PROVE  PairingInv'
<1>1. /\ PairingTypes /\ StoreInv /\ RevokedStaysOut /\ store \in StoreStates
      /\ pairLog \in LogStates /\ pairLeft \in [PairActs -> Nat]
  BY DEF PairingInv, PairingTypes
<1>2. /\ host.op = "idle" /\ store.lock = Nobody /\ HostOnly
      /\ host' = [op |-> "removed", device |-> Nobody]
  BY DEF CreateInvite, HostIs
<1>3. /\ store' \in StoreStates /\ store'.invite = 0 /\ store'.lock = TheHost
      /\ store'.listed = store.listed /\ store'.pushes = store.pushes
  <2>1. store' = [listed |-> store.listed, pushes |-> store.pushes, invite |-> 0, aged |-> FALSE,
                  lock |-> TheHost]
    BY <1>1 DEF CreateInvite, StoreStates
  <2> QED
    BY <1>1, <2>1 DEF StoreStates
<1>4. PICK x : x = pairLog.replaced \cup {store.invite} \cup pairLog.given
  OBVIOUS
<1>5. /\ pairLog' = [pairLog EXCEPT !.replaced = x] /\ x \in SUBSET Int
      /\ pairLog.replaced \subseteq x /\ store.invite \in x
  BY <1>1, <1>4 DEF CreateInvite, LogStates, StoreStates
<1>6. /\ pairLog' \in LogStates /\ pairLog'.setting = pairLog.setting /\ pairLog'.made = pairLog.made
      /\ pairLog'.redeemed = pairLog.redeemed /\ pairLog'.replaced = x
      /\ pairLog'.entitled = pairLog.entitled /\ pairLog'.unfinished = pairLog.unfinished
      /\ pairLog'.interrupted = pairLog.interrupted
  BY <1>1, <1>5 DEF LogStates
<1>7. /\ pairLeft' \in [PairActs -> Nat] /\ pairLeft["invites"] > 0
      /\ pairLeft'["invites"] = pairLeft["invites"] - 1
  BY <1>1 DEF CreateInvite, SpendPair, PairActs
<1>8. PairingTypes'
  BY <1>1, <1>2, <1>3, <1>6, <1>7 DEF PairingTypes, HostOnly, HostStates
<1>9. StoreInv'
  BY <1>2, NoThreadHolds, NumbersAre, PairingAssumption, <1>1, <1>3 DEF StoreInv, HostOnly, Making
<1>10. InvitesInv'
  BY <1>2, <1>6, <1>7, NumbersAre, <1>3, <1>5, InvitesMove DEF Numbered, Making, HostOnly, Unread
<1>11. RevokedStaysOut'
  BY <1>1, <1>2, <1>3, <1>6 DEF RevokedStaysOut, HostOnly, Authorized
<1>12. DialsInv'
  BY <1>2, <1>3, <1>6, DialsStay DEF HostOnly
<1> QED
  BY <1>8, <1>9, <1>10, <1>11, <1>12 DEF PairingInv

(* the new file is there, and empty,                                       *)
LEMMA CreateInviteFileKeeps ==
    ASSUME PairingInv, CreateInviteFile
    PROVE  PairingInv'
<1>1. /\ PairingTypes /\ StoreInv /\ RevokedStaysOut /\ store \in StoreStates
      /\ pairLog \in LogStates /\ pairLeft \in [PairActs -> Nat]
  BY DEF PairingInv, PairingTypes
<1>2. /\ host.op = "removed" /\ HostOnly /\ UNCHANGED <<pairLog, pairLeft>>
      /\ host' = [op |-> "created", device |-> Nobody]
  BY DEF CreateInviteFile, HostIs, PairSpendsNothing
<1>3. store.lock = TheHost /\ store.invite = 0
  BY <1>1, <1>2 DEF StoreInv, Making
<1>4. /\ store' \in StoreStates /\ store'.invite = Unread /\ store'.lock = TheHost
      /\ store'.listed = store.listed /\ store'.pushes = store.pushes
  BY <1>1, <1>3 DEF CreateInviteFile, StoreStates, Unread
<1>5. PairingTypes'
  BY <1>1, <1>2, <1>4 DEF PairingTypes, HostOnly, HostStates
<1>6. StoreInv'
  BY <1>3, NoThreadHolds, NumbersAre, PairingAssumption, <1>1, <1>2, <1>4 DEF StoreInv, HostOnly,
     Making
<1>7. InvitesInv'
  BY <1>2, NumbersAre, <1>3, <1>4, InvitesMove DEF Numbered, Making, HostOnly, Unread
<1>8. RevokedStaysOut'
  BY <1>1, <1>2, <1>4 DEF RevokedStaysOut, HostOnly, Authorized
<1>9. DialsInv'
  BY <1>2, <1>4, DialsStay DEF HostOnly
<1> QED
  BY <1>5, <1>6, <1>7, <1>8, <1>9 DEF PairingInv

(* and is written.                                                         *)
LEMMA WriteInviteKeeps ==
    ASSUME PairingInv, WriteInvite
    PROVE  PairingInv'
<1>1. /\ PairingTypes /\ StoreInv /\ RevokedStaysOut /\ store \in StoreStates
      /\ pairLog \in LogStates /\ pairLeft \in [PairActs -> Nat] /\ pairLog.made \in Nat
  BY NumbersAre DEF PairingInv, PairingTypes
<1>2. PICK n : n = pairLog.made + 1
  OBVIOUS
<1>3. /\ host.op = "created" /\ HostOnly /\ UNCHANGED pairLeft
      /\ host' = [op |-> "idle", device |-> Nobody]
      /\ store' = [store EXCEPT !.invite = n, !.lock = Nobody]
      /\ pairLog' = [pairLog EXCEPT !.made = n, !.given = {n}]
  BY <1>2 DEF WriteInvite, HostIs, PairSpendsNothing
<1>4. store.lock = TheHost /\ store.invite = Unread /\ n \in Nat
  BY <1>1, <1>2, <1>3 DEF StoreInv, Making
<1>5. /\ store' \in StoreStates /\ store'.invite = n /\ store'.lock = Nobody
      /\ store'.listed = store.listed /\ store'.pushes = store.pushes
  <2>1. store' = [listed |-> store.listed, pushes |-> store.pushes, invite |-> n,
                  aged |-> store.aged, lock |-> Nobody]
    BY <1>1, <1>3 DEF StoreStates
  <2> QED
    BY <1>1, <1>4, <2>1 DEF StoreStates
<1>6. /\ pairLog' \in LogStates /\ pairLog'.setting = pairLog.setting /\ pairLog'.made = n
      /\ pairLog'.redeemed = pairLog.redeemed /\ pairLog'.replaced = pairLog.replaced
      /\ pairLog'.entitled = pairLog.entitled /\ pairLog'.unfinished = pairLog.unfinished
      /\ pairLog'.interrupted = pairLog.interrupted
  BY <1>1, <1>3, <1>4 DEF LogStates
<1>7. PairingTypes'
  BY <1>1, <1>3, <1>5, <1>6 DEF PairingTypes, HostOnly, HostStates
<1>8. StoreInv'
  BY <1>4, NoThreadHolds, NumbersAre, PairingAssumption, <1>1, <1>3, <1>5 DEF StoreInv, HostOnly,
     Making
<1>9. InvitesInv'
  BY <1>1, <1>2, <1>3, <1>6, NumbersAre, <1>4, <1>5, InvitesMove DEF Numbered, Making, HostOnly,
     Unread
<1>10. RevokedStaysOut'
  BY <1>1, <1>3, <1>5, <1>6 DEF RevokedStaysOut, HostOnly, Authorized
<1>11. DialsInv'
  BY <1>3, <1>5, <1>6, DialsStay DEF HostOnly
<1> QED
  BY <1>7, <1>8, <1>9, <1>10, <1>11 DEF PairingInv

(* An invite expires.                                                      *)
LEMMA InviteAgesKeeps ==
    ASSUME PairingInv, InviteAges
    PROVE  PairingInv'
<1>1. /\ PairingTypes /\ StoreInv /\ RevokedStaysOut /\ store \in StoreStates
  BY DEF PairingInv, PairingTypes
<1>2. UNCHANGED <<conns, dialling, host, running, pairLog>>
  BY DEF InviteAges
<1>3. /\ store' \in StoreStates /\ store'.invite = store.invite /\ store'.lock = store.lock
      /\ store'.listed = store.listed /\ store'.pushes = store.pushes
  BY <1>1 DEF InviteAges, StoreStates
<1>4. pairLeft' \in [PairActs -> Nat] /\ pairLeft'["invites"] = pairLeft["invites"]
  BY <1>1 DEF InviteAges, SpendPair, PairActs, PairingTypes
<1>5. PairingTypes'
  BY <1>1, <1>2, <1>3, <1>4 DEF PairingTypes
<1>6. StoreInv' /\ RevokedStaysOut'
  BY <1>1, <1>2, <1>3 DEF StoreInv, RevokedStaysOut, Authorized
<1>7. InvitesInv'
  BY <1>2, <1>4, <1>3 DEF Numbered, PairingThread, Redeemable, GoneForAReason, Removes,
     InvitesInv, PairingInv
<1>8. DialsInv'
  BY <1>2, <1>3, DialsStay
<1> QED
  BY <1>5, <1>6, <1>7, <1>8 DEF PairingInv

(* A Device is taken off the list.                                         *)
LEMMA RevokeKeeps ==
    ASSUME PairingInv, NEW d \in Peers, Revoke(d)
    PROVE  PairingInv'
<1>1. /\ PairingTypes /\ StoreInv /\ RevokedStaysOut /\ store \in StoreStates
      /\ pairLog \in LogStates /\ pairLeft \in [PairActs -> Nat]
  BY DEF PairingInv, PairingTypes
<1>2. /\ host.op = "idle" /\ store.lock = Nobody /\ UNCHANGED <<conns, running>>
      /\ host' = [op |-> "revoked", device |-> d] /\ dialling' = Disturbed(dialling, {d})
  BY DEF Revoke, HostIs
<1>3. /\ store' \in StoreStates /\ store'.invite = store.invite /\ store'.lock = store.lock
      /\ store'.listed = store.listed \ {d} /\ store'.pushes = store.pushes \ {d}
  BY <1>1 DEF Revoke, Unlisted, StoreStates
<1>4. PICK x : x = pairLog.entitled \ {d}
  OBVIOUS
<1>5. pairLog' = [pairLog EXCEPT !.entitled = x] /\ x \in SUBSET Peers
  BY <1>1, <1>4 DEF Revoke, LogStates
<1>6. /\ pairLog' \in LogStates /\ pairLog'.setting = pairLog.setting /\ pairLog'.made = pairLog.made
      /\ pairLog'.redeemed = pairLog.redeemed /\ pairLog'.replaced = pairLog.replaced
      /\ pairLog'.entitled = x /\ pairLog'.unfinished = pairLog.unfinished
      /\ pairLog'.interrupted = pairLog.interrupted
  BY <1>1, <1>5 DEF LogStates
<1>7. pairLeft' \in [PairActs -> Nat] /\ pairLeft'["invites"] = pairLeft["invites"]
  BY <1>1 DEF Revoke, SpendPair, PairActs
<1>8. DialsInv' /\ dialling' \in [Peers -> DialingStates]
  BY <1>2, <1>3, <1>6, DisturbedDials DEF Undisturbed, Authorized
<1>9. PairingTypes'
  BY <1>1, <1>2, <1>3, <1>6, <1>7, <1>8 DEF PairingTypes, HostStates
<1>10. StoreInv'
  BY <1>1, <1>2, <1>3 DEF StoreInv, Making
<1>11. InvitesInv'
  BY <1>2, <1>6, <1>7, <1>3 DEF Numbered, Making, PairingThread, Redeemable, GoneForAReason,
     Removes, InvitesInv, PairingInv
<1>12. RevokedStaysOut'
  BY <1>1, <1>2, <1>3, <1>4, <1>6 DEF RevokedStaysOut, Authorized
<1> QED
  BY <1>8, <1>9, <1>10, <1>11, <1>12 DEF PairingInv

(* The connections that the revoked Device has are shut.                   *)
LEMMA RevokeDeviceKeeps ==
    ASSUME PairingInv, RevokeDevice
    PROVE  PairingInv'
<1>1. PairingTypes /\ StoreInv /\ RevokedStaysOut /\ \A m \in DOMAIN conns : conns[m] \in ConnStates
  BY DEF PairingInv, PairingTypes
<1>2. /\ host.op = "revoked" /\ host' = [op |-> "idle", device |-> Nobody]
      /\ dialling' = Disturbed(dialling, {host.device})
      /\ UNCHANGED <<store, running, pairLog, pairLeft>>
  BY DEF RevokeDevice, HostIs, PairSpendsNothing
<1>3. \A c \in ConnStates : LET r == [c EXCEPT !.shut = TRUE]
                            IN  /\ r \in ConnStates /\ r.at = c.at /\ r.pairing = c.pairing
                                /\ r.device = c.device /\ r.held = c.held /\ r.shut
  BY DEF ConnStates
<1>4. /\ DOMAIN conns' = DOMAIN conns /\ conns' \in [DOMAIN conns -> ConnStates]
      /\ \A m \in DOMAIN conns :
           /\ conns'[m].at = conns[m].at /\ conns'[m].pairing = conns[m].pairing
           /\ conns'[m].device = conns[m].device /\ conns'[m].held = conns[m].held
           /\ conns[m].shut => conns'[m].shut
           /\ conns[m].device # host.device => conns'[m] = conns[m]
           /\ conns[m].device = host.device /\ conns[m].at \in Registered => conns'[m].shut
  BY <1>1, <1>3 DEF RevokeDevice
<1>5. DialsInv' /\ dialling' \in [Peers -> DialingStates]
  <2>1. \A e \in Peers : e \notin {host.device} /\ Undisturbed(e) => Undisturbed(e)'
    BY <1>2 DEF Undisturbed, Authorized
  <2>2. \A m \in DOMAIN conns :
          conns[m].held => /\ m \in DOMAIN conns' /\ conns'[m].device = conns[m].device
                           /\ conns'[m].held
                           /\ conns[m].device \in Peers \ {host.device} => conns'[m] = conns[m]
    BY <1>4
  <2>3. pairLog'.setting = pairLog.setting
    BY <1>2
  <2>4. PICK ds : ds = {host.device}
    OBVIOUS
  <2> QED
    BY <1>2, <2>1, <2>2, <2>3, <2>4, DisturbedDials
<1>6. PairingTypes'
  BY <1>1, <1>2, <1>4, <1>5 DEF PairingTypes, HostStates
<1>7. StoreInv' /\ InvitesInv'
  BY <1>4, <1>2, SpendIs, NumbersAre, QuietStores DEF Quiet, PairSpendsNothing, PairActs, Making
<1>8. RevokedStaysOut'
  BY <1>1, <1>2, <1>4 DEF RevokedStaysOut, Authorized
<1> QED
  BY <1>5, <1>6, <1>7, <1>8 DEF PairingInv

(* The command is killed, and its lock is let go.                          *)
LEMMA KillHostKeeps ==
    ASSUME PairingInv, KillHost
    PROVE  PairingInv'
<1>1. /\ PairingTypes /\ StoreInv /\ InvitesInv /\ RevokedStaysOut /\ store \in StoreStates
      /\ pairLog \in LogStates /\ pairLeft \in [PairActs -> Nat] /\ host \in HostStates
  BY DEF PairingInv, PairingTypes
<1>2. HostOnly /\ host' = [op |-> "idle", device |-> Nobody]
  BY DEF KillHost, HostIs
<1>3. /\ store' \in StoreStates /\ store'.invite = store.invite
      /\ store'.lock = IF store.lock = TheHost THEN Nobody ELSE store.lock
      /\ store'.listed = store.listed /\ store'.pushes = store.pushes
  BY <1>1 DEF KillHost, StoreStates
<1>4. PICK x : x = IF host.op = "revoked" THEN pairLog.unfinished \cup {host.device}
                   ELSE pairLog.unfinished
  OBVIOUS
<1>5. /\ pairLog' = [pairLog EXCEPT !.unfinished = x] /\ x \in SUBSET (Peers \cup {Nobody})
      /\ pairLog.unfinished \subseteq x
      /\ host.op = "revoked" => host.device \in x
  BY <1>4, <1>1 DEF KillHost, LogStates, HostStates
<1>6. /\ pairLog' \in LogStates /\ pairLog'.setting = pairLog.setting /\ pairLog'.made = pairLog.made
      /\ pairLog'.redeemed = pairLog.redeemed /\ pairLog'.replaced = pairLog.replaced
      /\ pairLog'.entitled = pairLog.entitled /\ pairLog'.unfinished = x
      /\ pairLog'.interrupted = pairLog.interrupted
  BY <1>1, <1>5 DEF LogStates
<1>7. pairLeft' \in [PairActs -> Nat] /\ pairLeft'["invites"] = pairLeft["invites"]
  BY <1>1 DEF KillHost, SpendPair, PairActs
<1>8. PairingTypes'
  BY <1>1, <1>2, <1>3, <1>6, <1>7 DEF PairingTypes, HostOnly, HostStates
<1>9. StoreInv'
  BY NumbersAre, PairingAssumption, <1>1, <1>2, <1>3 DEF StoreInv, HostOnly, Making
<1>10. InvitesInv'
  BY <1>2, <1>6, <1>7, NumbersAre, <1>1, <1>3 DEF Numbered, Making, InvitesInv, PairingThread,
     HostOnly, Redeemable, GoneForAReason, Removes
<1>11. RevokedStaysOut'
  BY <1>1, <1>5, <1>3, <1>6, <1>2 DEF RevokedStaysOut, Authorized, HostOnly
<1>12. DialsInv'
  BY <1>2, <1>3, <1>6, DialsStay DEF HostOnly
<1> QED
  BY <1>8, <1>9, <1>10, <1>11, <1>12 DEF PairingInv

(* Every thread of the Server is gone, and the lock with it.               *)
LEMMA ServerCrashKeeps ==
    ASSUME PairingInv, ServerCrash
    PROVE  PairingInv'
<1>1. /\ PairingTypes /\ StoreInv /\ InvitesInv /\ RevokedStaysOut /\ store \in StoreStates
      /\ pairLog \in LogStates /\ pairLeft \in [PairActs -> Nat]
      /\ \A m \in DOMAIN conns : conns[m] \in ConnStates
  BY DEF PairingInv, PairingTypes
<1>2. /\ running' = FALSE /\ dialling' = Disturbed(dialling, Peers) /\ UNCHANGED host
      /\ store' = LockReleased
  BY DEF ServerCrash
<1>3. /\ DOMAIN conns' \subseteq DOMAIN conns /\ IsFiniteSet(DOMAIN conns')
      /\ conns' \in [DOMAIN conns' -> ConnStates]
      /\ \A m \in DOMAIN conns' :
           /\ conns'[m].at = "gone" /\ conns'[m].pairing = conns[m].pairing
           /\ conns'[m].device = conns[m].device /\ conns'[m].held = conns[m].held
      /\ \A m \in DOMAIN conns : conns[m].held => m \in DOMAIN conns'
  <2>1. PICK f : f = [n \in DOMAIN conns |-> [conns[n] EXCEPT !.at = "gone", !.shut = TRUE]]
    OBVIOUS
  <2>2. ASSUME NEW c \in ConnStates, NEW r, r = [c EXCEPT !.at = "gone", !.shut = TRUE]
        PROVE  /\ r \in ConnStates /\ r.at = "gone" /\ r.pairing = c.pairing
               /\ r.device = c.device /\ r.held = c.held
    BY <2>2 DEF ConnStates, ThreadPcs
  <2>3. \A m \in DOMAIN conns : f[m] = [conns[m] EXCEPT !.at = "gone", !.shut = TRUE]
    BY <2>1
  <2>4. DOMAIN f = DOMAIN conns
    BY <2>1
  <2>5. \A m \in DOMAIN conns :
          /\ f[m] \in ConnStates /\ f[m].at = "gone" /\ f[m].pairing = conns[m].pairing
          /\ f[m].device = conns[m].device /\ f[m].held = conns[m].held
    BY <1>1, <2>3, <2>2
  <2>6. conns' = [m \in StillThere(f) |-> f[m]]
    <3>1. conns' = Swept(f)
      BY <2>1 DEF ServerCrash
    <3> QED
      BY <3>1 DEF Swept
  <2>7. StillThere(f) = {m \in DOMAIN conns : f[m].held}
    BY <2>4, <2>5 DEF StillThere
  <2>8. DOMAIN conns' = StillThere(f) /\ StillThere(f) \subseteq DOMAIN conns
    BY <2>6, <2>7
  <2>9. IsFiniteSet(DOMAIN conns')
    BY <1>1, <2>8, FS_Subset DEF PairingTypes
  <2> QED
    BY <2>5, <2>6, <2>7, <2>8, <2>9
<1>4. /\ store' \in StoreStates /\ store'.invite = store.invite
      /\ store'.lock = IF store.lock = TheHost THEN TheHost ELSE Nobody
      /\ store'.listed = store.listed /\ store'.pushes = store.pushes
  BY <1>1, <1>2 DEF LockReleased, StoreStates
<1>5. PICK x : x = pairLog.interrupted \cup {conns[n].pairing : n \in Between}
  OBVIOUS
<1>6. /\ pairLog' = [pairLog EXCEPT !.interrupted = x, !.unfinished = {}] /\ x \in SUBSET Int
      /\ pairLog.interrupted \subseteq x
      /\ \A n \in DOMAIN conns : \A i : Removes(n, i) => i \in x
  <2>1. pairLog' = [pairLog EXCEPT !.interrupted = x, !.unfinished = {}]
    BY <1>5 DEF ServerCrash
  <2>2. \A n \in Between : n \in DOMAIN conns /\ conns[n].pairing \in Int
    BY <1>1 DEF Between, ConnStates
  <2>3. x \in SUBSET Int
    BY <1>1, <1>5, <2>2 DEF LogStates
  <2>4. \A n \in DOMAIN conns : \A i : Removes(n, i) => i \in x
    BY <1>5 DEF Removes, Between
  <2> QED
    BY <1>5, <2>1, <2>3, <2>4
<1>7. /\ pairLog' \in LogStates /\ pairLog'.setting = pairLog.setting /\ pairLog'.made = pairLog.made
      /\ pairLog'.redeemed = pairLog.redeemed /\ pairLog'.replaced = pairLog.replaced
      /\ pairLog'.entitled = pairLog.entitled /\ pairLog'.interrupted = x
  BY <1>1, <1>6 DEF LogStates
<1>8. pairLeft' \in [PairActs -> Nat] /\ pairLeft'["invites"] = pairLeft["invites"]
  <2>1. SpendPair("crashes")
    BY DEF ServerCrash
  <2> QED
    BY <1>1, <2>1 DEF SpendPair, PairActs
<1>9. DialsInv' /\ dialling' \in [Peers -> DialingStates]
  BY <1>3, <1>2, <1>7, DisturbedDials
<1>10. PairingTypes'
  BY <1>1, <1>2, <1>3, <1>4, <1>7, <1>8, <1>9 DEF PairingTypes
<1>11. StoreInv'
  BY <1>3, NumbersAre, PairingAssumption, <1>1, <1>2, <1>4 DEF Holding, StoreInv
<1>12. InvitesInv'
  BY <1>2, <1>7, <1>8, <1>1, <1>3, <1>4, <1>6 DEF Numbered, InvitesInv, PairingThread, Holding,
     Redeemable, GoneForAReason
<1>13. RevokedStaysOut'
  BY <1>1, <1>3, <1>4, <1>7 DEF RevokedStaysOut, Registered
<1> QED
  BY <1>9, <1>10, <1>11, <1>12, <1>13 DEF PairingInv

(* The network.                                                            *)
LEMMA CutOffKeeps ==
    ASSUME PairingInv, CutOff
    PROVE  PairingInv'
<1>1. PairingTypes
  BY DEF PairingInv
<1>2. PICK n \in DOMAIN conns :
        conns' = [conns EXCEPT ![n].shut = TRUE] /\ dialling' = Disturbed(dialling, {conns[n].device})
  BY DEF CutOff
<1>3. UNCHANGED <<store, host, running, pairLog>> /\ SpendPair("cuts") /\ conns[n] \in ConnStates
  BY <1>1 DEF CutOff, PairingTypes
<1>4. PICK c : c = [conns[n] EXCEPT !.shut = TRUE]
  OBVIOUS
<1>5. /\ c \in ConnStates /\ c.at = conns[n].at /\ c.pairing = conns[n].pairing /\ c.shut
      /\ c.device = conns[n].device /\ c.held = conns[n].held
  BY <1>3, <1>4 DEF ConnStates
<1>6. /\ DOMAIN conns' = DOMAIN conns /\ conns' \in [DOMAIN conns -> ConnStates]
      /\ \A m \in DOMAIN conns : conns'[m] = IF m = n THEN c ELSE conns[m]
  BY <1>1, <1>2, <1>4, <1>5 DEF PairingTypes
<1>7. pairLeft' \in [PairActs -> Nat] /\ pairLeft'["invites"] <= pairLeft["invites"]
  BY <1>3, SpendIs DEF PairActs
<1>8. DialsInv' /\ dialling' \in [Peers -> DialingStates]
  BY <1>3, <1>5, <1>6, <1>2, DisturbedDials DEF Undisturbed, Authorized
<1>9. PairingTypes'
  BY <1>1, <1>3, <1>6, <1>7, <1>8 DEF PairingTypes
<1>10. StoreInv' /\ InvitesInv' /\ RevokedStaysOut'
  BY <1>5, <1>6, NumbersAre, <1>3, <1>7, CalmKeeps DEF Quiet
<1> QED
  BY <1>8, <1>9, <1>10 DEF PairingInv

(* A step that changes none of it, or only starts the Server again.        *)
LEMMA OtherwiseKeeps ==
    ASSUME PairingInv, UNCHANGED pairVars \/ StartAgain
    PROVE  PairingInv'
BY DialsStay, SpendIs, NumbersAre, CalmKeeps DEF StartAgain, pairVars, PairSpendsNothing,
   PairingInv, PairingTypes, Quiet, PairActs

-----------------------------------------------------------------------------
(* Every step of the way in keeps the invariant.                           *)
LEMMA PairingSteps ==
    ASSUME PairingInv, [PairNext]_pairVars
    PROVE  PairingInv'
<1>1. ASSUME NEW n, ServerThread(n) PROVE PairingInv'
  <2>1. CASE ReadAuthorized(n) \/ ReadPendingInvite(n) \/ ReadCredential(n) \/ ReadHello(n)
    BY <2>1, ReadAuthorizedKeeps, ReadPendingInviteKeeps, ReadCredentialKeeps, ReadHelloKeeps
  <2>2. CASE CompletePairing(n) \/ WriteList(n) \/ RemoveInvite(n) \/ Admit(n)
    BY <2>2, CompletePairingKeeps, WriteListKeeps, RemoveInviteKeeps, AdmitKeeps
  <2>3. CASE RecordSeen(n) \/ SkipSeen(n) \/ SendWelcome(n) \/ Serve(n)
    BY <2>3, RecordSeenKeeps, SkipSeenKeeps, SendWelcomeKeeps, ServeKeeps
  <2> QED
    BY <1>1, <2>1, <2>2, <2>3 DEF ServerThread
<1>2. ASSUME NEW d \in Peers,
             DialFor(d) \/ Client(d) \/ HangUp(d) \/ CancelDial(d) \/ Revoke(d)
      PROVE  PairingInv'
  BY DialKeeps, HelloKeeps, WelcomeKeeps, EndingDialKeeps, DialForKeeps, CancelDialKeeps,
     RevokeKeeps, <1>2 DEF Client
<1>3. CASE CreateInvite \/ CreateInviteFile \/ WriteInvite \/ InviteAges
  BY <1>3, CreateInviteKeeps, CreateInviteFileKeeps, WriteInviteKeeps, InviteAgesKeeps
<1>4. CASE RevokeDevice \/ KillHost \/ ServerCrash \/ CutOff
  BY <1>4, RevokeDeviceKeeps, KillHostKeeps, ServerCrashKeeps, CutOffKeeps
<1>5. CASE StartAgain \/ UNCHANGED pairVars
  BY <1>5, OtherwiseKeeps
<1> QED
  BY <1>1, <1>2, <1>3, <1>4, <1>5 DEF PairNext

(* It holds at first.                                                      *)
LEMMA PairingStarts ==
    ASSUME NEW setting \in PairSettings, NEW bounds \in [PairActs -> Nat],
           PairInit(setting, bounds)
    PROVE  PairingInv
<1>1. /\ store = [listed |-> setting.listed, pushes |-> {}, invite |-> 0, aged |-> FALSE,
                  lock |-> Nobody]
      /\ conns = <<>> /\ dialling = [d \in Peers |-> NewAttempt]
      /\ host = [op |-> "idle", device |-> Nobody] /\ running = TRUE /\ pairLeft = bounds
  BY DEF PairInit
<1>2. DOMAIN conns = {} /\ conns \in [DOMAIN conns -> ConnStates]
  BY <1>1
<1>3. PICK b \in Nat : b = bounds["invites"]
  BY DEF PairActs
<1>4. PICK r : r = [n \in 1 .. b |-> {}]
  OBVIOUS
<1>5. r \in Redemptions /\ DOMAIN r = 1 .. b /\ \A i \in 1 .. b : r[i] = {}
  BY <1>4 DEF Redemptions
<1>6. /\ setting.listed \in SUBSET Peers
      /\ pairLog = [setting |-> setting, made |-> 0, given |-> {}, replaced |-> {0, Unread},
                    redeemed |-> r, entitled |-> setting.listed, unfinished |-> {},
                    interrupted |-> {}]
  BY <1>3, <1>4 DEF PairInit, PairSettings
<1>7. store \in StoreStates /\ pairLog \in LogStates
  BY <1>1, <1>5, <1>6 DEF StoreStates, LogStates, Unread
<1>8. dialling \in [Peers -> DialingStates]
  BY <1>1 DEF NewAttempt, DialingStates, Phases
<1>9. PairingTypes
  BY <1>2, FS_EmptySet, <1>1, <1>7, <1>8 DEF HostStates, PairingTypes
<1>10. StoreInv
  BY <1>1, <1>2, PairingAssumption DEF StoreInv, Making
<1>11. InvitesInv
  BY <1>1, <1>3, <1>6, <1>5, <1>2 DEF Numbered, Making, Redeemable, GoneForAReason, InvitesInv
<1>12. RevokedStaysOut
  BY <1>1, <1>2, <1>6 DEF RevokedStaysOut
<1>13. DialsInv
  BY <1>1 DEF DialsInv, DialInv, NewAttempt, HasConn
<1> QED
  BY <1>9, <1>10, <1>11, <1>12, <1>13 DEF PairingInv

(* It is enough for what was promised.                                     *)
LEMMA PairingIsSoundThen ==
    ASSUME PairingInv
    PROVE  PairingIsSound
<1>1. PairingTypes /\ StoreInv /\ InvitesInv /\ RevokedStaysOut /\ DialsInv
  BY DEF PairingInv
<1>2. PairTypeOK
  BY <1>1 DEF PairingTypes, StoreStates, DialsInv, DialInv, HasConn, StoreInv, InvitesInv,
     PairTypeOK, Holding
<1>3. InviteIsForOne
  <2> SUFFICES ASSUME NEW i \in DOMAIN pairLog.redeemed
               PROVE  /\ Cardinality(pairLog.redeemed[i]) <= 1 \/ i \in pairLog.interrupted
                      /\ GoneForAReason(i)
    BY DEF InviteIsForOne, GoneForAReason
  <2>1. Redeemable(i) /\ GoneForAReason(i)
    BY <1>1 DEF InvitesInv
  <2>2. ASSUME pairLog.redeemed[i] = {} PROVE Cardinality(pairLog.redeemed[i]) <= 1
    BY <2>2, FS_EmptySet
  <2>3. ASSUME NEW d, pairLog.redeemed[i] = {d} PROVE Cardinality(pairLog.redeemed[i]) <= 1
    BY FS_Singleton, <2>3
  <2> QED
    BY <2>1, <2>2, <2>3 DEF Redeemable
<1>4. NobodyIsStranded
  BY <1>1 DEF DialsInv, DialInv, NobodyIsStranded
<1> QED
  BY <1>1, <1>2, <1>3, <1>4 DEF PairingIsSound

(* Who holds the store's lock, what an invite may still do, and how far a   *)
(* calm dial is: complete_pairing and create_invite take the lock before    *)
(* they touch the invite, and a dial that nothing comes between meets no    *)
(* refusal.                                                                *)
THEOREM PairingInvHolds == PairingSpec => []PairingInv
<1>1. PairingSpec => PairingInv
  BY PairingStarts DEF PairingSpec
<1>2. PairingInv /\ [PairNext]_pairVars => PairingInv'
  BY PairingSteps
<1> QED
  BY <1>1, <1>2, PTL DEF PairingSpec

(* An invite lets one Device in, a Device that was revoked is served no      *)
(* longer than its revocation takes, and one that was listed and that        *)
(* nothing disturbed is let in (complete_pairing, Admit, connect_with_state). *)
THEOREM PairingStaysSound == PairingSpec => []PairingIsSound
<1>1. PairingInv => PairingIsSound
  BY PairingIsSoundThen
<1> QED
  BY <1>1, PairingInvHolds, PTL

-----------------------------------------------------------------------------
(* Pushes.                                                                 *)

(* A push has recipients, as many as the Cloud takes.                      *)
PushRecs ==
    {p \in [pane : Alerting, number : Nat \ {0}, to : SUBSET Phones] :
       p.to # {} /\ Cardinality(p.to) <= MaxRecipients}

(* The pushes that may still be posted: newer than what was posted of       *)
(* their Panes.                                                            *)
Fresh ==
    {p \in PushRecs :
       /\ p.number <= pushLog.raised
       /\ \A i \in 1..Len(posts) : posts[i].pane = p.pane => posts[i].number < p.number}

OnePerPane(ws) == \A i, j \in 1..Len(ws) : ws[i].pane = ws[j].pane => i = j

Types ==
    /\ takers \subseteq Phones /\ pushLog.raised \in Nat
    /\ pushLog = [raised |-> pushLog.raised, newest |-> pushLog.newest, lost |-> pushLog.lost]
    /\ posts \in Seq(PushRecs)
    /\ posting.push \in PushRecs \cup {NoPush} /\ posting.retried \in BOOLEAN
    /\ posting = [push |-> posting.push, retried |-> posting.retried]

(* What waits, in the channel or with the task.                            *)
Waits ==
    /\ outbox \in Seq(Fresh) /\ waiting \in Seq(Fresh)
    /\ OnePerPane(waiting)

(* What was posted of a Pane goes forward, and again is at once.           *)
Forward ==
    /\ \A i \in 1..Len(posts) : posts[i].number <= pushLog.raised
    /\ \A i, j \in 1..Len(posts) : i < j /\ posts[i].pane = posts[j].pane =>
         posts[i].number < posts[j].number \/ (posts[i] = posts[j] /\ j = i + 1)

(* The push that is posted is the last one; before it is tried again it was *)
(* posted once, and then nothing of its Pane waits.                        *)
AtLast ==
    Posting =>
      /\ posts # <<>> /\ posts[Len(posts)] = posting.push
      /\ ~posting.retried =>
           \A i \in 1..Len(posts) - 1 : posts[i] # posting.push
      /\ posting.retried => \A i \in 1..Len(waiting) : waiting[i].pane # posting.push.pane

PushInv == Types /\ Waits /\ Forward /\ AtLast

-----------------------------------------------------------------------------
(* take_queued: what waited and what came, one push for each Pane.         *)

Queues(S) == {ws \in Seq(S) : OnePerPane(ws)}

(* A push that replaces the one of its Pane leaves one per Pane.           *)
LEMMA InPlaceType ==
    ASSUME NEW S, NEW ws \in Queues(S), NEW p \in S
    PROVE  InPlace(ws, p) \in Queues(S) /\ InPlace(ws, p) # <<>>
<1>1. ws \in Seq(S) /\ DOMAIN ws = 1..Len(ws) /\ Len(ws) \in Nat /\ OnePerPane(ws)
      /\ \A i \in 1..Len(ws) : ws[i] \in S
  BY DEF Queues
<1>2. CASE \E i \in DOMAIN ws : ws[i].pane = p.pane
  BY <1>1, <1>2 DEF InPlace, OnePerPane, Queues
<1>3. CASE ~\E i \in DOMAIN ws : ws[i].pane = p.pane
  <2>1. InPlace(ws, p) = Append(ws, p)
    BY <1>3 DEF InPlace
  <2>2. /\ Append(ws, p) \in Seq(S) /\ Len(Append(ws, p)) = Len(ws) + 1
        /\ Append(ws, p)[Len(ws) + 1] = p
        /\ \A i \in 1..Len(ws) : Append(ws, p)[i] = ws[i]
    BY <1>1
  <2>3. \A i \in 1..Len(ws) : ws[i].pane # p.pane
    BY <1>1, <1>3
  <2>4. OnePerPane(Append(ws, p))
    BY <1>1, <2>2, <2>3 DEF OnePerPane
  <2>5. Append(ws, p) # <<>>
    BY <1>1, <2>2
  <2> QED
    BY <2>1, <2>2, <2>4, <2>5 DEF Queues
<1> QED
  BY <1>2, <1>3

(* So does the channel, taken into what waits.                             *)
LEMMA TakeQueuedType ==
    ASSUME NEW S, waiting \in Queues(S), outbox \in Seq(S)
    PROVE  /\ TakeQueued \in Queues(S)
           /\ waiting # <<>> \/ outbox # <<>> => TakeQueued # <<>>
<1> DEFINE n == Len(outbox)
           Upto(f) == f = [i \in 0..n |-> IF i = 0 THEN waiting ELSE InPlace(f[i - 1], outbox[i])]
           step == [i \in 1..n |-> [v \in Queues(S) |-> InPlace(v, outbox[i])]]
<1>1. n \in Nat /\ \A i \in 1..n : outbox[i] \in S
  OBVIOUS
<1>2. IsStep(step, n, Queues(S)) /\ \A i \in 1..n : \A v \in Queues(S) : step[i][v] = InPlace(v, outbox[i])
  BY <1>1, InPlaceType DEF IsStep
<1>3. PICK g : Recurses(g, n, Queues(S), waiting, step)
  BY <1>1, <1>2, RecursionDefines
<1> HIDE DEF step
<1>4. /\ g \in [0..n -> Queues(S)] /\ g[0] = waiting
      /\ \A i \in 1..n : g[i] = InPlace(g[i - 1], outbox[i])
  <2>1. /\ g \in [0..n -> Queues(S)] /\ g[0] = waiting
        /\ \A i \in 1..n : g[i] = step[i][g[i - 1]]
    BY <1>3 DEF Recurses
  <2>2. ASSUME NEW i \in 1..n PROVE g[i] = InPlace(g[i - 1], outbox[i])
    <3>1. i - 1 \in 0..n
      BY <1>1
    <3>2. g[i - 1] \in Queues(S)
      BY <2>1, <3>1
    <3> QED
      BY <1>2, <2>1, <2>2, <3>2
  <2> QED
    BY <2>1, <2>2
<1>5. Upto(g)
  BY <1>4
<1> DEFINE after == CHOOSE f : Upto(f)
<1>6. Upto(after)
  BY <1>5
<1>7. TakeQueued = after[n]
  BY DEF TakeQueued
<1> HIDE DEF after
<1>8. after[n] = g[n]
  <2>1. \A i \in 0..n : after[i] = IF i = 0 THEN waiting ELSE InPlace(after[i - 1], outbox[i])
    BY <1>6
  <2>2. AgreeStepwise(after, g, n)
    BY <1>1, <1>4, <2>1 DEF AgreeStepwise
  <2>3. Agree(after, g, n)
    BY <1>1, <2>2, RecursionsAgree
  <2> QED
    BY <1>1, <2>3 DEF Agree
<1>9. g[n] \in Queues(S)
  BY <1>1, <1>4
<1>10. ASSUME waiting # <<>> \/ outbox # <<>> PROVE g[n] # <<>>
  BY <1>4, <1>10, <1>1, InPlaceType
<1> QED
  BY <1>7, <1>8, <1>9, <1>10

(* What the task has in hand when it takes what came.                      *)
LEMMA TakenIsFresh ==
    ASSUME PushInv
    PROVE  /\ TakeQueued \in Seq(Fresh) /\ OnePerPane(TakeQueued)
           /\ waiting # <<>> \/ outbox # <<>> => TakeQueued # <<>>
BY TakeQueuedType DEF PushInv, Waits, Queues

(* A larger bound, or another one for it.                                  *)
LEMMA SeqOfMore ==
    ASSUME NEW S, NEW T, NEW s \in Seq(S), \A i \in 1..Len(s) : s[i] \in T
    PROVE  s \in Seq(T)
OBVIOUS

-----------------------------------------------------------------------------
(* The invariant                                                           *)

(* The invariant holds at first.                                           *)
LEMMA PushStarts ==
    ASSUME NEW bounds, PushInit(bounds)
    PROVE  PushInv
BY DEF PushInit, Types, Waits, OnePerPane, Forward, AtLast, Posting, PushInv

(* An alert makes a push that is newer than all.                           *)
LEMMA AlertKeeps ==
    ASSUME PushInv, NEW pane \in Alerting, PushAgentAlert(pane)
    PROVE  PushInv'
<1> DEFINE n == pushLog.raised + 1
<1>1. Types /\ Waits /\ Forward /\ AtLast
  BY DEF PushInv
<1>2. PICK to \in Chosen(takers \ Watching(pane)) :
        /\ outbox' = IF to = {} THEN outbox
                     ELSE Append(outbox, [pane |-> pane, number |-> n, to |-> to])
        /\ pushLog' = [pushLog EXCEPT !.raised = n, !.newest[pane] = IF to = {} THEN @ ELSE n]
  BY DEF PushAgentAlert
<1>3. UNCHANGED <<takers, waiting, posting, posts>>
  BY DEF PushAgentAlert
<1>4. /\ pushLog'.raised = n /\ n \in Nat \ {0}
      /\ pushLog' = [raised |-> pushLog'.raised, newest |-> pushLog'.newest, lost |-> pushLog'.lost]
  <2>1. PICK r, w, l : pushLog = [raised |-> r, newest |-> w, lost |-> l] /\ r \in Nat
    BY <1>1 DEF Types
  <2>2. PICK v : pushLog' = [pushLog EXCEPT !.raised = n, !.newest = v]
    BY <1>2, <2>1
  <2>3. pushLog' = [raised |-> r + 1, newest |-> v, lost |-> l]
    BY <2>1, <2>2
  <2> QED
    BY <2>1, <2>3
<1>5. \A p \in Fresh : p \in Fresh'
  BY <1>1, <1>3, <1>4 DEF Fresh, PushRecs, Types
<1>6. to \subseteq Phones /\ (to # {} => Cardinality(to) <= MaxRecipients)
  <2> DEFINE all == takers \ Watching(pane)
  <2>1. all \subseteq Phones
    BY <1>1 DEF Types
  <2>2. CASE Cardinality(all) <= MaxRecipients
    BY <2>1, <2>2 DEF Chosen
  <2>3. CASE ~(Cardinality(all) <= MaxRecipients)
    BY <2>3, <2>1, PushAssumption DEF Chosen
  <2> QED
    BY <2>2, <2>3
<1>7. ASSUME to # {} PROVE [pane |-> pane, number |-> n, to |-> to] \in Fresh'
  BY <1>4, <1>6, <1>7, <1>1, <1>3 DEF PushRecs, Types, Forward, Fresh
<1>8. outbox' \in Seq(Fresh')
  BY <1>1, <1>5, SeqOfMore, <1>2, <1>7 DEF Waits
<1>9. waiting' \in Seq(Fresh')
  BY <1>1, <1>5, SeqOfMore, <1>3 DEF Waits
<1>10. Types'
  BY <1>1, <1>3, <1>4 DEF Types
<1>11. Waits'
  BY <1>1, <1>3, <1>8, <1>9 DEF Waits, OnePerPane
<1>12. Forward'
  BY <1>1, <1>3, <1>4 DEF Forward, Types, PushRecs
<1>13. AtLast'
  BY <1>1, <1>3 DEF AtLast, Posting
<1> QED
  BY <1>10, <1>11, <1>12, <1>13 DEF PushInv

(* A step that leaves alone what waits and what is posted.                 *)
LEMMA QuietKeeps ==
    ASSUME PushInv, takers' \subseteq Phones,
           UNCHANGED <<outbox, waiting, posting, posts, pushLog>>
    PROVE  PushInv'
BY DEF PushInv, Fresh, PushRecs, Types, Waits, OnePerPane, Forward, AtLast, Posting

(* A person looks.                                                         *)
LEMMA LookKeeps ==
    ASSUME PushInv, NEW d \in Phones, Look(d)
    PROVE  PushInv'
BY QuietKeeps DEF Look, Toggled, PushInv, Types

(* A push that is posted again, or for the first time.                     *)
LEMMA PostedNumbers ==
    ASSUME NEW s \in Seq(PushRecs), NEW p \in PushRecs
    PROVE  /\ Append(s, p) \in Seq(PushRecs) /\ Len(Append(s, p)) = Len(s) + 1 /\ Len(s) \in Nat
           /\ Append(s, p)[Len(s) + 1] = p
           /\ \A i \in 1..Len(s) : Append(s, p)[i] = s[i]
           /\ 1..Len(Append(s, p)) = (1..Len(s)) \cup {Len(s) + 1}
OBVIOUS

(* The task begins a post.                                                 *)
LEMMA BeginKeeps ==
    ASSUME PushInv, BeginPost
    PROVE  PushInv'
<1> DEFINE T == TakeQueued
           p == Head(T)
<1>1. Types /\ Waits /\ Forward /\ AtLast
  BY DEF PushInv
<1>2. T \in Seq(Fresh) /\ OnePerPane(T) /\ T # <<>>
  BY TakenIsFresh DEF BeginPost
<1>3. /\ posting' = [push |-> p, retried |-> FALSE] /\ waiting' = Tail(T) /\ outbox' = <<>>
      /\ posts' = Append(posts, p) /\ UNCHANGED <<takers, pushLog>>
  BY DEF BeginPost
<1> HIDE DEF T
<1>4. /\ p = T[1] /\ p \in Fresh /\ p \in PushRecs /\ Len(T) \in Nat \ {0}
      /\ Tail(T) \in Seq(Fresh) /\ Len(Tail(T)) = Len(T) - 1
      /\ \A i \in 1..Len(T) - 1 : Tail(T)[i] = T[i + 1] /\ T[i + 1] \in Fresh
  BY <1>2 DEF Fresh
<1> HIDE DEF p
<1>5. /\ posts' \in Seq(PushRecs) /\ Len(posts') = Len(posts) + 1 /\ Len(posts) \in Nat
      /\ posts'[Len(posts) + 1] = p
      /\ \A i \in 1..Len(posts) : posts'[i] = posts[i]
      /\ 1..Len(posts') = (1..Len(posts)) \cup {Len(posts) + 1}
  BY <1>1, <1>3, <1>4, PostedNumbers DEF Types
<1>6. Types'
  BY <1>3, <1>1, <1>4, <1>5 DEF Types
<1>7. \A i \in 1..Len(T) - 1 : T[i + 1].pane # p.pane
  BY <1>4, <1>2 DEF OnePerPane
<1>8. Waits'
  <2>1. ASSUME NEW i \in 1..Len(T) - 1 PROVE Tail(T)[i] \in Fresh'
    BY <1>4, <1>7, <1>3, <1>5 DEF Fresh, PushRecs
  <2>2. waiting' \in Seq(Fresh')
    BY <1>3, <1>4, <2>1, SeqOfMore
  <2>3. <<>> \in Seq(Fresh')
    OBVIOUS
  <2>4. OnePerPane(Tail(T))
    BY <1>4, <1>2 DEF OnePerPane
  <2> QED
    BY <1>3, <2>2, <2>3, <2>4 DEF Waits, OnePerPane
<1>9. /\ p.number <= pushLog.raised
      /\ \A i \in 1..Len(posts) : posts[i].pane = p.pane => posts[i].number < p.number
  BY <1>4 DEF Fresh
<1>10. Forward'
  BY <1>1, <1>3, <1>5, <1>9 DEF Forward
<1>11. AtLast'
  <2>1. posts' # <<>> /\ posts'[Len(posts')] = p /\ Len(posts') - 1 = Len(posts)
    BY <1>5
  <2>2. ASSUME NEW i \in 1..Len(posts) PROVE posts'[i] # p
    <3>1. posts[i].pane = p.pane => posts[i].number < p.number
      BY <1>9
    <3>2. p.number \in Nat
      BY <1>4 DEF PushRecs
    <3>3. posts[i] # p
      BY <3>1, <3>2
    <3> QED
      BY <1>5, <3>3
  <2>3. posting'.push = p /\ ~posting'.retried
    BY <1>3
  <2> QED
    BY <2>1, <2>2, <2>3 DEF AtLast
<1> QED
  BY <1>6, <1>8, <1>10, <1>11 DEF PushInv

(* The Cloud answers,                                                      *)
LEMMA AnsweredKeeps ==
    ASSUME PushInv, Answered
    PROVE  PushInv'
<1>1. Types /\ Waits /\ Forward /\ AtLast
  BY DEF PushInv
<1>2. posting' = [posting EXCEPT !.push = NoPush] /\ UNCHANGED <<takers, outbox, waiting, posts>>
  BY DEF Answered
<1>3. /\ pushLog'.raised = pushLog.raised
      /\ pushLog' = [raised |-> pushLog'.raised, newest |-> pushLog'.newest, lost |-> pushLog'.lost]
  BY <1>1 DEF Types, Answered
<1>4. /\ posting'.push = NoPush /\ posting'.retried = posting.retried
      /\ posting' = [push |-> posting'.push, retried |-> posting'.retried]
  BY <1>1, <1>2 DEF Types
<1>5. Fresh' = Fresh
  BY <1>2, <1>3 DEF Fresh, PushRecs
<1>6. Types'
  BY <1>1, <1>2, <1>3, <1>4 DEF Types
<1>7. Waits'
  BY <1>1, <1>2, <1>5 DEF Waits, OnePerPane
<1>8. Forward'
  BY <1>1, <1>2, <1>3 DEF Forward
<1>9. AtLast'
  BY <1>4 DEF AtLast, Posting
<1> QED
  BY <1>6, <1>7, <1>8, <1>9 DEF PushInv

(* or does not: the post is tried again, once.                             *)
LEMMA UnansweredKeeps ==
    ASSUME PushInv, Unanswered
    PROVE  PushInv'
<1> DEFINE T == TakeQueued
           again == MayRetry(T)
<1>1. Types /\ Waits /\ Forward /\ AtLast
  BY DEF PushInv
<1>2. T \in Seq(Fresh) /\ OnePerPane(T) /\ \A i \in 1..Len(T) : T[i] \in Fresh
  BY TakenIsFresh
<1>3. /\ Posting /\ waiting' = T /\ outbox' = <<>> /\ takers' = takers
      /\ again => /\ posting' = [posting EXCEPT !.retried = TRUE]
                  /\ posts' = Append(posts, posting.push) /\ UNCHANGED pushLog
      /\ ~again => /\ posting' = [posting EXCEPT !.push = NoPush] /\ UNCHANGED posts
                   /\ pushLog' = [pushLog EXCEPT !.lost = @ \cup {posting.push.number}]
  BY DEF Unanswered
<1>4. again => ~posting.retried /\ \A i \in 1..Len(T) : T[i].pane # posting.push.pane
  BY <1>2 DEF MayRetry
<1> HIDE DEF T, again
<1>5. posting.push \in PushRecs /\ posts \in Seq(PushRecs)
  BY <1>1, <1>3 DEF Types, Posting
<1>6. /\ Append(posts, posting.push) \in Seq(PushRecs)
      /\ Len(Append(posts, posting.push)) = Len(posts) + 1 /\ Len(posts) \in Nat
      /\ Append(posts, posting.push)[Len(posts) + 1] = posting.push
      /\ \A i \in 1..Len(posts) : Append(posts, posting.push)[i] = posts[i]
      /\ 1..Len(Append(posts, posting.push)) = (1..Len(posts)) \cup {Len(posts) + 1}
  BY <1>5, PostedNumbers
<1>7. posts # <<>> /\ posts[Len(posts)] = posting.push /\ Len(posts) \in 1..Len(posts)
  BY <1>1, <1>3, <1>5 DEF AtLast
<1>8. PICK q, t : posting = [push |-> q, retried |-> t] /\ q \in PushRecs
  BY <1>1, <1>5 DEF Types
<1>9. PICK r, w, l : pushLog = [raised |-> r, newest |-> w, lost |-> l]
  BY <1>1 DEF Types
<1>10. <<>> \in Seq(Fresh')
  OBVIOUS
<1>11. CASE again
  <2>1. /\ posting' = [push |-> posting.push, retried |-> TRUE]
        /\ posting'.push = posting.push /\ posting'.retried = TRUE
    BY <1>3, <1>8, <1>11
  <2>2. posts' = Append(posts, posting.push) /\ pushLog' = pushLog
    BY <1>3, <1>11
  <2>3. Types'
    BY <1>1, <1>3, <1>5, <1>6, <2>1, <2>2 DEF Types
  <2>4. Waits'
    <3>1. ASSUME NEW i \in 1..Len(T) PROVE T[i] \in Fresh'
      BY <1>2, <1>4, <1>11, <1>6, <2>2 DEF Fresh, PushRecs
    <3>2. T \in Seq(Fresh')
      BY <1>2, <3>1, SeqOfMore
    <3> QED
      BY <1>2, <1>3, <1>10, <3>2 DEF Waits, OnePerPane
  <2>5. Forward'
    <3>1. \A i \in 1..Len(posts') : posts'[i].number <= pushLog'.raised
      BY <1>1, <1>6, <1>7, <2>2 DEF Forward
    <3>2. ASSUME NEW i \in 1..Len(posts'), NEW j \in 1..Len(posts'), i < j,
                 posts'[i].pane = posts'[j].pane
          PROVE  posts'[i].number < posts'[j].number \/ (posts'[i] = posts'[j] /\ j = i + 1)
      <4>1. CASE j = Len(posts) + 1
        <5>1. i \in 1..Len(posts) /\ posts'[i] = posts[i] /\ posts'[j] = posts[Len(posts)]
          BY <1>6, <1>7, <2>2, <3>2, <4>1
        <5>2. CASE i = Len(posts)
          BY <4>1, <5>1, <5>2
        <5>3. CASE i # Len(posts)
          <6>1. i < Len(posts) /\ i \in 1..Len(posts) - 1
            BY <1>6, <5>1, <5>3
          <6>2. posts[i] # posts[Len(posts)]
            BY <1>1, <1>3, <1>4, <1>7, <1>11, <6>1 DEF AtLast
          <6>3. posts[i].pane = posts[Len(posts)].pane
            BY <3>2, <5>1
          <6>4. posts[i].number < posts[Len(posts)].number
            BY <1>1, <1>7, <5>1, <6>1, <6>2, <6>3 DEF Forward
          <6> QED
            BY <5>1, <6>4
        <5> QED
          BY <5>2, <5>3
      <4>2. CASE j # Len(posts) + 1
        BY <1>6, <2>2, <3>2, <4>2, <1>1 DEF Forward
      <4> QED
        BY <4>1, <4>2
    <3> QED
      BY <3>1, <3>2 DEF Forward
  <2>6. AtLast'
    BY <1>6, <2>1, <2>2, <1>3, <1>4, <1>11 DEF AtLast
  <2> QED
    BY <2>3, <2>4, <2>5, <2>6 DEF PushInv
<1>12. CASE ~again
  <2>1. /\ posting' = [push |-> NoPush, retried |-> posting.retried]
        /\ posting'.push = NoPush /\ posting'.retried = posting.retried
    BY <1>3, <1>8, <1>12
  <2>2. /\ posts' = posts /\ pushLog'.raised = pushLog.raised
        /\ pushLog' = [raised |-> pushLog'.raised, newest |-> pushLog'.newest, lost |-> pushLog'.lost]
    BY <1>3, <1>9, <1>12
  <2>3. Types'
    BY <1>1, <1>3, <2>1, <2>2 DEF Types
  <2>4. Fresh' = Fresh
    BY <2>2 DEF Fresh, PushRecs
  <2>5. Waits'
    BY <1>2, <1>3, <1>10, <2>4 DEF Waits, OnePerPane
  <2>6. Forward'
    BY <1>1, <2>2 DEF Forward
  <2>7. AtLast'
    BY <2>1 DEF AtLast, Posting
  <2> QED
    BY <2>3, <2>5, <2>6, <2>7 DEF PushInv
<1> QED
  BY <1>11, <1>12

(* Every step keeps the invariant.                                         *)
LEMMA PushKeeps ==
    ASSUME PushInv, [PushNext]_allPushVars
    PROVE  PushInv'
BY AlertKeeps, LookKeeps, BeginKeeps, AnsweredKeeps, UnansweredKeeps, QuietKeeps DEF allPushVars,
   pushVars, PushInv, Types, PushNext

(* Of two numbers of a set, one is the other or there are two.             *)
LEMMA TwoElements ==
    ASSUME NEW a, NEW b, a # b
    PROVE  IsFiniteSet({a, b}) /\ Cardinality({a, b}) = 2
<1>1. IsFiniteSet({a}) /\ Cardinality({a}) = 1
  BY FS_Singleton
<1>2. b \notin {a} /\ {a} \cup {b} = {a, b}
  OBVIOUS
<1>3. IsFiniteSet({a, b}) /\ Cardinality({a} \cup {b}) = Cardinality({a}) + 1
  BY <1>1, <1>2, FS_AddElement
<1>4. Cardinality({a, b}) = Cardinality({a}) + 1
  BY <1>2, <1>3, Zenon
<1> QED
  BY <1>1, <1>3, <1>4

(* What was posted is in order.                                            *)
LEMMA PushesOrdered ==
    ASSUME PushInv
    PROVE  PushesAreInOrder
<1>1. Types /\ Waits /\ Forward /\ AtLast
  BY DEF PushInv
<1>2. /\ DOMAIN waiting = 1..Len(waiting) /\ \A i \in 1..Len(waiting) : waiting[i] \in Fresh
      /\ DOMAIN posts = 1..Len(posts) /\ Len(posts) \in Nat
      /\ \A i \in 1..Len(posts) : posts[i] \in PushRecs
  BY <1>1 DEF Types, Waits
<1>3. ASSUME NEW i \in 1..Len(waiting), waiting[i].pane = posting.push.pane
      PROVE  waiting[i].number > posting.push.number
  <2>1. CASE Posting
    BY <1>1, <1>2, <2>1, <1>3 DEF AtLast, Types, Fresh, PushRecs
  <2>2. CASE ~Posting
    BY <1>2, <2>2 DEF Posting, NoPush, Fresh, PushRecs
  <2> QED
    BY <2>1, <2>2
<1>4. PushTypeOK
  BY <1>1, <1>2, <1>3 DEF Waits, OnePerPane, PushRecs, PushTypeOK
<1>5. ASSUME NEW i \in 1..Len(posts)
      PROVE  Cardinality({j \in DOMAIN posts : posts[j] = posts[i]}) <= 2
  <2> DEFINE same == {j \in 1..Len(posts) : posts[j] = posts[i]}
  <2>1. \A j, k \in same : j < k => k = j + 1
    BY <1>2, <1>1 DEF PushRecs, Forward
  <2>2. PICK k \in Int : same \subseteq {k, k + 1}
    <3>1. i \in same /\ same \subseteq Int
      BY <1>2
    <3>2. CASE i + 1 \in same
      <4>1. ASSUME NEW j \in same PROVE j \in {i, i + 1}
        BY <3>1, <2>1, <3>2
      <4> QED
        BY <3>1, <4>1
    <3>3. CASE i + 1 \notin same
      <4>1. ASSUME NEW j \in same PROVE j \in {i - 1, (i - 1) + 1}
        BY <3>1, <3>3, <2>1
      <4>2. i - 1 \in Int
        BY <3>1
      <4> QED
        BY <4>1, <4>2
    <3> QED
      BY <3>2, <3>3
  <2> HIDE DEF same
  <2>3. IsFiniteSet({k, k + 1}) /\ Cardinality({k, k + 1}) = 2
    <3>1. k # k + 1
      OBVIOUS
    <3> QED
      BY <3>1, TwoElements
  <2>4. Cardinality(same) <= Cardinality({k, k + 1})
    BY <2>2, <2>3, FS_Subset
  <2>5. Cardinality(same) <= 2
    BY <2>3, <2>4
  <2> QED
    BY <1>2, <2>5 DEF same
<1>6. PostsGoForward
  BY <1>1, <1>2, <1>5 DEF AtLast, Forward, PostsGoForward
<1> QED
  BY <1>4, <1>6 DEF PushesAreInOrder

(* What the task takes together and posts (server/push.rs: take_queued,    *)
(* send_pushes) is newer than what was posted of its Pane.                 *)
THEOREM PushesInv == PushSpec => []PushInv
<1>1. (\E bounds \in [PushActs -> Nat] : PushInit(bounds)) => PushInv
  BY PushStarts
<1>2. PushInv /\ [PushNext]_allPushVars => PushInv'
  BY PushKeeps
<1> QED
  BY <1>1, <1>2, PTL DEF PushSpec

(* A late Blocked never follows the Done that came after it, and none is   *)
(* posted more than twice (server/push.rs: send_pushes).                   *)
THEOREM PushesGoForward == PushSpec => []PushesAreInOrder
<1>1. PushInv => PushesAreInOrder
  BY PushesOrdered
<1> QED
  BY <1>1, PushesInv, PTL

-----------------------------------------------------------------------------
(* The phone: what the variables hold.                                     *)

Shown == [home : Homes, pane : Screens] \cup {Hidden}
Statuses == {"suspended", "connecting", "connected", "failed", "revoked"}
Early == {"spawned", "dialing"} \cup Outcomes
PaneSets == SUBSET (Screens \cup {NoScreen})
ServerStates == [watched : PaneSets, focus : Screens \cup {NoScreen}, size : Nat]
HomeStates ==
    [status : Statuses, generation : Nat, io : Nat, dial : Nat, known : BOOLEAN, watched : PaneSets]
DialStates ==
    [home : Homes, generation : Nat, watched : PaneSets, cancelled : BOOLEAN, push : BOOLEAN,
     at : Early \cup {"pumped", "over"}, heard : Seq(Says \cup {"lost"}), server : ServerStates]

(* A Device and its connection. *)
HomeHolds(h, a, ds) ==
    /\ h.dial \in 0 .. Len(ds) /\ h.io \in {0, h.dial}
    /\ h.dial # 0 => ds[h.dial].home = a
    /\ h.io # 0 <=> h.status = "connected"
    /\ h.io # 0 => h.known /\ ds[h.io].at = "pumped"
    /\ h.status \in Up => h.dial # 0
WorldHolds(w) ==
    /\ w = [homes |-> w.homes, dials |-> w.dials]
    /\ DOMAIN w.homes \subseteq Homes /\ w.homes \in [DOMAIN w.homes -> HomeStates]
    /\ w.dials \in Seq(DialStates)
    /\ \A a \in DOMAIN w.homes : HomeHolds(w.homes[a], a, w.dials)

PhoneType == [suspended : BOOLEAN, inactive : BOOLEAN, shown : Shown, size : Nat, push : BOOLEAN,
              changed : BOOLEAN, notified : BOOLEAN, wake : BOOLEAN, setting : PhoneSettings]
PhoneTypes ==
    /\ phone \in PhoneType
    /\ calls \in [Callers -> SUBSET Homes]
    /\ notifier \in [asleep : BOOLEAN, told : BOOLEAN]
    /\ dialLog \in [last : [Homes -> Nat], by : [Homes -> Nat], hidden : SUBSET Nat]
    /\ phoneLeft \in [PhoneActs -> Nat]

HomesHold ==
    /\ Saved \subseteq Homes /\ homes \in [Saved -> HomeStates] /\ dials \in Seq(DialStates)
    /\ \A a \in Saved : HomeHolds(homes[a], a, dials)

(* Generations tell the last connection of a Device from those before. *)
LastOnes ==
    /\ \A a \in Saved : homes[a].dial = dialLog.last[a]
    /\ \A n \in DOMAIN dials :
         LET a == dials[n].home IN
         /\ n <= dialLog.last[a]
         /\ a \in Saved => /\ dials[n].generation <= homes[a].generation
                           /\ n # homes[a].dial => dials[n].generation < homes[a].generation
WatchedHolds ==
    \A a \in Saved :
        homes[a].watched = ShownOf(a) \/ (homes[a].dial = 0 /\ homes[a].watched = Unwatched)
NewServer(panes) == [watched |-> panes, focus |-> NoScreen, size |-> 0]
EarlyHolds == \A n \in DOMAIN dials : dials[n].at \in Early => dials[n].server = NewServer(dials[n].watched)
OthersLetGo ==
    \A n \in DOMAIN dials :
        dials[n].cancelled \/ dials[n].at = "over" \/ (dials[n].home \in Saved /\ homes[dials[n].home].dial = n)
(* A Device is up as long as the last connection to it is its own and lasts. *)
UpHolds ==
    \A a \in Saved : homes[a].dial # 0 =>
        (homes[a].status \in Up <=> /\ dials[homes[a].dial].generation = homes[a].generation
                                  /\ dials[homes[a].dial].at # "over")
PushDue ==
    \A a \in Saved : homes[a].status \in Up /\ dials[homes[a].dial].at # "spawned" =>
        dials[homes[a].dial].push = phone.push \/ a \in calls["main"]
PhoneInv ==
    /\ PhoneTypes /\ ~phone.setting.again /\ HomesHold
    /\ UpHolds /\ LastOnes /\ WatchedHolds /\ EarlyHolds /\ OthersLetGo /\ PushDue
    /\ LateChangesNothing /\ ServersSeeThePhone /\ BackgroundIsQuiet

-----------------------------------------------------------------------------
(* What a Server is told. *)

LEMMA DialsAre ==
    ASSUME NEW w, WorldHolds(w)
    PROVE  /\ DOMAIN w.dials = 1 .. Len(w.dials) /\ Len(w.dials) \in Nat
           /\ \A k \in DOMAIN w.dials : w.dials[k] \in DialStates
BY DEF WorldHolds

LEMMA IoIs ==
    ASSUME NEW w, WorldHolds(w), NEW a \in DOMAIN w.homes, w.homes[a].io # 0
    PROVE  /\ w.homes[a].io \in DOMAIN w.dials /\ w.dials[w.homes[a].io].home = a
           /\ ServerOf(w, a) \in ServerStates /\ w.homes[a].known
           /\ w.dials[w.homes[a].io].at = "pumped"
<1>1. w.homes[a] \in HomeStates /\ HomeHolds(w.homes[a], a, w.dials)
  BY DEF WorldHolds
<1>2. w.homes[a].io \in DOMAIN w.dials /\ w.dials[w.homes[a].io].home = a
  BY <1>1 DEF HomeHolds, HomeStates, WorldHolds
<1>3. w.dials[w.homes[a].io] \in DialStates
  BY <1>2 DEF WorldHolds
<1> QED
  BY <1>1, <1>2, <1>3 DEF HomeHolds, ServerOf, DialStates

(* The connection of a Device is that of no other. *)
LEMMA OtherIo ==
    ASSUME NEW w, WorldHolds(w), NEW a \in DOMAIN w.homes, NEW b \in DOMAIN w.homes,
           w.homes[a].io # 0, w.homes[b].io = w.homes[a].io
    PROVE  a = b
BY IoIs

(* What Servers were told is all that v differs in from w. *)
Retold(w, v) ==
    /\ WorldHolds(v) /\ DOMAIN v.homes = DOMAIN w.homes /\ DOMAIN v.dials = DOMAIN w.dials
    /\ \A a \in DOMAIN w.homes : v.homes[a] = [w.homes[a] EXCEPT !.watched = v.homes[a].watched]
    /\ \A k \in DOMAIN w.dials :
         /\ v.dials[k] = [w.dials[k] EXCEPT !.server = v.dials[k].server]
         /\ w.dials[k].at \in Early => v.dials[k].server = w.dials[k].server

LEMMA RetoldTwice ==
    ASSUME NEW u, NEW w, NEW v, WorldHolds(u), Retold(u, w), Retold(w, v)
    PROVE  Retold(u, v)
<1>1. ASSUME NEW a \in DOMAIN u.homes
      PROVE  v.homes[a] = [u.homes[a] EXCEPT !.watched = v.homes[a].watched]
  <2>1. u.homes[a] \in HomeStates
    BY <1>1 DEF WorldHolds
  <2>2. /\ w.homes[a] = [u.homes[a] EXCEPT !.watched = w.homes[a].watched]
        /\ v.homes[a] = [w.homes[a] EXCEPT !.watched = v.homes[a].watched]
    BY <1>1 DEF Retold
  <2> QED
    BY <2>1, <2>2 DEF HomeStates
<1>2. ASSUME NEW k \in DOMAIN u.dials
      PROVE  /\ v.dials[k] = [u.dials[k] EXCEPT !.server = v.dials[k].server]
             /\ u.dials[k].at \in Early => v.dials[k].server = u.dials[k].server
  <2>1. u.dials[k] \in DialStates
    BY <1>2 DEF WorldHolds
  <2>2. /\ w.dials[k] = [u.dials[k] EXCEPT !.server = w.dials[k].server]
        /\ v.dials[k] = [w.dials[k] EXCEPT !.server = v.dials[k].server]
        /\ u.dials[k].at \in Early => w.dials[k].server = u.dials[k].server
        /\ w.dials[k].at \in Early => v.dials[k].server = w.dials[k].server
    BY <1>2 DEF Retold
  <2>3. w.dials[k].at = u.dials[k].at
    BY <2>1, <2>2 DEF DialStates
  <2> QED
    BY <2>1, <2>2, <2>3 DEF DialStates
<1> QED
  BY <1>1, <1>2 DEF Retold

LEMMA ToldIs ==
    ASSUME NEW w, WorldHolds(w), NEW a \in DOMAIN w.homes, NEW s \in ServerStates, w.homes[a].io # 0
    PROVE  /\ Retold(w, Told(w, a, s)) /\ Told(w, a, s).homes = w.homes
           /\ ServerOf(Told(w, a, s), a) = s
           /\ \A b \in DOMAIN w.homes : b # a /\ w.homes[b].io # 0 =>
                ServerOf(Told(w, a, s), b) = ServerOf(w, b)
<1> DEFINE n == w.homes[a].io
<1> DEFINE ds == [w.dials EXCEPT ![n].server = s]
<1>1. n \in DOMAIN w.dials /\ w.dials[n].home = a /\ w.dials[n].at = "pumped"
  BY IoIs
<1>2. Told(w, a, s) = [homes |-> w.homes, dials |-> ds]
  BY DEF Told, WorldHolds
<1>3. /\ ds \in Seq(DialStates) /\ DOMAIN ds = DOMAIN w.dials /\ Len(ds) = Len(w.dials)
      /\ \A k \in DOMAIN w.dials :
           ds[k] = IF k = n THEN [w.dials[k] EXCEPT !.server = s] ELSE w.dials[k]
  <2>1. \A d \in DialStates : [d EXCEPT !.server = s] \in DialStates
    BY DEF DialStates
  <2>2. w.dials[n] \in DialStates
    BY <1>1 DEF WorldHolds
  <2> QED
    BY <1>1, <2>1, <2>2 DEF WorldHolds
<1>4. \A k \in DOMAIN w.dials : /\ ds[k].home = w.dials[k].home /\ ds[k].at = w.dials[k].at
                                /\ ds[k] = [w.dials[k] EXCEPT !.server = ds[k].server]
                                /\ k # n => ds[k].server = w.dials[k].server
  <2> TAKE k \in DOMAIN w.dials
  <2>1. w.dials[k] \in DialStates
    BY DEF WorldHolds
  <2>2. ds[k] = IF k = n THEN [w.dials[k] EXCEPT !.server = s] ELSE w.dials[k]
    BY <1>3
  <2> HIDE DEF ds
  <2>3. CASE k = n
    BY <2>1, <2>2, <2>3 DEF DialStates
  <2>4. CASE k # n
    BY <2>1, <2>2, <2>4 DEF DialStates
  <2> QED
    BY <2>3, <2>4
<1> HIDE DEF ds
<1>5. \A b \in DOMAIN w.homes : HomeHolds(w.homes[b], b, ds)
  BY <1>4, DialsAre, <1>3 DEF WorldHolds, HomeHolds, HomeStates
<1>6. WorldHolds(Told(w, a, s))
  BY <1>2, <1>3, <1>5 DEF WorldHolds
<1>7. \A b \in DOMAIN w.homes : w.homes[b] = [w.homes[b] EXCEPT !.watched = w.homes[b].watched]
  BY DEF WorldHolds, HomeStates
<1>8. ds[n].server = s
  <2>1. w.dials[n] \in DialStates
    BY <1>1 DEF WorldHolds
  <2> QED
    BY <1>1, <1>3, <2>1 DEF DialStates
<1>9. "pumped" \notin Early
  BY DEF Early, Outcomes
<1>10. Retold(w, Told(w, a, s))
  <2>1. Told(w, a, s).homes = w.homes /\ Told(w, a, s).dials = ds
    BY <1>2
  <2>2. \A k \in DOMAIN w.dials : w.dials[k].at \in Early => ds[k].server = w.dials[k].server
    BY <1>1, <1>4, <1>9
  <2> QED
    BY <1>3, <1>4, <1>6, <1>7, <2>1, <2>2 DEF Retold
<1>11. ASSUME NEW b \in DOMAIN w.homes, b # a, w.homes[b].io # 0
       PROVE  ServerOf(Told(w, a, s), b) = ServerOf(w, b)
  <2>1. w.homes[b].io \in DOMAIN w.dials /\ w.homes[b].io # n
    BY <1>11, IoIs, <1>1
  <2>2. Told(w, a, s).homes = w.homes /\ Told(w, a, s).dials = ds
    BY <1>2
  <2>3. ds[w.homes[b].io].server = w.dials[w.homes[b].io].server
    BY <1>4, <2>1
  <2> QED
    BY <2>2, <2>3 DEF ServerOf
<1> QED
  BY <1>2, <1>8, <1>10, <1>11 DEF ServerOf

LEMMA RetoldSame == ASSUME NEW w, WorldHolds(w) PROVE Retold(w, w)
<1>1. \A k \in DOMAIN w.dials : w.dials[k] \in DialStates
  BY DEF WorldHolds
<1> QED
  BY <1>1 DEF Retold, WorldHolds, HomeStates, DialStates

FocusOn(server, pane, size) ==
    [server EXCEPT !.focus = pane, !.size = IF size # 0 THEN size ELSE server.size]
LEMMA TakesIs ==
    ASSUME NEW w, WorldHolds(w), NEW a \in DOMAIN w.homes, NEW pane \in Screens, NEW size \in Nat,
           NEW v, v = Takes(w, a, pane, size)
    PROVE  /\ Retold(w, v) /\ v.homes = w.homes
           /\ w.homes[a].io # 0 => ServerOf(v, a) = FocusOn(ServerOf(w, a), pane, size)
           /\ \A b \in DOMAIN w.homes : b # a /\ w.homes[b].io # 0 => ServerOf(v, b) = ServerOf(w, b)
<1>1. CASE w.homes[a].io = 0
  BY <1>1, RetoldSame DEF Takes
<1>2. CASE w.homes[a].io # 0
  <2> DEFINE s == FocusOn(ServerOf(w, a), pane, size)
  <2>1. ServerOf(w, a) \in ServerStates /\ w.homes[a].known
    BY <1>2, IoIs
  <2>2. s \in ServerStates
    BY <2>1 DEF ServerStates, FocusOn
  <2>3. v = Told(w, a, s)
    BY <1>2, <2>1 DEF Takes, FocusOn
  <2> HIDE DEF s
  <2>4. /\ Retold(w, v) /\ v.homes = w.homes /\ ServerOf(v, a) = s
        /\ \A b \in DOMAIN w.homes : b # a /\ w.homes[b].io # 0 => ServerOf(v, b) = ServerOf(w, b)
    BY <1>2, <2>2, <2>3, ToldIs
  <2> QED
    BY <2>4 DEF s
<1> QED
  BY <1>1, <1>2

LEMMA GivesIs ==
    ASSUME NEW w, WorldHolds(w), NEW a \in DOMAIN w.homes, NEW pane, NEW v, v = Gives(w, a, pane)
    PROVE  /\ Retold(w, v) /\ v.homes = w.homes
           /\ w.homes[a].io # 0 =>
                ServerOf(v, a) = [ServerOf(w, a) EXCEPT !.focus = IF ServerOf(w, a).focus = pane THEN NoScreen ELSE ServerOf(w, a).focus]
           /\ \A b \in DOMAIN w.homes : b # a /\ w.homes[b].io # 0 => ServerOf(v, b) = ServerOf(w, b)
BY RetoldSame, IoIs, ToldIs DEF Gives, ServerStates

WatchingOf(server, panes) == [server EXCEPT !.watched = panes]
LEMMA WatchesIs ==
    ASSUME NEW w, WorldHolds(w), NEW a \in DOMAIN w.homes, NEW panes \in PaneSets,
           w.homes[a].io # 0 => ServerOf(w, a).watched = w.homes[a].watched,
           NEW v, v = Watches(w, a, panes)
    PROVE  /\ Retold(w, v) /\ v.homes[a].watched = panes
           /\ w.homes[a].io # 0 => ServerOf(v, a) = WatchingOf(ServerOf(w, a), panes)
           /\ \A b \in DOMAIN w.homes : b # a =>
                v.homes[b] = w.homes[b] /\ (w.homes[b].io # 0 => ServerOf(v, b) = ServerOf(w, b))
<1>1. CASE w.homes[a].watched = panes
  BY <1>1, IoIs, RetoldSame DEF Watches, ServerStates, WatchingOf
<1>2. CASE w.homes[a].watched # panes
  <2> DEFINE s == WatchingOf(ServerOf(w, a), panes)
  <2> DEFINE told == IF w.homes[a].io = 0 THEN w ELSE Told(w, a, s)
  <2>1. /\ Retold(w, told) /\ told.homes = w.homes
        /\ w.homes[a].io # 0 => ServerOf(told, a) = s
        /\ \A b \in DOMAIN w.homes : b # a /\ w.homes[b].io # 0 => ServerOf(told, b) = ServerOf(w, b)
    BY RetoldSame, IoIs, ToldIs DEF ServerStates, WatchingOf
  <2>2. v = [told EXCEPT !.homes[a].watched = panes]
    BY <1>2 DEF Watches, WatchingOf
  <2> HIDE DEF told
  <2> DEFINE hs == [w.homes EXCEPT ![a].watched = panes]
  <2>3. WorldHolds(told)
    BY <2>1 DEF Retold
  <2>4. v = [homes |-> hs, dials |-> told.dials]
    BY <2>1, <2>2, <2>3 DEF WorldHolds
  <2>5. /\ hs \in [DOMAIN w.homes -> HomeStates]
        /\ \A b \in DOMAIN w.homes : hs[b] = IF b = a THEN [w.homes[a] EXCEPT !.watched = panes] ELSE w.homes[b]
    BY DEF WorldHolds, HomeStates
  <2>6. \A b \in DOMAIN w.homes :
          /\ hs[b] = [w.homes[b] EXCEPT !.watched = hs[b].watched]
          /\ hs[b].io = w.homes[b].io /\ hs[b].dial = w.homes[b].dial
          /\ hs[b].status = w.homes[b].status /\ hs[b].known = w.homes[b].known
    BY <2>5 DEF WorldHolds, HomeStates
  <2>7. hs[a].watched = panes
    BY <2>5 DEF WorldHolds, HomeStates
  <2> HIDE DEF hs
  <2>8. v.homes = hs /\ v.dials = told.dials
    BY <2>4
  <2>9. WorldHolds(v)
    <3>1. \A b \in DOMAIN w.homes : HomeHolds(hs[b], b, told.dials)
      <4> TAKE b \in DOMAIN w.homes
      <4>1. HomeHolds(w.homes[b], b, told.dials)
        BY <2>1, <2>3 DEF WorldHolds
      <4> QED
        BY <2>6, <4>1 DEF HomeHolds
    <3>2. DOMAIN hs = DOMAIN w.homes
      BY <2>5
    <3> QED
      BY <2>3, <2>4, <2>5, <2>8, <3>1, <3>2 DEF WorldHolds
  <2>10. Retold(w, v)
    <3>1. DOMAIN v.homes = DOMAIN w.homes /\ \A b \in DOMAIN w.homes :
            v.homes[b] = [w.homes[b] EXCEPT !.watched = v.homes[b].watched]
      BY <2>5, <2>6, <2>8
    <3>2. /\ DOMAIN v.dials = DOMAIN w.dials
          /\ \A k \in DOMAIN w.dials :
               /\ v.dials[k] = [w.dials[k] EXCEPT !.server = v.dials[k].server]
               /\ w.dials[k].at \in Early => v.dials[k].server = w.dials[k].server
      BY <2>1, <2>8 DEF Retold
    <3> QED
      BY <2>9, <3>1, <3>2 DEF Retold
  <2>11. \A b \in DOMAIN w.homes : ServerOf(v, b) = ServerOf(told, b)
    <3>1. \A b \in DOMAIN w.homes : v.homes[b].io = told.homes[b].io
      BY <2>1, <2>6, <2>8
    <3> QED
      BY <2>8, <3>1 DEF ServerOf
  <2> QED
    BY <2>1, <2>5, <2>7, <2>8, <2>10, <2>11
<1> QED
  BY <1>1, <1>2

-----------------------------------------------------------------------------
(* What Servers are told breaks nothing else. *)

LEMMA OneDial ==
    ASSUME HomesHold, NEW n \in DOMAIN dials
    PROVE  /\ dials[n] \in DialStates /\ n \in Nat \ {0}
           /\ dials[n].home \in Homes /\ dials[n].generation \in Nat
<1>1. dials[n] \in DialStates /\ n \in Nat \ {0}
  BY DEF HomesHold
<1> QED
  BY <1>1 DEF DialStates

LEMMA WorldIs ==
    /\ World.homes = homes /\ World.dials = dials
    /\ HomesHold => WorldHolds(World)
BY DEF World, WorldHolds, HomesHold, Saved

LEMMA BecomesIs ==
    ASSUME NEW v, WorldHolds(v), Becomes(v)
    PROVE  HomesHold'
BY DEF WorldHolds, Becomes, HomesHold, Saved

LEMMA RetoldIs ==
    ASSUME NEW w, NEW v, WorldHolds(w), Retold(w, v), Becomes(v)
    PROVE  /\ HomesHold' /\ Saved' = DOMAIN w.homes /\ DOMAIN dials' = DOMAIN w.dials
           /\ \A a \in DOMAIN w.homes :
                /\ homes'[a].status = w.homes[a].status /\ homes'[a].generation = w.homes[a].generation
                /\ homes'[a].io = w.homes[a].io /\ homes'[a].dial = w.homes[a].dial
           /\ \A k \in DOMAIN w.dials :
                /\ dials'[k].home = w.dials[k].home /\ dials'[k].generation = w.dials[k].generation
                /\ dials'[k].watched = w.dials[k].watched /\ dials'[k].push = w.dials[k].push
                /\ dials'[k].cancelled = w.dials[k].cancelled /\ dials'[k].at = w.dials[k].at
                /\ w.dials[k].at \in Early => dials'[k].server = w.dials[k].server
<1>1. homes' = v.homes /\ dials' = v.dials
  BY DEF Becomes
<1>2. ASSUME NEW a \in DOMAIN w.homes
      PROVE  /\ homes'[a].status = w.homes[a].status /\ homes'[a].generation = w.homes[a].generation
             /\ homes'[a].io = w.homes[a].io /\ homes'[a].dial = w.homes[a].dial
  <2>1. homes'[a] = [w.homes[a] EXCEPT !.watched = homes'[a].watched]
    BY <1>1 DEF Retold
  <2>2. w.homes[a] \in HomeStates
    BY DEF WorldHolds
  <2> QED
    BY <2>1, <2>2 DEF HomeStates
<1>3. ASSUME NEW k \in DOMAIN w.dials
      PROVE  /\ dials'[k].home = w.dials[k].home /\ dials'[k].generation = w.dials[k].generation
             /\ dials'[k].watched = w.dials[k].watched /\ dials'[k].push = w.dials[k].push
             /\ dials'[k].cancelled = w.dials[k].cancelled /\ dials'[k].at = w.dials[k].at
             /\ w.dials[k].at \in Early => dials'[k].server = w.dials[k].server
  <2>1. /\ dials'[k] = [w.dials[k] EXCEPT !.server = dials'[k].server]
        /\ w.dials[k].at \in Early => dials'[k].server = w.dials[k].server
    BY <1>1 DEF Retold
  <2>2. w.dials[k] \in DialStates
    BY DEF WorldHolds
  <2> QED
    BY <2>1, <2>2 DEF DialStates
<1>4. Saved' = DOMAIN w.homes /\ DOMAIN dials' = DOMAIN w.dials
  BY <1>1 DEF Retold, Saved
<1>5. HomesHold'
  BY BecomesIs DEF Retold
<1> QED
  BY <1>2, <1>3, <1>4, <1>5

LEMMA DialIn ==
    ASSUME HomesHold, NEW a \in Saved
    PROVE  /\ homes[a] \in HomeStates /\ HomeHolds(homes[a], a, dials) /\ a \in Homes
           /\ DOMAIN dials = 1 .. Len(dials) /\ Len(dials) \in Nat
           /\ homes[a].dial # 0 => homes[a].dial \in DOMAIN dials /\ dials[homes[a].dial].home = a
           /\ homes[a].io # 0 => homes[a].io = homes[a].dial /\ dials[homes[a].io].at = "pumped"
BY DEF HomesHold, HomeHolds, HomeStates

LEMMA RetoldKeeps ==
    ASSUME NEW v, PhoneInv, Retold(World, v), Becomes(v), UNCHANGED <<calls, dialLog>>,
           phone'.suspended = phone.suspended, phone'.push = phone.push
    PROVE  /\ HomesHold' /\ UpHolds' /\ LastOnes' /\ EarlyHolds' /\ OthersLetGo' /\ PushDue'
           /\ LateChangesNothing' /\ BackgroundIsQuiet'
<1>1. HomesHold' /\ Saved' = Saved /\ DOMAIN dials' = DOMAIN dials
  BY RetoldIs, WorldIs DEF PhoneInv, Saved
<1>2. \A a \in Saved :
        /\ homes'[a].status = homes[a].status /\ homes'[a].generation = homes[a].generation
        /\ homes'[a].io = homes[a].io /\ homes'[a].dial = homes[a].dial
  BY RetoldIs, WorldIs DEF PhoneInv, Saved
<1>3. \A k \in DOMAIN dials :
        /\ dials'[k].home = dials[k].home /\ dials'[k].generation = dials[k].generation
        /\ dials'[k].watched = dials[k].watched /\ dials'[k].cancelled = dials[k].cancelled
        /\ dials'[k].push = dials[k].push /\ dials'[k].at = dials[k].at
        /\ dials[k].at \in Early => dials'[k].server = dials[k].server
  BY RetoldIs, WorldIs DEF PhoneInv
<1>4. \A a \in Saved : homes[a].dial # 0 => homes[a].dial \in DOMAIN dials
  BY DialIn DEF PhoneInv
<1>5. LastOnes'
  BY <1>1, <1>2, <1>3 DEF PhoneInv, LastOnes
<1>6. EarlyHolds'
  BY <1>1, <1>3 DEF PhoneInv, EarlyHolds
<1>7. OthersLetGo'
  BY <1>1, <1>2, <1>3 DEF PhoneInv, OthersLetGo
<1>8. PushDue'
  BY DialIn, <1>1, <1>2, <1>3, <1>4 DEF PhoneInv, HomeHolds, PushDue
<1>9. LateChangesNothing'
  BY <1>1, <1>2 DEF PhoneInv, LateChangesNothing
<1>10. BackgroundIsQuiet'
  BY <1>1, <1>3 DEF PhoneInv, BackgroundIsQuiet
<1>11. UpHolds'
  BY <1>1, <1>2, <1>3, <1>4 DEF PhoneInv, UpHolds
<1> QED
  BY <1>1, <1>5, <1>6, <1>7, <1>8, <1>9, <1>10, <1>11

-----------------------------------------------------------------------------
(* What an action leaves of the phone. *)

LEMMA MarksIs ==
    ASSUME NEW p \in PhoneType, PhoneTypes, Marks(p)
    PROVE  /\ phone' \in PhoneType /\ notifier' \in [asleep : BOOLEAN, told : BOOLEAN]
           /\ phone'.suspended = p.suspended /\ phone'.inactive = p.inactive /\ phone'.shown = p.shown
           /\ phone'.size = p.size /\ phone'.push = p.push /\ phone'.setting = p.setting
BY DEF Marks, Marked, PhoneType, PhoneTypes

LEMMA SpentIs ==
    ASSUME PhoneTypes, NEW act \in PhoneActs, SpendPhone(act) \/ PhoneSpendsNothing
    PROVE  phoneLeft' \in [PhoneActs -> Nat]
BY DEF SpendPhone, PhoneSpendsNothing, PhoneTypes

LEMMA OwesIs ==
    ASSUME PhoneTypes, NEW c \in Callers, NEW as \in SUBSET Homes, Owes(c, as)
    PROVE  calls' \in [Callers -> SUBSET Homes] /\ calls'[c] = as
           /\ \A d \in Callers \ {c} : calls'[d] = calls[d]
BY DEF Owes, PhoneTypes

(* What the Devices and Servers make of the phone stays so where nothing     *)
(* that they look at changes.                                               *)
LEMMA SeesTheSame ==
    ASSUME PhoneInv, Saved' = Saved,
           \A a \in Saved : /\ homes'[a].watched = homes[a].watched
                            /\ homes'[a].dial = homes[a].dial
                            /\ homes'[a].io # 0 => homes'[a].io = homes[a].io /\
                                 dials'[homes[a].io].server = dials[homes[a].io].server,
           phone'.shown = phone.shown, phone'.inactive = phone.inactive, phone'.size = phone.size
    PROVE  WatchedHolds' /\ ServersSeeThePhone'
<1>1. \A a \in Saved : ShownOf(a)' = ShownOf(a)
  BY DEF ShownOf
<1> QED
  BY <1>1 DEF PhoneInv, WatchedHolds, ServersSeeThePhone

-----------------------------------------------------------------------------
(* What one connection comes to. *)

LEMMA ThreadKeeps ==
    ASSUME PhoneInv, NEW n \in DOMAIN dials, NEW d \in DialStates, DialIs(n, d),
           UNCHANGED <<phone, homes, calls, dialLog>>,
           d.home = dials[n].home, d.generation = dials[n].generation, d.watched = dials[n].watched,
           d.cancelled = dials[n].cancelled, d.server = dials[n].server,
           d.at \in Early => dials[n].at \in Early,
           dials[n].at = "over" => d.at = "over",
           Current(n) => /\ d.at = "over" => dials[n].at = "over"
                         /\ dials[n].at = "pumped" => d.at = "pumped",
           d.push = phone.push \/ (d.push = dials[n].push /\ (dials[n].at = "spawned" => d.at = "spawned"))
    PROVE  /\ HomesHold' /\ UpHolds' /\ LastOnes' /\ WatchedHolds' /\ EarlyHolds' /\ OthersLetGo'
           /\ PushDue' /\ LateChangesNothing' /\ ServersSeeThePhone' /\ BackgroundIsQuiet'
<1>1. /\ dials' \in Seq(DialStates) /\ DOMAIN dials' = DOMAIN dials /\ Len(dials') = Len(dials)
      /\ dials'[n] = d /\ \A k \in DOMAIN dials : k # n => dials'[k] = dials[k]
  BY DEF DialIs, PhoneInv, HomesHold
<1>2. \A a \in Saved :
        /\ homes[a] \in HomeStates /\ HomeHolds(homes[a], a, dials)
        /\ homes[a].dial # 0 => homes[a].dial \in DOMAIN dials /\ dials[homes[a].dial].home = a
        /\ homes[a].io # 0 => homes[a].io = homes[a].dial /\ dials[homes[a].io].at = "pumped"
  BY DialIn DEF PhoneInv
<1>3. Saved' = Saved
  BY DEF Saved
<1>4. \A a \in Saved : homes[a].dial = n /\ homes[a].status \in Up => Current(n)
  BY <1>2 DEF PhoneInv, HomesHold, Current, UpHolds
<1>5. HomesHold'
  BY <1>1, <1>2, <1>4, <1>3 DEF HomeHolds, Up, PhoneInv, HomesHold
<1>6. UpHolds'
  BY <1>3, <1>1, <1>2 DEF UpHolds, PhoneInv, Current
<1>7. LastOnes'
  BY <1>1, <1>3 DEF PhoneInv, LastOnes
<1>8. EarlyHolds'
  BY <1>1 DEF PhoneInv, EarlyHolds
<1>9. OthersLetGo'
  BY <1>1, <1>3 DEF PhoneInv, OthersLetGo
<1>10. PushDue'
  BY <1>3, <1>2, <1>1 DEF PushDue, HomeHolds, PhoneInv
<1>11. LateChangesNothing'
  BY <1>3 DEF PhoneInv, LateChangesNothing
<1>12. WatchedHolds' /\ ServersSeeThePhone'
  BY <1>1, <1>2, <1>3, SeesTheSame
<1>13. BackgroundIsQuiet'
  BY <1>1 DEF PhoneInv, BackgroundIsQuiet
<1> QED
  BY <1>5, <1>6, <1>7, <1>8, <1>9, <1>10, <1>11, <1>12, <1>13

LEMMA SayHelloKeeps == ASSUME PhoneInv, NEW n, SayHello(n) PROVE PhoneInv'
<1>1. n \in DOMAIN dials /\ dials[n].at = "spawned" /\ dials[n] \in DialStates
  BY OneDial DEF SayHello, Dialled, PhoneInv
<1>2. PICK d : d = [dials[n] EXCEPT !.at = "dialing", !.push = phone.push]
  OBVIOUS
<1>3. /\ d \in DialStates /\ d.home = dials[n].home /\ d.generation = dials[n].generation
      /\ d.watched = dials[n].watched /\ d.cancelled = dials[n].cancelled
      /\ d.server = dials[n].server /\ d.at = "dialing" /\ d.push = phone.push
  BY <1>1, <1>2 DEF DialStates, Early, PhoneInv, PhoneTypes, PhoneType
<1>4. DialIs(n, d) /\ UNCHANGED <<phone, homes, calls, notifier, dialLog, phoneLeft>>
  BY <1>2 DEF SayHello, ThreadOnly, PhoneSpendsNothing
<1>5. PhoneTypes' /\ phone'.setting = phone.setting
  BY <1>4 DEF PhoneInv, PhoneTypes
<1> QED
  BY <1>1, <1>3, <1>4, <1>5, ThreadKeeps DEF PhoneInv, Early

LEMMA AnswersKeeps == ASSUME PhoneInv, NEW n, Answers(n) PROVE PhoneInv'
BY OneDial, ThreadKeeps DEF Answers, Dialled, PhoneInv, Outcomes, DialStates, Early, ThreadOnly,
   PhoneSpendsNothing, PhoneTypes

LEMMA ReadsKeeps == ASSUME PhoneInv, NEW n, Reads(n) PROVE PhoneInv'
<1>1. n \in DOMAIN dials /\ dials[n].at = "pumped" /\ dials[n] \in DialStates
  BY OneDial DEF Reads, Dialled, PhoneInv
<1>2. PICK what \in Says \cup {"lost"} : DialIs(n, [dials[n] EXCEPT !.heard = Append(dials[n].heard, what)])
  BY DEF Reads
<1>3. PICK d : d = [dials[n] EXCEPT !.heard = Append(dials[n].heard, what)]
  OBVIOUS
<1>4. /\ d \in DialStates /\ d.home = dials[n].home /\ d.generation = dials[n].generation
      /\ d.watched = dials[n].watched /\ d.cancelled = dials[n].cancelled
      /\ d.server = dials[n].server /\ d.at = "pumped" /\ d.push = dials[n].push
  <2>1. Append(dials[n].heard, what) \in Seq(Says \cup {"lost"})
    BY <1>1 DEF DialStates
  <2> QED
    BY <1>1, <1>3, <2>1 DEF DialStates
<1>5. DialIs(n, d) /\ UNCHANGED <<phone, homes, calls, notifier, dialLog>>
  BY <1>2, <1>3 DEF Reads
<1>6. PhoneTypes' /\ phone'.setting = phone.setting
  BY SpentIs, <1>5 DEF Reads, PhoneInv, PhoneActs, PhoneTypes
<1>7. "pumped" \notin Early
  BY DEF Early, Outcomes
<1> QED
  BY <1>1, <1>4, <1>5, <1>6, <1>7, ThreadKeeps DEF PhoneInv

(* What a Device becomes of the last connection to it.                       *)
Turns(n, a, h, d) ==
    /\ a = dials[n].home /\ dials[n].at \notin {"spawned", "over"}
    /\ h \in HomeStates /\ homes' = [homes EXCEPT ![a] = h]
    /\ d \in DialStates /\ dials' = [dials EXCEPT ![n] = d]
    /\ h.dial = n /\ homes[a].generation <= h.generation /\ h.watched = homes[a].watched
    /\ h.status \in Up <=> h.generation = homes[a].generation /\ d.at # "over"
    /\ h.io \in {0, n} /\ (h.io # 0 <=> h.status = "connected")
    /\ h.io # 0 =>
         /\ h.known /\ d.at = "pumped" /\ d.server.watched = ShownOf(a)
         /\ d.server.focus = IF phone.shown.home = a /\ ~phone.inactive THEN phone.shown.pane ELSE NoScreen
         /\ d.server.focus # NoScreen /\ phone.size # 0 => d.server.size = phone.size
    /\ d.home = a /\ d.generation = dials[n].generation /\ d.at \notin Early /\ d.push = dials[n].push
    /\ dials[n].cancelled => d.cancelled
LEMMA CurrentKeeps ==
    ASSUME PhoneInv, NEW n \in DOMAIN dials, Current(n), NEW a, NEW h, NEW d, Turns(n, a, h, d),
           Decides(n), Marks(phone), ThreadOnly
    PROVE  PhoneInv'
<1>0. /\ a = dials[n].home /\ dials[n].at \notin {"spawned", "over"}
      /\ h \in HomeStates /\ homes' = [homes EXCEPT ![a] = h]
      /\ d \in DialStates /\ dials' = [dials EXCEPT ![n] = d]
      /\ h.dial = n /\ homes[a].generation <= h.generation /\ h.watched = homes[a].watched
      /\ h.status \in Up <=> h.generation = homes[a].generation /\ d.at # "over"
      /\ h.io \in {0, n} /\ (h.io # 0 <=> h.status = "connected")
      /\ h.io # 0 =>
           /\ h.known /\ d.at = "pumped" /\ d.server.watched = ShownOf(a)
           /\ d.server.focus = IF phone.shown.home = a /\ ~phone.inactive THEN phone.shown.pane ELSE NoScreen
           /\ d.server.focus # NoScreen /\ phone.size # 0 => d.server.size = phone.size
      /\ d.home = a /\ d.generation = dials[n].generation /\ d.at \notin Early /\ d.push = dials[n].push
      /\ dials[n].cancelled => d.cancelled
  BY DEF Turns
<1>1. a \in Saved /\ homes[a].generation = dials[n].generation
  BY <1>0 DEF Current
<1>2. n \in Nat /\ n # 0 /\ homes[a].dial = n
  BY <1>0, <1>1 DEF PhoneInv, HomesHold, HomeStates, DialStates, LastOnes
<1>3. /\ DOMAIN homes' = Saved /\ homes'[a] = h /\ \A b \in Saved : b # a => homes'[b] = homes[b]
      /\ Saved' = Saved
  BY <1>0, <1>1 DEF Saved
<1>4. /\ dials' \in Seq(DialStates) /\ DOMAIN dials' = DOMAIN dials /\ Len(dials') = Len(dials)
      /\ dials'[n] = d /\ \A k \in DOMAIN dials : k # n => dials'[k] = dials[k]
  BY <1>0 DEF PhoneInv, HomesHold
<1>5. \A b \in Saved :
        /\ homes[b] \in HomeStates /\ HomeHolds(homes[b], b, dials) /\ b \in Homes
        /\ homes[b].dial # 0 => homes[b].dial \in DOMAIN dials /\ dials[homes[b].dial].home = b
        /\ homes[b].io # 0 => homes[b].io = homes[b].dial /\ dials[homes[b].io].at = "pumped"
  BY <1>0, DialIn DEF PhoneInv
<1>6. \A b \in Saved : b # a => homes[b].dial # n /\ homes[b].io # n
  BY <1>0, <1>2, <1>5
<1>7. homes[a].status \in Up
  BY <1>0, <1>1, <1>2 DEF PhoneInv, UpHolds
<1>8. /\ phone' \in PhoneType /\ notifier' \in [asleep : BOOLEAN, told : BOOLEAN]
      /\ phone'.suspended = phone.suspended /\ phone'.inactive = phone.inactive
      /\ phone'.shown = phone.shown /\ phone'.size = phone.size /\ phone'.push = phone.push
      /\ phone'.setting = phone.setting
  BY <1>0, MarksIs DEF PhoneInv, PhoneTypes
<1>9. calls' = calls /\ phoneLeft' = phoneLeft
  BY <1>0 DEF ThreadOnly, PhoneSpendsNothing
<1>10. /\ dialLog'.last = dialLog.last /\ dialLog'.hidden = dialLog.hidden
       /\ dialLog' \in [last : [Homes -> Nat], by : [Homes -> Nat], hidden : SUBSET Nat]
       /\ dialLog'.by[a] = n /\ \A b \in Homes : b # a => dialLog'.by[b] = dialLog.by[b]
  BY <1>0, <1>1, <1>5, <1>2 DEF Decides, PhoneInv, PhoneTypes
<1>11. PhoneTypes'
  BY <1>0, <1>8, <1>9, <1>10 DEF PhoneInv, PhoneTypes
<1>12. HomesHold'
  BY <1>0, <1>2, <1>4, <1>5, <1>1, <1>6, <1>3 DEF HomeHolds, PhoneInv, HomesHold
<1>13. UpHolds'
  BY <1>0, <1>1, <1>2, <1>3, <1>4, <1>5, <1>6 DEF PhoneInv, UpHolds
<1>14. LastOnes'
  <2>1. \A k \in DOMAIN dials : dials'[k].home = dials[k].home /\ dials'[k].generation = dials[k].generation
    BY <1>0, <1>4
  <2>2. \A b \in Saved : homes'[b].dial = homes[b].dial /\ homes[b].generation <= homes'[b].generation
    BY <1>0, <1>2, <1>3, <1>5 DEF HomeStates
  <2>3. \A b \in Saved : homes[b].generation \in Nat /\ homes'[b].generation \in Nat
    BY <1>0, <1>3, <1>5 DEF HomeStates
  <2>4. \A k \in DOMAIN dials : dials[k].generation \in Nat
    BY <1>0, OneDial DEF PhoneInv
  <2> QED
    BY <1>0, <1>3, <1>4, <1>10, <2>1, <2>2, <2>3, <2>4 DEF PhoneInv, LastOnes
<1>15. EarlyHolds'
  BY <1>0, <1>4 DEF PhoneInv, EarlyHolds
<1>16. OthersLetGo'
  BY <1>0, <1>1, <1>2, <1>3, <1>4, <1>6 DEF PhoneInv, OthersLetGo
<1>17. PushDue'
  BY <1>0, <1>2, <1>3, <1>4, <1>5, <1>6, <1>7, <1>8, <1>9 DEF PhoneInv, PushDue, HomeHolds
<1>18. LateChangesNothing'
  BY <1>0, <1>2, <1>3, <1>5, <1>10, <1>1 DEF PhoneInv, LateChangesNothing, LastOnes
<1>19. \A b \in Saved : ShownOf(b)' = ShownOf(b)
  BY <1>0, <1>8 DEF ShownOf
<1>20. WatchedHolds'
  BY <1>0, <1>2, <1>3, <1>19 DEF PhoneInv, WatchedHolds
<1>21. ServersSeeThePhone'
  BY <1>0, <1>2, <1>3, <1>4, <1>5, <1>6, <1>8, <1>19 DEF PhoneInv, ServersSeeThePhone
<1>22. BackgroundIsQuiet'
  BY <1>0, <1>4, <1>8, <1>10 DEF PhoneInv, BackgroundIsQuiet
<1> QED
  BY <1>0, <1>8, <1>11, <1>12, <1>13, <1>14, <1>15, <1>16, <1>17, <1>18, <1>20, <1>21, <1>22 DEF PhoneInv

(* A connection that comes late changes nothing but itself.                  *)
LEMMA LateKeeps ==
    ASSUME PhoneInv, NEW n \in DOMAIN dials, ~Current(n), NEW d \in DialStates, DialIs(n, d), homes' = homes,
           UNCHANGED <<phone, notifier, dialLog>>, ThreadOnly,
           d.home = dials[n].home, d.generation = dials[n].generation, d.watched = dials[n].watched,
           d.cancelled = dials[n].cancelled, d.server = dials[n].server, d.push = dials[n].push,
           d.at \notin Early, dials[n].at \notin {"spawned", "over"}
    PROVE  PhoneInv'
BY ThreadKeeps DEF ThreadOnly, PhoneSpendsNothing, PhoneInv, PhoneTypes

LEMMA ApplyKeeps == ASSUME PhoneInv, NEW n, Apply(n) PROVE PhoneInv'
<1>1. /\ n \in DOMAIN dials /\ dials[n].at = "pumped" /\ dials[n] \in DialStates
      /\ dials[n].heard # <<>>
  BY OneDial DEF Apply, Dialled, PhoneInv
<1>2. PICK a, what, at : a = dials[n].home /\ what = Head(dials[n].heard)
                         /\ at = IF what = "lost" THEN "over" ELSE "pumped"
  OBVIOUS
<1>3. PICK d : d = [dials[n] EXCEPT !.heard = Tail(dials[n].heard), !.at = at]
  OBVIOUS
<1>4. /\ d \in DialStates /\ d.home = a /\ d.generation = dials[n].generation
      /\ d.watched = dials[n].watched /\ d.cancelled = dials[n].cancelled
      /\ d.server = dials[n].server /\ d.at = at /\ d.push = dials[n].push
  <2>1. Tail(dials[n].heard) \in Seq(Says \cup {"lost"})
    BY <1>1 DEF DialStates
  <2> QED
    BY <1>1, <1>2, <1>3, <2>1 DEF DialStates
<1>5. at \in {"pumped", "over"} /\ at \notin Early
  BY <1>2 DEF Early, Outcomes
<1>6. PICK taken : taken = [homes |-> homes, dials |-> [dials EXCEPT ![n] = d]]
  OBVIOUS
<1>7. taken = [World EXCEPT !.dials[n] = [dials[n] EXCEPT !.heard = Tail(dials[n].heard), !.at = at]]
  BY <1>3, <1>6 DEF World
<1>8. CASE ~Current(n)
  BY <1>2, <1>7, <1>8, <1>6, <1>1, <1>4, <1>5, LateKeeps DEF Apply, Becomes, DialIs
<1>9. CASE Current(n)
  <2>1. /\ Becomes(IF what = "bootstrap" THEN taken
                   ELSE [Disconnected(taken, a) EXCEPT !.homes[a].status = "failed"])
        /\ Decides(n) /\ Marks(phone) /\ ThreadOnly
    BY <1>2, <1>7, <1>9 DEF Apply
  <2>2. a \in Saved /\ homes[a].generation = dials[n].generation
    BY <1>2, <1>9 DEF Current
  <2>3. n \in Nat /\ n # 0 /\ homes[a].dial = n /\ homes[a] \in HomeStates
    <3>1. n \in Nat /\ n # 0 /\ homes[a] \in HomeStates
      BY <1>1, <2>2 DEF PhoneInv, HomesHold
    <3>2. homes[a].generation \in Nat /\ dials[n].generation \in Nat
      BY <1>1, <3>1 DEF HomeStates, DialStates
    <3> QED
      BY <1>1, <1>2, <2>2, <3>1, <3>2 DEF PhoneInv, LastOnes
  <2>4. CASE what = "bootstrap"
    <3>1. homes' = [homes EXCEPT ![a] = homes[a]] /\ dials' = [dials EXCEPT ![n] = d]
      BY <1>6, <2>1, <2>4, <2>2 DEF Becomes, PhoneInv, HomesHold
    <3>2. at = "pumped"
      BY <1>2, <2>4
    <3>3. HomeHolds(homes[a], a, dials) /\ homes[a].generation <= homes[a].generation
      BY <2>2, <2>3 DEF PhoneInv, HomesHold, HomeStates
    <3>4. homes[a].status \in Up
      BY <1>1, <2>2, <2>3 DEF PhoneInv, UpHolds
    <3>5. homes[a].io # 0 =>
            /\ d.server.watched = ShownOf(a)
            /\ d.server.focus = IF phone.shown.home = a /\ ~phone.inactive THEN phone.shown.pane ELSE NoScreen
            /\ d.server.focus # NoScreen /\ phone.size # 0 => d.server.size = phone.size
      BY <1>4, <2>2, <2>3, <3>3 DEF HomeHolds, PhoneInv, ServersSeeThePhone
    <3>6. "pumped" # "over" /\ "pumped" \notin {"spawned", "over"}
      OBVIOUS
    <3>7. Turns(n, a, homes[a], d)
      BY <1>1, <1>2, <1>4, <1>5, <2>2, <2>3, <3>1, <3>2, <3>3, <3>4, <3>5, <3>6 DEF HomeHolds, Turns
    <3> QED
      BY <1>1, <1>9, <2>1, <3>7, CurrentKeeps
  <2>5. CASE what # "bootstrap"
    <3>1. PICK h : h = [homes[a] EXCEPT !.generation = homes[a].generation + 1, !.io = 0, !.status = "failed"]
      OBVIOUS
    <3>2. PICK e : e = [d EXCEPT !.cancelled = TRUE]
      OBVIOUS
    <3>3. /\ h \in HomeStates /\ h.dial = n /\ h.io = 0 /\ h.status = "failed"
          /\ h.watched = homes[a].watched /\ h.generation = homes[a].generation + 1
          /\ homes[a].generation <= h.generation /\ h.generation # homes[a].generation
      <4>1. h = [status |-> "failed", generation |-> homes[a].generation + 1, io |-> 0, dial |-> n,
                 known |-> homes[a].known, watched |-> homes[a].watched]
        BY <2>3, <3>1 DEF HomeStates
      <4>2. homes[a].generation \in Nat /\ homes[a].known \in BOOLEAN /\ homes[a].watched \in PaneSets
        BY <2>3 DEF HomeStates
      <4> QED
        BY <2>3, <4>1, <4>2 DEF HomeStates, Statuses
    <3>4. /\ e \in DialStates /\ e.home = a /\ e.generation = dials[n].generation /\ e.cancelled
          /\ e.at = at /\ e.push = dials[n].push
      BY <1>4, <3>2 DEF DialStates
    <3>5. homes' = [homes EXCEPT ![a] = h] /\ dials' = [dials EXCEPT ![n] = e]
      BY <1>6, <1>1, <3>2, <2>3, <2>1, <2>5, <2>2, <3>1 DEF Disconnected, Becomes, HomeStates,
         PhoneInv, HomesHold
    <3>6. "failed" \notin Up /\ "failed" # "connected"
      BY DEF Up
    <3>7. Turns(n, a, h, e)
      BY <1>1, <1>2, <1>5, <3>3, <3>4, <3>5, <3>6 DEF Turns
    <3> QED
      BY <1>1, <1>9, <2>1, <3>7, CurrentKeeps
  <2> QED
    BY <2>4, <2>5
<1> QED
  BY <1>8, <1>9

(* A world in which n is the connection of a, and x.                         *)
Put(hs, ds, n, x) == [homes |-> hs, dials |-> [ds EXCEPT ![n] = x]]
LEMMA PutTold ==
    ASSUME NEW hs, NEW ds, NEW n \in DOMAIN ds, NEW x \in DialStates, NEW a, hs[a].io = n, n # 0,
           NEW s \in ServerStates
    PROVE  /\ ServerOf(Put(hs, ds, n, x), a) = x.server
           /\ Told(Put(hs, ds, n, x), a, s) = Put(hs, ds, n, [x EXCEPT !.server = s])
BY DEF Put, ServerOf, Told

IsStarted(n, a, server) ==
    /\ Started(World, n) =
         Put([homes EXCEPT ![a] = [homes[a] EXCEPT !.io = n, !.status = "connected", !.known = TRUE]],
             dials, n, [dials[n] EXCEPT !.at = "pumped", !.server = server])
    /\ server.watched = ShownOf(a)
    /\ server.focus = IF phone.shown.home = a /\ ~phone.inactive THEN phone.shown.pane ELSE NoScreen
    /\ server.focus # NoScreen /\ phone.size # 0 => server.size = phone.size
LEMMA StartedIs ==
    ASSUME PhoneInv, NEW n \in DOMAIN dials, Current(n), dials[n].at \in Early, NEW a, a = dials[n].home,
           homes[a].dial = n, n # 0
    PROVE  \E server \in ServerStates : IsStarted(n, a, server)
<1>1. a \in Saved /\ homes[a] \in HomeStates /\ dials[n] \in DialStates
  BY OneDial DEF Current, PhoneInv, HomesHold
<1>2. PICK hs : hs = [homes EXCEPT ![a] = [homes[a] EXCEPT !.io = n, !.status = "connected", !.known = TRUE]]
  OBVIOUS
<1>3. PICK x : x = [dials[n] EXCEPT !.at = "pumped"]
  OBVIOUS
<1>4. PICK on : on = Put(hs, dials, n, x)
  OBVIOUS
<1>5. /\ hs[a].io = n /\ hs[a].known /\ hs[a].watched = homes[a].watched
      /\ on.homes = hs
  BY <1>1, <1>2, <1>4 DEF Put, HomeStates, PhoneInv, HomesHold
<1>6. /\ x \in DialStates /\ x.server = NewServer(dials[n].watched) /\ x.watched = dials[n].watched
  BY <1>1, <1>3 DEF DialStates, PhoneInv, EarlyHolds
<1>7. homes[a].watched = ShownOf(a) /\ ShownOf(a) \in PaneSets
  BY <1>1 DEF PhoneInv, WatchedHolds, HomeStates
<1>8. PICK s : s = [x.server EXCEPT !.watched = ShownOf(a)]
  OBVIOUS
<1>9. /\ s \in ServerStates /\ s.watched = ShownOf(a) /\ s.focus = NoScreen /\ s.size = 0
      /\ x.server \in ServerStates
  BY <1>6, <1>7, <1>8 DEF NewServer, ServerStates, DialStates
<1>10. PICK y : y = [x EXCEPT !.server = s]
  OBVIOUS
<1>11. y \in DialStates /\ y.server = s /\ y = [dials[n] EXCEPT !.at = "pumped", !.server = s]
  BY <1>1, <1>3, <1>6, <1>9, <1>10 DEF DialStates
<1>12. PICK told : told = IF on.homes[a].watched = dials[n].watched THEN on
                ELSE Told(on, a, [ServerOf(on, a) EXCEPT !.watched = on.homes[a].watched])
  OBVIOUS
<1>13. told = Put(hs, dials, n, y)
  <2>1. CASE on.homes[a].watched = dials[n].watched
    BY <1>5, <1>6, <1>7, <1>8, <2>1, <1>10, <1>4, <1>12 DEF NewServer, DialStates
  <2>2. CASE on.homes[a].watched # dials[n].watched
    <3>1. ServerOf(on, a) = x.server /\ Told(on, a, s) = Put(hs, dials, n, y)
      BY <1>4, <1>5, <1>6, <1>9, <1>10, PutTold
    <3> QED
      BY <1>5, <1>7, <1>8, <1>12, <2>2, <3>1
  <2> QED
    BY <2>1, <2>2
<1>14. Started(World, n) = IF phone.shown.home = a /\ ~phone.inactive
                           THEN Takes(told, a, phone.shown.pane, phone.size) ELSE told
  BY <1>2, <1>3, <1>4, WorldIs, <1>12 DEF Put, Started
<1>15. CASE ~(phone.shown.home = a /\ ~phone.inactive)
  BY <1>2, <1>9, <1>11, <1>13, <1>14, <1>15 DEF IsStarted
<1>16. CASE phone.shown.home = a /\ ~phone.inactive
  <2>1. phone.shown.pane \in Screens /\ phone.size \in Nat
    BY <1>1, <1>16, PhoneAssumption DEF PhoneInv, HomesHold, PhoneTypes, PhoneType, Shown, Hidden
  <2>2. PICK t : t = [s EXCEPT !.focus = phone.shown.pane, !.size = IF phone.size # 0 THEN phone.size ELSE s.size]
    OBVIOUS
  <2>3. /\ t \in ServerStates /\ t.watched = ShownOf(a) /\ t.focus = phone.shown.pane
        /\ phone.size # 0 => t.size = phone.size
    BY <1>9, <2>1, <2>2 DEF ServerStates
  <2>4. told.homes[a].io = n /\ told.homes[a].known
    BY <1>5, <1>13 DEF Put
  <2>5. ServerOf(told, a) = s /\ Told(told, a, t) = Put(hs, dials, n, [y EXCEPT !.server = t])
    <3>1. PICK z : z = [y EXCEPT !.server = t]
      OBVIOUS
    <3>2. hs[a].io = n /\ y \in DialStates /\ t \in ServerStates
      BY <1>5, <1>11, <2>3
    <3>3. /\ ServerOf(Put(hs, dials, n, y), a) = y.server
          /\ Told(Put(hs, dials, n, y), a, t) = Put(hs, dials, n, [y EXCEPT !.server = t])
      BY <3>2, PutTold
    <3>4. ServerOf(told, a) = y.server /\ Told(told, a, t) = Put(hs, dials, n, z)
      BY <1>13, <3>1, <3>3
    <3> QED
      BY <1>11, <3>1, <3>4
  <2>6. Takes(told, a, phone.shown.pane, phone.size) = Told(told, a, t)
    BY <2>2, <2>4, <2>5, <1>9 DEF Takes
  <2>7. [y EXCEPT !.server = t] = [dials[n] EXCEPT !.at = "pumped", !.server = t]
    BY <1>1, <1>11 DEF DialStates
  <2>8. IsStarted(n, a, t)
    BY <1>2, <1>14, <1>16, <2>3, <2>5, <2>6, <2>7 DEF IsStarted
  <2> QED
    BY <2>3, <2>8
<1> QED
  BY <1>15, <1>16

LEMMA ConnectedKeeps == ASSUME PhoneInv, NEW n, Connected(n) PROVE PhoneInv'
<1>1. /\ n \in DOMAIN dials /\ dials[n].at \in Outcomes /\ dials[n] \in DialStates
      /\ dials[n].at \in Early /\ dials[n].at \notin {"spawned", "over", "pumped"}
  BY OneDial DEF Connected, PhoneInv, Early, Outcomes
<1>2. PICK a : a = dials[n].home
  OBVIOUS
<1>3. PICK d : d = [dials[n] EXCEPT !.at = "over"]
  OBVIOUS
<1>4. /\ d \in DialStates /\ d.home = a /\ d.generation = dials[n].generation
      /\ d.watched = dials[n].watched /\ d.cancelled = dials[n].cancelled
      /\ d.server = dials[n].server /\ d.at = "over" /\ d.push = dials[n].push
  BY <1>1, <1>2, <1>3 DEF DialStates
<1>5. "over" \notin Early
  BY DEF Early, Outcomes
<1>6. PICK ended : ended = Put(homes, dials, n, d)
  OBVIOUS
<1>7. ended = [World EXCEPT !.dials[n].at = "over"]
  BY <1>3, <1>6 DEF World, Put
<1>8. CASE ~Current(n)
  BY <1>7, <1>8, <1>6, <1>1, <1>2, <1>4, <1>5, LateKeeps DEF Connected, Becomes, DialIs, Put
<1>9. CASE Current(n)
  <2>1. /\ Becomes(IF dials[n].at = "bootstrap" THEN Started(World, n)
                   ELSE [ended EXCEPT !.homes[a].status =
                                    IF dials[n].at = "refused" THEN "revoked" ELSE "failed"])
        /\ Decides(n) /\ Marks(phone) /\ ThreadOnly
    BY <1>2, <1>7, <1>9 DEF Connected
  <2>2. a \in Saved /\ homes[a].generation = dials[n].generation
    BY <1>2, <1>9 DEF Current
  <2>3. n \in Nat /\ n # 0 /\ homes[a].dial = n /\ homes[a] \in HomeStates
    <3>1. n \in Nat /\ n # 0 /\ homes[a] \in HomeStates
      BY <1>1, <2>2 DEF PhoneInv, HomesHold
    <3>2. homes[a].generation \in Nat /\ dials[n].generation \in Nat
      BY <1>1, <3>1 DEF HomeStates, DialStates
    <3> QED
      BY <1>1, <1>2, <2>2, <3>1, <3>2 DEF PhoneInv, LastOnes
  <2>4. homes[a].io = 0
    BY <1>1, <2>2, <2>3, DialIn DEF PhoneInv
  <2>5. CASE dials[n].at # "bootstrap"
    <3>1. PICK status \in {"revoked", "failed"} : Becomes([ended EXCEPT !.homes[a].status = status])
      BY <2>1, <2>5
    <3>2. PICK h : h = [homes[a] EXCEPT !.status = status]
      OBVIOUS
    <3>3. /\ h \in HomeStates /\ h.dial = n /\ h.io = 0 /\ h.status = status
          /\ h.watched = homes[a].watched /\ h.generation = homes[a].generation
          /\ homes[a].generation <= h.generation
      BY <2>3, <2>4, <3>2 DEF HomeStates, Statuses
    <3>4. homes' = [homes EXCEPT ![a] = h] /\ dials' = [dials EXCEPT ![n] = d]
      BY <1>6, <3>1, <3>2 DEF Becomes, Put
    <3>5. status \notin Up /\ status # "connected"
      BY DEF Up
    <3>6. Turns(n, a, h, d)
      BY <1>1, <1>2, <1>4, <1>5, <3>3, <3>4, <3>5 DEF Turns
    <3> QED
      BY <1>1, <1>9, <2>1, <3>6, CurrentKeeps
  <2>6. CASE dials[n].at = "bootstrap"
    <3>1. PICK server \in ServerStates : IsStarted(n, a, server)
      BY <1>1, <1>2, <1>9, <2>3, StartedIs
    <3>2. PICK h : h = [homes[a] EXCEPT !.io = n, !.status = "connected", !.known = TRUE]
      OBVIOUS
    <3>3. PICK e : e = [dials[n] EXCEPT !.at = "pumped", !.server = server]
      OBVIOUS
    <3>4. /\ h \in HomeStates /\ h.dial = n /\ h.io = n /\ h.status = "connected" /\ h.known
          /\ h.watched = homes[a].watched /\ h.generation = homes[a].generation
          /\ homes[a].generation <= h.generation
      <4>1. h = [status |-> "connected", generation |-> homes[a].generation, io |-> n, dial |-> n,
                 known |-> TRUE, watched |-> homes[a].watched]
        BY <2>3, <3>2 DEF HomeStates
      <4>2. homes[a].generation \in Nat /\ homes[a].watched \in PaneSets
        BY <2>3 DEF HomeStates
      <4> QED
        BY <2>3, <4>1, <4>2 DEF HomeStates, Statuses
    <3>5. /\ e \in DialStates /\ e.home = a /\ e.generation = dials[n].generation
          /\ e.cancelled = dials[n].cancelled /\ e.at = "pumped" /\ e.push = dials[n].push
          /\ e.server = server
      BY <1>1, <1>2, <3>3 DEF DialStates
    <3>6. homes' = [homes EXCEPT ![a] = h] /\ dials' = [dials EXCEPT ![n] = e]
      BY <2>1, <2>6, <3>1, <3>2, <3>3 DEF Becomes, Put, IsStarted
    <3>7. "connected" \in Up /\ "pumped" \notin Early
      BY DEF Up, Early, Outcomes
    <3>8. Turns(n, a, h, e)
      BY <1>1, <1>2, <2>3, <3>1, <3>4, <3>5, <3>6, <3>7 DEF Turns, IsStarted
    <3> QED
      BY <1>1, <1>9, <2>1, <3>8, CurrentKeeps
  <2> QED
    BY <2>5, <2>6
<1> QED
  BY <1>8, <1>9

-----------------------------------------------------------------------------
(* The calls of the app. *)

LEMMA PhoneOnlyKeeps ==
    ASSUME PhoneInv, UNCHANGED <<homes, dials, dialLog>>, PhoneTypes', phone'.setting = phone.setting,
           phone'.shown = phone.shown, phone'.inactive = phone.inactive, phone'.size = phone.size,
           phone'.suspended => phone.suspended, PushDue'
    PROVE  PhoneInv'
BY SeesTheSame DEF Saved, PhoneInv, HomesHold, UpHolds, LastOnes, EarlyHolds, OthersLetGo,
   LateChangesNothing, BackgroundIsQuiet

LEMMA ResumeKeeps == ASSUME PhoneInv, Resume PROVE PhoneInv'
BY OwesIs, SpentIs, PhoneOnlyKeeps DEF Resume, PhoneInv, PhoneTypes, PhoneType, Callers,
   PhoneActs, HomesHold, IdleCall, PushDue, Saved

LEMMA SetPushKeeps == ASSUME PhoneInv, SetPush PROVE PhoneInv'
<1>1. /\ UNCHANGED <<homes, dials, dialLog, notifier>> /\ phone' \in PhoneType
      /\ phone'.setting = phone.setting /\ phone'.shown = phone.shown /\ phone'.inactive = phone.inactive
      /\ phone'.size = phone.size /\ phone'.suspended = phone.suspended
  BY DEF SetPush, PhoneInv, PhoneTypes, PhoneType
<1>2. PICK as : as = {a \in Saved : homes[a].status \in Up}
  OBVIOUS
<1>3. /\ calls' \in [Callers -> SUBSET Homes] /\ calls'["main"] = as
      /\ phoneLeft' \in [PhoneActs -> Nat]
  BY <1>2, OwesIs, SpentIs DEF SetPush, PhoneInv, Callers, PhoneActs, HomesHold
<1>4. PhoneTypes'
  BY <1>1, <1>3 DEF PhoneInv, PhoneTypes
<1>5. PushDue'
  BY <1>1, <1>2, <1>3 DEF PushDue, Saved
<1> QED
  BY <1>1, <1>4, <1>5, PhoneOnlyKeeps

LEMMA NotifyKeeps == ASSUME PhoneInv, Notify \/ TakeChanges PROVE PhoneInv'
<1>1. /\ UNCHANGED <<homes, dials, dialLog, calls, phoneLeft>> /\ phone' \in PhoneType
      /\ phone'.setting = phone.setting /\ phone'.shown = phone.shown /\ phone'.inactive = phone.inactive
      /\ phone'.size = phone.size /\ phone'.suspended = phone.suspended /\ phone'.push = phone.push
      /\ notifier' \in [asleep : BOOLEAN, told : BOOLEAN]
  <2>1. phone \in PhoneType /\ notifier \in [asleep : BOOLEAN, told : BOOLEAN]
    BY DEF PhoneInv, PhoneTypes
  <2>2. CASE Notify
    BY <2>1, <2>2 DEF Notify, ThreadOnly, PhoneSpendsNothing, PhoneType
  <2>3. CASE TakeChanges
    BY <2>1, <2>3 DEF TakeChanges, ThreadOnly, PhoneSpendsNothing, PhoneType
  <2> QED
    BY <2>2, <2>3
<1>2. PhoneTypes'
  BY <1>1 DEF PhoneInv, PhoneTypes
<1>3. PushDue'
  BY <1>1 DEF PhoneInv, PushDue, Saved
<1> QED
  BY <1>1, <1>2, <1>3, PhoneOnlyKeeps

(* Every connection is let go of, so none is left that the background did not hide. *)
LEMMA SuspendKeeps == ASSUME PhoneInv, Suspend PROVE PhoneInv'
<1>1. /\ homes' = [a \in Saved |-> [homes[a] EXCEPT !.generation = homes[a].generation + 1, !.io = 0,
                                                    !.status = "suspended"]]
      /\ dials' = [n \in DOMAIN dials |->
                     [dials[n] EXCEPT !.cancelled = dials[n].cancelled \/ \E a \in Saved : homes[a].dial = n]]
      /\ UNCHANGED <<calls, dialLog>>
  BY WorldIs DEF Suspend, Becomes, AllDisconnected, Saved
<1>2. Saved' = Saved
  BY <1>1 DEF Saved
<1>3. /\ phone' \in PhoneType /\ notifier' \in [asleep : BOOLEAN, told : BOOLEAN]
      /\ phone'.inactive = phone.inactive
      /\ phone'.shown = phone.shown /\ phone'.size = phone.size /\ phone'.push = phone.push
      /\ phone'.setting = phone.setting
  <2>1. PICK p : p = [phone EXCEPT !.suspended = TRUE]
    OBVIOUS
  <2>2. /\ p \in PhoneType /\ p.inactive = phone.inactive /\ p.shown = phone.shown /\ p.size = phone.size
        /\ p.push = phone.push /\ p.setting = phone.setting /\ Marks(p)
    BY <2>1 DEF PhoneInv, PhoneTypes, PhoneType, Suspend
  <2> QED
    BY <2>2, MarksIs DEF PhoneInv
<1>4. PhoneTypes'
  BY SpentIs, <1>1, <1>3 DEF Suspend, PhoneInv, PhoneActs, PhoneTypes
<1>5. \A a \in Saved :
        /\ homes[a] \in HomeStates /\ HomeHolds(homes[a], a, dials) /\ a \in Homes
        /\ homes[a].dial # 0 => homes[a].dial \in DOMAIN dials /\ dials[homes[a].dial].home = a
  BY DialIn DEF PhoneInv
<1>6. \A a \in Saved :
        /\ homes'[a] \in HomeStates /\ homes'[a].generation = homes[a].generation + 1 /\ homes'[a].io = 0
        /\ homes'[a].status = "suspended" /\ homes'[a].dial = homes[a].dial
        /\ homes'[a].watched = homes[a].watched /\ homes[a].generation \in Nat
  <2> SUFFICES ASSUME NEW a \in Saved
               PROVE  /\ homes'[a] \in HomeStates /\ homes'[a].generation = homes[a].generation + 1
                      /\ homes'[a].io = 0 /\ homes'[a].status = "suspended" /\ homes'[a].dial = homes[a].dial
                      /\ homes'[a].watched = homes[a].watched /\ homes[a].generation \in Nat
    OBVIOUS
  <2>1. homes[a] \in HomeStates
    BY <1>5
  <2>2. homes'[a] = [status |-> "suspended", generation |-> homes[a].generation + 1, io |-> 0,
                     dial |-> homes[a].dial, known |-> homes[a].known, watched |-> homes[a].watched]
    BY <1>1, <2>1 DEF HomeStates
  <2> QED
    BY <2>1, <2>2 DEF HomeStates, Statuses
<1>7. \A n \in DOMAIN dials :
        /\ dials'[n] \in DialStates /\ dials'[n].home = dials[n].home
        /\ dials'[n].generation = dials[n].generation /\ dials'[n].watched = dials[n].watched
        /\ dials'[n].at = dials[n].at /\ dials'[n].server = dials[n].server
        /\ dials'[n].cancelled <=> dials[n].cancelled \/ \E a \in Saved : homes[a].dial = n
        /\ dials[n].generation \in Nat
  BY OneDial, <1>1 DEF PhoneInv, DialStates
<1>8. dials' \in Seq(DialStates) /\ DOMAIN dials' = DOMAIN dials /\ Len(dials') = Len(dials)
  <2>1. DOMAIN dials = 1 .. Len(dials) /\ Len(dials) \in Nat
    BY DEF PhoneInv, HomesHold
  <2>2. dials' \in [1 .. Len(dials) -> DialStates]
    BY <1>1, <1>7, <2>1
  <2> QED
    BY <2>1, <2>2
<1>9. HomesHold'
  <2>1. \A a \in Saved : HomeHolds(homes'[a], a, dials')
    BY <1>5, <1>6, <1>7, <1>8 DEF HomeHolds, Up
  <2>2. homes' \in [Saved -> HomeStates]
    BY <1>1, <1>6
  <2> QED
    BY <1>2, <1>8, <2>1, <2>2 DEF PhoneInv, HomesHold
<1>10. UpHolds' /\ PushDue' /\ LateChangesNothing' /\ ServersSeeThePhone'
  BY <1>2, <1>6, <1>5, <1>7 DEF Up, UpHolds, PhoneInv, LastOnes, PushDue, LateChangesNothing,
     ServersSeeThePhone
<1>11. LastOnes'
  <2>1. \A a \in Saved : homes'[a].dial = dialLog'.last[a]
    BY <1>1, <1>6 DEF PhoneInv, LastOnes
  <2>2. ASSUME NEW n \in DOMAIN dials, NEW a, a = dials[n].home
        PROVE  /\ n <= dialLog'.last[a]
               /\ a \in Saved => /\ dials[n].generation <= homes'[a].generation
                                 /\ n # homes'[a].dial => dials[n].generation < homes'[a].generation
    <3>1. /\ n <= dialLog.last[a]
          /\ a \in Saved => dials[n].generation <= homes[a].generation
      BY <2>2 DEF PhoneInv, LastOnes
    <3>2. dials[n].generation \in Nat /\ dialLog' = dialLog
      BY <1>1, <1>7
    <3>3. a \in Saved => homes[a].generation \in Nat /\ homes'[a].generation = homes[a].generation + 1
      BY <1>6
    <3> QED
      BY <3>1, <3>2, <3>3
  <2> QED
    BY <1>2, <1>7, <1>8, <2>1, <2>2 DEF LastOnes
<1>12. WatchedHolds'
  BY <1>3, <1>2, <1>6 DEF ShownOf, PhoneInv, WatchedHolds
<1>13. EarlyHolds'
  BY <1>7, <1>8 DEF PhoneInv, EarlyHolds
<1>14. OthersLetGo' /\ BackgroundIsQuiet'
  BY <1>2, <1>6, <1>7, <1>8 DEF PhoneInv, OthersLetGo, BackgroundIsQuiet
<1> QED
  BY <1>3, <1>4, <1>9, <1>10, <1>11, <1>12, <1>13, <1>14 DEF PhoneInv

(* An address nothing is known by comes in with nothing of an older connection. *)
LEMMA PairKeeps == ASSUME PhoneInv, NEW a \in Homes, Pair(a) PROVE PhoneInv'
<1>1. /\ a \notin Saved /\ dialLog.last[a] = 0 /\ UNCHANGED <<dials, dialLog>>
      /\ Saved' = Saved \cup {a} /\ homes'[a] = NewHome /\ \A b \in Saved : homes'[b] = homes[b]
  BY DEF Pair, Overlap, PhoneInv, Saved
<1>2. /\ phone' \in PhoneType /\ notifier' \in [asleep : BOOLEAN, told : BOOLEAN]
      /\ phone'.suspended = phone.suspended /\ phone'.inactive = phone.inactive
      /\ phone'.shown = phone.shown /\ phone'.size = phone.size /\ phone'.push = phone.push
      /\ phone'.setting = phone.setting
  BY MarksIs DEF Pair, PhoneInv, PhoneTypes
<1>3. /\ calls' \in [Callers -> SUBSET Homes] /\ calls'["main"] = calls["main"]
      /\ phoneLeft' \in [PhoneActs -> Nat]
  BY OwesIs, SpentIs DEF Pair, PhoneInv, Callers, PhoneActs
<1>4. PhoneTypes'
  BY <1>1, <1>2, <1>3 DEF PhoneInv, PhoneTypes
<1>5. /\ NewHome \in HomeStates /\ NewHome.dial = 0 /\ NewHome.io = 0 /\ NewHome.status = "suspended"
      /\ NewHome.generation = 0 /\ NewHome.watched = Unwatched /\ "suspended" \notin Up
  BY DEF NewHome, HomeStates, Statuses, Unwatched, PaneSets, Up
<1>6. HomesHold'
  BY <1>5, <1>1 DEF HomeHolds, PhoneInv, HomesHold, Pair, Overlap, Saved
<1>7. UpHolds' /\ PushDue' /\ LateChangesNothing'
  BY <1>1, <1>2, <1>3, <1>5 DEF PhoneInv, UpHolds, PushDue, LateChangesNothing
<1>8. LastOnes'
  BY <1>1, <1>5 DEF PhoneInv, HomesHold, LastOnes
<1>9. \A b \in Homes : ShownOf(b)' = ShownOf(b)
  BY <1>2 DEF ShownOf
<1>10. WatchedHolds'
  BY <1>1, <1>5, <1>9, DialIn DEF PhoneInv, WatchedHolds
<1>11. ServersSeeThePhone'
  BY <1>1, <1>2, <1>5, <1>9, DialIn DEF PhoneInv, ServersSeeThePhone
<1>12. EarlyHolds' /\ OthersLetGo' /\ BackgroundIsQuiet'
  BY <1>1, <1>2 DEF PhoneInv, EarlyHolds, OthersLetGo, BackgroundIsQuiet
<1> QED
  BY <1>2, <1>4, <1>6, <1>7, <1>8, <1>10, <1>11, <1>12 DEF PhoneInv

Cut(a, w) ==
    /\ w.homes = [homes EXCEPT ![a] = [homes[a] EXCEPT !.generation = homes[a].generation + 1, !.io = 0]]
    /\ w.dials \in Seq(DialStates) /\ DOMAIN w.dials = DOMAIN dials /\ Len(w.dials) = Len(dials)
    /\ \A k \in DOMAIN dials :
         /\ w.dials[k].home = dials[k].home /\ w.dials[k].generation = dials[k].generation
         /\ w.dials[k].watched = dials[k].watched /\ w.dials[k].push = dials[k].push
         /\ w.dials[k].at = dials[k].at /\ w.dials[k].server = dials[k].server
         /\ w.dials[k].cancelled <=> dials[k].cancelled \/ k = homes[a].dial
LEMMA DisconnectedIs ==
    ASSUME HomesHold, NEW a \in Saved, NEW w, w = Disconnected(World, a)
    PROVE  Cut(a, w)
<1>1. /\ w.homes = [homes EXCEPT ![a] = [homes[a] EXCEPT !.generation = homes[a].generation + 1, !.io = 0]]
      /\ w.dials = IF homes[a].dial = 0 THEN dials ELSE [dials EXCEPT ![homes[a].dial].cancelled = TRUE]
  BY WorldIs DEF Disconnected
<1>2. /\ \A k \in DOMAIN dials : dials[k] \in DialStates /\ k # 0
      /\ homes[a].dial # 0 => homes[a].dial \in DOMAIN dials
  BY DialIn DEF HomesHold
<1>3. CASE homes[a].dial = 0
  BY <1>1, <1>2, <1>3 DEF HomesHold, Cut
<1>4. CASE homes[a].dial # 0
  <2>1. PICK n, x : n = homes[a].dial /\ x = [dials[n] EXCEPT !.cancelled = TRUE]
    OBVIOUS
  <2>2. /\ n \in DOMAIN dials /\ x \in DialStates
        /\ x.home = dials[n].home /\ x.generation = dials[n].generation
        /\ x.watched = dials[n].watched /\ x.push = dials[n].push
        /\ x.at = dials[n].at /\ x.server = dials[n].server /\ x.cancelled
    BY <1>2, <1>4, <2>1 DEF DialStates
  <2>3. w.dials = [dials EXCEPT ![n] = x]
    BY <1>1, <1>4, <2>1
  <2>4. /\ w.dials \in Seq(DialStates) /\ DOMAIN w.dials = DOMAIN dials /\ Len(w.dials) = Len(dials)
        /\ w.dials[n] = x /\ \A k \in DOMAIN dials : k # n => w.dials[k] = dials[k]
    BY <2>2, <2>3 DEF HomesHold
  <2> QED
    BY <1>1, <2>1, <2>2, <2>4 DEF Cut
<1> QED
  BY <1>3, <1>4

LEMMA ForgetKeeps == ASSUME PhoneInv, NEW a \in Homes, Forget(a) PROVE PhoneInv'
<1>1. PICK w : w = Disconnected(World, a)
  OBVIOUS
<1>2. /\ a \in Saved /\ homes' = [b \in Saved \ {a} |-> w.homes[b]] /\ dials' = w.dials
      /\ Marks(IF phone.shown.home = a THEN [phone EXCEPT !.shown = Hidden] ELSE phone)
      /\ UNCHANGED <<calls, dialLog>> /\ SpendPhone("forgets")
  BY <1>1 DEF Forget
<1>3. /\ w.homes = [homes EXCEPT ![a] = [homes[a] EXCEPT !.generation = homes[a].generation + 1, !.io = 0]]
      /\ dials' \in Seq(DialStates) /\ DOMAIN dials' = DOMAIN dials /\ Len(dials') = Len(dials)
      /\ \A k \in DOMAIN dials :
           /\ dials'[k].home = dials[k].home /\ dials'[k].generation = dials[k].generation
           /\ dials'[k].watched = dials[k].watched /\ dials'[k].push = dials[k].push
           /\ dials'[k].at = dials[k].at /\ dials'[k].server = dials[k].server
           /\ dials'[k].cancelled <=> dials[k].cancelled \/ k = homes[a].dial
  <2>1. Cut(a, w)
    BY <1>1, <1>2, DisconnectedIs DEF PhoneInv
  <2> QED
    BY <1>2, <2>1 DEF Cut
<1>4. Saved' = Saved \ {a} /\ \A b \in Saved \ {a} : homes'[b] = homes[b]
  BY <1>2, <1>3 DEF Saved
<1>5. /\ phone' \in PhoneType /\ notifier' \in [asleep : BOOLEAN, told : BOOLEAN]
      /\ phone'.suspended = phone.suspended /\ phone'.inactive = phone.inactive
      /\ phone'.shown = (IF phone.shown.home = a THEN Hidden ELSE phone.shown)
      /\ phone'.size = phone.size /\ phone'.push = phone.push /\ phone'.setting = phone.setting
  BY <1>2, MarksIs DEF PhoneInv, PhoneTypes, PhoneType, Shown
<1>6. PhoneTypes'
  BY <1>2, SpentIs, <1>5 DEF PhoneInv, PhoneActs, PhoneTypes
<1>7. \A b \in Saved :
        /\ homes[b] \in HomeStates /\ HomeHolds(homes[b], b, dials) /\ b \in Homes
        /\ homes[b].dial # 0 => homes[b].dial \in DOMAIN dials /\ dials[homes[b].dial].home = b
        /\ homes[b].io # 0 => homes[b].io = homes[b].dial
  BY DialIn DEF PhoneInv
<1>8. HomesHold'
  BY <1>3, <1>7, <1>2, <1>4 DEF HomeHolds, PhoneInv, HomesHold
<1>9. UpHolds' /\ LateChangesNothing'
  BY <1>2, <1>3, <1>4, <1>7 DEF PhoneInv, UpHolds, LateChangesNothing
<1>10. PushDue'
  BY <1>2, <1>3, <1>4, <1>5, <1>7 DEF PhoneInv, PushDue, HomeHolds
<1>11. LastOnes'
  BY <1>2, <1>3, <1>4 DEF PhoneInv, LastOnes
<1>12. \A b \in Saved \ {a} : ShownOf(b)' = ShownOf(b)
  BY <1>5, <1>7, PhoneAssumption DEF ShownOf, Hidden
<1>13. WatchedHolds'
  BY <1>4, <1>12 DEF PhoneInv, WatchedHolds
<1>14. ServersSeeThePhone'
  BY <1>4, <1>3, <1>7, <1>5, PhoneAssumption, <1>12 DEF ServersSeeThePhone, Hidden, PhoneInv
<1>15. EarlyHolds'
  BY <1>3 DEF PhoneInv, EarlyHolds
<1>16. OthersLetGo'
  BY <1>3, <1>4, <1>7 DEF PhoneInv, OthersLetGo
<1>17. BackgroundIsQuiet'
  BY <1>2, <1>3, <1>5 DEF PhoneInv, BackgroundIsQuiet
<1> QED
  BY <1>5, <1>6, <1>8, <1>9, <1>10, <1>11, <1>13, <1>14, <1>15, <1>16, <1>17 DEF PhoneInv

LEMMA ConnectHomeKeeps == ASSUME PhoneInv, NEW c \in Callers, NEW a \in Homes, ConnectHome(c, a) PROVE PhoneInv'
<1>1. /\ calls' \in [Callers -> SUBSET Homes] /\ \A b \in Homes : b # a /\ b \in calls["main"] => b \in calls'["main"]
      /\ phoneLeft' = phoneLeft
  BY OwesIs DEF ConnectHome, PhoneInv, PhoneTypes, PhoneSpendsNothing, Callers
<1>2. CASE a \notin Saved
  <2>1. UNCHANGED <<phone, homes, dials, notifier, dialLog>>
    BY <1>2 DEF ConnectHome
  <2>2. PhoneTypes'
    BY <1>1, <2>1 DEF PhoneInv, PhoneTypes
  <2>3. PushDue'
    BY <1>1, <1>2, <2>1, DialIn DEF PhoneInv, PushDue, Saved
  <2> QED
    BY <2>1, <2>2, <2>3, PhoneOnlyKeeps
<1>3. CASE a \in Saved
  <2>1. PICK w, n, panes : w = Disconnected(World, a) /\ n = Len(dials) + 1 /\ panes = ShownOf(a)
    OBVIOUS
  <2>2. PICK h : h = [homes[a] EXCEPT !.generation = homes[a].generation + 1, !.io = 0,
                                       !.status = "connecting", !.dial = n, !.watched = panes]
    OBVIOUS
  <2>3. PICK d : d = [home |-> a, generation |-> homes[a].generation + 1, watched |-> panes,
                      cancelled |-> FALSE, push |-> FALSE, at |-> "spawned", heard |-> <<>>,
                      server |-> NewServer(panes)]
    OBVIOUS
  <2>4. /\ homes[a] \in HomeStates /\ homes[a].generation \in Nat /\ n \in Nat \ {0} /\ n \notin DOMAIN dials
        /\ DOMAIN dials = 1 .. Len(dials) /\ Len(dials) \in Nat
    BY <1>3, <2>1 DEF PhoneInv, HomesHold, HomeStates
  <2>5. panes \in PaneSets
    BY <1>3, <2>1, PhoneAssumption DEF ShownOf, PhoneInv, PhoneTypes, PhoneType, Shown, Hidden, PaneSets
  <2>6. /\ h \in HomeStates /\ h.dial = n /\ h.io = 0 /\ h.status = "connecting" /\ h.watched = panes
        /\ h.generation = homes[a].generation + 1
    <3>1. h = [status |-> "connecting", generation |-> homes[a].generation + 1, io |-> 0, dial |-> n,
               known |-> homes[a].known, watched |-> panes]
      BY <2>2, <2>4 DEF HomeStates
    <3>2. homes[a].known \in BOOLEAN
      BY <2>4 DEF HomeStates
    <3> QED
      BY <2>4, <2>5, <3>1, <3>2 DEF HomeStates, Statuses
  <2>7. /\ d \in DialStates /\ d.home = a /\ d.generation = homes[a].generation + 1 /\ d.watched = panes
        /\ d.at = "spawned" /\ d.server = NewServer(panes)
    BY <2>3, <2>4, <2>5 DEF DialStates, NewServer, ServerStates, Early
  <2>8. /\ w.homes = [homes EXCEPT ![a] = [homes[a] EXCEPT !.generation = homes[a].generation + 1, !.io = 0]]
        /\ w.dials \in Seq(DialStates) /\ DOMAIN w.dials = DOMAIN dials /\ Len(w.dials) = Len(dials)
        /\ \A k \in DOMAIN dials :
             /\ w.dials[k].home = dials[k].home /\ w.dials[k].generation = dials[k].generation
             /\ w.dials[k].watched = dials[k].watched /\ w.dials[k].push = dials[k].push
             /\ w.dials[k].at = dials[k].at /\ w.dials[k].server = dials[k].server
             /\ w.dials[k].cancelled <=> dials[k].cancelled \/ k = homes[a].dial
    <3>1. Cut(a, w)
      BY <1>3, <2>1, DisconnectedIs DEF PhoneInv
    <3> QED
      BY <3>1 DEF Cut
  <2>9. w.homes[a] = [homes[a] EXCEPT !.generation = homes[a].generation + 1, !.io = 0]
    BY <1>3, <2>8 DEF Saved
  <2>10. /\ homes' = [w.homes EXCEPT ![a] = [w.homes[a] EXCEPT !.status = "connecting", !.dial = n, !.watched = panes]]
         /\ dials' = Append(w.dials, [home |-> a, generation |-> w.homes[a].generation, watched |-> panes,
                      cancelled |-> FALSE, push |-> FALSE, at |-> "spawned", heard |-> <<>>,
                      server |-> [watched |-> panes, focus |-> NoScreen, size |-> 0]])
         /\ dialLog' = [dialLog EXCEPT !.last = [dialLog.last EXCEPT ![a] = n],
                                       !.hidden = IF phone.suspended THEN dialLog.hidden \cup {n} ELSE dialLog.hidden]
         /\ Marks(phone)
    BY <1>3, <2>1 DEF ConnectHome
  <2>11. homes' = [homes EXCEPT ![a] = h] /\ dials' = Append(w.dials, d)
    BY <2>2, <2>4, <2>9, <2>8, <2>3, <2>10 DEF HomeStates, NewServer
  <2>12. Saved' = Saved /\ homes'[a] = h /\ \A b \in Saved : b # a => homes'[b] = homes[b]
    BY <1>3, <2>11 DEF Saved
  <2>13. /\ dials' \in Seq(DialStates) /\ DOMAIN dials' = DOMAIN dials \cup {n} /\ Len(dials') = n
         /\ dials'[n] = d /\ \A k \in DOMAIN dials : dials'[k] = w.dials[k]
    BY <2>1, <2>4, <2>7, <2>8, <2>11
  <2>14. \A k \in DOMAIN dials :
           /\ dials'[k].home = dials[k].home /\ dials'[k].generation = dials[k].generation
           /\ dials'[k].watched = dials[k].watched /\ dials'[k].push = dials[k].push
           /\ dials'[k].at = dials[k].at /\ dials'[k].server = dials[k].server
           /\ dials'[k].cancelled <=> dials[k].cancelled \/ k = homes[a].dial
    BY <2>8, <2>13
  <2>15. /\ phone' \in PhoneType /\ notifier' \in [asleep : BOOLEAN, told : BOOLEAN]
         /\ phone'.suspended = phone.suspended /\ phone'.inactive = phone.inactive
         /\ phone'.shown = phone.shown /\ phone'.size = phone.size /\ phone'.push = phone.push
         /\ phone'.setting = phone.setting
    BY <2>10, MarksIs DEF PhoneInv, PhoneTypes
  <2>16. /\ dialLog' \in [last : [Homes -> Nat], by : [Homes -> Nat], hidden : SUBSET Nat]
         /\ dialLog'.last[a] = n /\ \A b \in Homes : b # a => dialLog'.last[b] = dialLog.last[b]
         /\ dialLog'.by = dialLog.by /\ dialLog.hidden \subseteq dialLog'.hidden
         /\ phone.suspended => n \in dialLog'.hidden
    BY <2>4, <2>10 DEF PhoneInv, PhoneTypes
  <2>17. PhoneTypes'
    BY <1>1, <2>15, <2>16 DEF PhoneInv, PhoneTypes
  <2>18. \A b \in Saved :
           /\ homes[b] \in HomeStates /\ HomeHolds(homes[b], b, dials) /\ b \in Homes
           /\ homes[b].dial # 0 => homes[b].dial \in DOMAIN dials /\ dials[homes[b].dial].home = b
           /\ homes[b].io # 0 => homes[b].io = homes[b].dial
    BY DialIn DEF PhoneInv
  <2>19. HomesHold'
    <3>1. HomeHolds(h, a, dials')
      BY <2>4, <2>6, <2>7, <2>13 DEF HomeHolds
    <3>2. ASSUME NEW b \in Saved, b # a
          PROVE  HomeHolds(homes[b], b, dials')
      BY <3>2, <2>1, <2>4, <2>13, <2>14, <2>18 DEF HomeHolds
    <3>3. homes' \in [Saved -> HomeStates]
      BY <2>6, <2>11 DEF PhoneInv, HomesHold
    <3> QED
      BY <2>12, <2>13, <3>1, <3>2, <3>3 DEF PhoneInv, HomesHold
  <2>20. UpHolds'
    BY <2>4, <2>6, <2>7, <2>12, <2>13, <2>14, <2>18 DEF Up, PhoneInv, UpHolds
  <2>21. LastOnes'
    <3>1. ASSUME NEW b \in Saved PROVE homes'[b].dial = dialLog'.last[b]
      BY <2>6, <2>12, <2>16, <2>18 DEF PhoneInv, LastOnes
    <3>2. ASSUME NEW k \in DOMAIN dials
          PROVE  LET b == dials[k].home IN
                 /\ k <= dialLog'.last[b]
                 /\ b \in Saved => /\ dials[k].generation <= homes'[b].generation
                                   /\ k # homes'[b].dial => dials[k].generation < homes'[b].generation
      <4>1. k \in Nat /\ k < n /\ dials[k].home \in Homes /\ dials[k].generation \in Nat
        BY <2>1, <2>4, OneDial DEF PhoneInv
      <4>2. CASE dials[k].home = a
        BY <1>3, <4>2, <2>4, <2>6, <2>12, <2>16, <4>1 DEF PhoneInv, LastOnes
      <4>3. CASE dials[k].home # a
        BY <2>12, <2>16, <4>1, <4>3 DEF PhoneInv, LastOnes
      <4> QED
        BY <4>2, <4>3
    <3>3. /\ n <= dialLog'.last[a] /\ d.generation <= homes'[a].generation /\ n = homes'[a].dial
      BY <2>4, <2>6, <2>7, <2>12, <2>16
    <3> QED
      BY <2>7, <2>12, <2>13, <2>14, <3>1, <3>2, <3>3 DEF LastOnes
  <2>22. \A b \in Saved : ShownOf(b)' = ShownOf(b)
    BY <2>15 DEF ShownOf
  <2>23. WatchedHolds'
    BY <2>1, <2>6, <2>12, <2>22 DEF PhoneInv, WatchedHolds
  <2>24. EarlyHolds'
    BY <2>7, <2>13, <2>14 DEF PhoneInv, EarlyHolds
  <2>25. OthersLetGo'
    BY <1>3, <2>6, <2>7, <2>12, <2>13, <2>14 DEF PhoneInv, OthersLetGo
  <2>26. PushDue'
    BY <1>1, <2>6, <2>7, <2>12, <2>13, <2>14, <2>15, <2>18 DEF PhoneInv, PushDue, HomeHolds
  <2>27. LateChangesNothing'
    BY <2>6, <2>12, <2>16, <2>18 DEF PhoneInv, LateChangesNothing
  <2>28. ServersSeeThePhone'
    BY <2>6, <2>12, <2>14, <2>15, <2>18, <2>22 DEF PhoneInv, ServersSeeThePhone
  <2>29. BackgroundIsQuiet'
    BY <2>13, <2>14, <2>15, <2>16 DEF PhoneInv, BackgroundIsQuiet
  <2> QED
    BY <2>15, <2>17, <2>19, <2>20, <2>21, <2>23, <2>24, <2>25, <2>26, <2>27, <2>28, <2>29 DEF PhoneInv
<1> QED
  BY <1>2, <1>3

(* A Pane is shown or left: what the two Servers and the phone are told.     *)
LEMMA IoWatched ==
    ASSUME PhoneInv, NEW a \in Saved, homes[a].io # 0
    PROVE  ServerOf(World, a).watched = ShownOf(a) /\ homes[a].watched = ShownOf(a)
           /\ ServerOf(World, a) = dials[homes[a].io].server
BY DialIn, WorldIs DEF PhoneInv, ServersSeeThePhone, WatchedHolds, ServerOf

LEMMA ServersAfter ==
    ASSUME NEW v, PhoneInv, Retold(World, v), Becomes(v)
    PROVE  /\ Saved' = Saved
           /\ \A a \in Saved : /\ homes'[a].io = homes[a].io /\ homes'[a].dial = homes[a].dial
                               /\ homes'[a].watched = v.homes[a].watched
                               /\ homes[a].io # 0 => dials'[homes'[a].io].server = ServerOf(v, a)
BY RetoldIs, WorldIs DEF Becomes, ServerOf, PhoneInv, Saved

LEMMA SetActiveKeeps == ASSUME PhoneInv, SetActive PROVE PhoneInv'
<1>1. PICK s, v : /\ s = phone.shown
                  /\ v = IF s.home \notin Saved THEN World
                         ELSE IF phone.inactive THEN Takes(World, s.home, s.pane, phone.size)
                         ELSE Gives(World, s.home, s.pane)
  OBVIOUS
<1>2. /\ Becomes(v) /\ phone' = [phone EXCEPT !.inactive = ~phone.inactive]
      /\ UNCHANGED <<calls, notifier, dialLog>> /\ SpendPhone("turns")
  BY <1>1 DEF SetActive
<1>3. /\ phone' \in PhoneType /\ phone'.suspended = phone.suspended /\ phone'.inactive = ~phone.inactive
      /\ phone'.shown = phone.shown /\ phone'.size = phone.size /\ phone'.push = phone.push
      /\ phone'.setting = phone.setting
  BY <1>2 DEF PhoneInv, PhoneTypes, PhoneType
<1>4. PhoneTypes'
  BY <1>2, SpentIs, <1>3 DEF PhoneInv, PhoneActs, PhoneTypes
<1>5. WorldHolds(World) /\ World.homes = homes
  BY WorldIs DEF PhoneInv
<1>6. phone.size \in Nat /\ s.home \in Saved => s.pane \in Screens
  BY <1>1, PhoneAssumption DEF PhoneInv, PhoneTypes, PhoneType, HomesHold, Shown, Hidden
<1>7. phone.size \in Nat
  BY DEF PhoneInv, PhoneTypes, PhoneType
<1>8. Retold(World, v) /\ v.homes = homes
  BY <1>1, <1>5, RetoldSame, <1>6, <1>7, TakesIs, GivesIs DEF Saved
<1>9. /\ HomesHold' /\ UpHolds' /\ LastOnes' /\ EarlyHolds' /\ OthersLetGo' /\ PushDue'
      /\ LateChangesNothing' /\ BackgroundIsQuiet'
  BY <1>2, <1>3, <1>8, RetoldKeeps
<1>10. /\ Saved' = Saved
       /\ \A a \in Saved : /\ homes'[a].io = homes[a].io /\ homes'[a].dial = homes[a].dial
                           /\ homes'[a].watched = homes[a].watched
                           /\ homes[a].io # 0 => dials'[homes'[a].io].server = ServerOf(v, a)
  BY <1>2, <1>8, ServersAfter
<1>11. \A a \in Saved : ShownOf(a)' = ShownOf(a)
  BY <1>3 DEF ShownOf
<1>12. WatchedHolds'
  BY <1>10, <1>11 DEF PhoneInv, WatchedHolds
<1>13. ASSUME NEW a \in Saved, homes[a].io # 0
       PROVE  /\ ServerOf(v, a).watched = ShownOf(a)
              /\ ServerOf(v, a).focus = IF s.home = a /\ phone.inactive THEN s.pane ELSE NoScreen
              /\ ServerOf(v, a).focus # NoScreen /\ phone.size # 0 => ServerOf(v, a).size = phone.size
  <2>1. /\ ServerOf(World, a).watched = ShownOf(a) /\ ServerOf(World, a) \in ServerStates
        /\ ServerOf(World, a).focus = IF s.home = a /\ ~phone.inactive THEN s.pane ELSE NoScreen
        /\ ServerOf(World, a).focus # NoScreen /\ phone.size # 0 => ServerOf(World, a).size = phone.size
    BY <1>1, <1>5, <1>13, IoWatched, IoIs DEF PhoneInv, ServersSeeThePhone, Saved
  <2>2. CASE s.home # a
    <3>1. ServerOf(v, a) = ServerOf(World, a)
      BY <1>1, <1>5, <1>6, <1>7, <1>13, <2>2, TakesIs, GivesIs DEF Saved
    <3> QED
      BY <2>1, <2>2, <3>1
  <2>3. CASE s.home = a /\ phone.inactive
    <3>1. ServerOf(v, a) = FocusOn(ServerOf(World, a), s.pane, phone.size)
      BY <1>1, <1>5, <1>6, <1>7, <1>13, <2>3, TakesIs DEF Saved
    <3> QED
      BY <2>1, <2>3, <3>1 DEF ServerStates, FocusOn
  <2>4. CASE s.home = a /\ ~phone.inactive
    BY <1>1, <1>5, <1>13, <2>4, GivesIs, <2>1 DEF Saved, ServerStates
  <2> QED
    BY <2>2, <2>3, <2>4
<1>14. ServersSeeThePhone'
  BY <1>10, <1>13, <1>1, <1>3, <1>11 DEF ServersSeeThePhone, PhoneType, PhoneInv, PhoneTypes
<1> QED
  BY <1>3, <1>4, <1>9, <1>12, <1>14 DEF PhoneInv

(* What leaving a Pane for another makes of the worlds.                      *)
LEMMA LeftIs ==
    ASSUME PhoneInv, NEW next \in Shown, NEW old, old = phone.shown,
           NEW left, left = IF old # next /\ old.home \in Saved
                            THEN Watches(Gives(World, old.home, old.pane), old.home, {}) ELSE World
    PROVE  /\ Retold(World, left)
           /\ \A a \in Saved :
                /\ left.homes[a].watched = IF a = old.home /\ old # next THEN {} ELSE homes[a].watched
                /\ homes[a].io # 0 =>
                     /\ ServerOf(left, a) \in ServerStates
                     /\ ServerOf(left, a).watched = left.homes[a].watched
                     /\ a = old.home /\ old # next => ServerOf(left, a).focus = NoScreen
                     /\ ~(a = old.home /\ old # next) => ServerOf(left, a) = ServerOf(World, a)
<1>1. WorldHolds(World) /\ World.homes = homes /\ DOMAIN World.homes = Saved
  BY WorldIs DEF PhoneInv, Saved
<1>2. ASSUME NEW a \in Saved, homes[a].io # 0
      PROVE  /\ ServerOf(World, a).watched = homes[a].watched /\ ServerOf(World, a) \in ServerStates
             /\ ServerOf(World, a).focus = IF old.home = a /\ ~phone.inactive THEN old.pane ELSE NoScreen
  BY <1>1, <1>2, IoWatched, IoIs DEF PhoneInv, ServersSeeThePhone
<1>3. CASE ~(old # next /\ old.home \in Saved)
  BY <1>1, <1>2, <1>3, RetoldSame
<1>4. CASE old # next /\ old.home \in Saved
  <2>1. PICK o, gone : o = old.home /\ gone = Gives(World, o, old.pane)
    OBVIOUS
  <2>2. /\ Retold(World, gone) /\ gone.homes = homes
        /\ homes[o].io # 0 =>
             ServerOf(gone, o) = [ServerOf(World, o) EXCEPT !.focus = IF ServerOf(World, o).focus = old.pane THEN NoScreen
                                                                      ELSE ServerOf(World, o).focus]
        /\ \A b \in Saved : b # o /\ homes[b].io # 0 => ServerOf(gone, b) = ServerOf(World, b)
    BY <1>1, <1>4, <2>1, GivesIs
  <2>3. homes[o].io # 0 => /\ ServerOf(gone, o).focus = NoScreen /\ ServerOf(gone, o) \in ServerStates
                           /\ ServerOf(gone, o).watched = homes[o].watched
    BY <1>2, <1>4, <2>1, <2>2 DEF ServerStates
  <2>4. WorldHolds(gone) /\ DOMAIN gone.homes = Saved /\ {} \in PaneSets
    BY <2>2 DEF Retold, PaneSets, Saved
  <2>5. /\ Retold(gone, left) /\ left.homes[o].watched = {}
        /\ homes[o].io # 0 => ServerOf(left, o) = WatchingOf(ServerOf(gone, o), {})
        /\ \A b \in Saved : b # o =>
             left.homes[b] = homes[b] /\ (homes[b].io # 0 => ServerOf(left, b) = ServerOf(gone, b))
    BY <1>4, <2>1, <2>2, <2>3, <2>4, WatchesIs
  <2>6. Retold(World, left)
    BY <1>1, <2>2, <2>5, RetoldTwice
  <2>7. homes[o].io # 0 => /\ ServerOf(left, o) \in ServerStates /\ ServerOf(left, o).watched = {}
                           /\ ServerOf(left, o).focus = NoScreen
    BY <2>3, <2>4, <2>5 DEF ServerStates, WatchingOf
  <2>8. \A b \in Saved : b # o /\ homes[b].io # 0 =>
          ServerOf(left, b) = ServerOf(World, b) /\ ServerOf(World, b).watched = homes[b].watched
          /\ ServerOf(World, b) \in ServerStates
    BY <1>2, <2>2, <2>5
  <2>10. ASSUME NEW a \in Saved
         PROVE  /\ left.homes[a].watched = IF a = old.home /\ old # next THEN {} ELSE homes[a].watched
                /\ homes[a].io # 0 =>
                     /\ ServerOf(left, a) \in ServerStates
                     /\ ServerOf(left, a).watched = left.homes[a].watched
                     /\ a = old.home /\ old # next => ServerOf(left, a).focus = NoScreen
                     /\ ~(a = old.home /\ old # next) => ServerOf(left, a) = ServerOf(World, a)
    BY <1>4, <2>1, <2>5, <2>7, <2>8
  <2> QED
    BY <2>6, <2>10
<1> QED
  BY <1>3, <1>4

LEMMA ShowPaneKeeps ==
    ASSUME PhoneInv, NEW next \in Shown, NEW size \in Nat, ShowPane(next, size)
    PROVE  PhoneInv'
<1>1. PICK old, kept : /\ old = phone.shown
                       /\ kept = IF size # 0 \/ old # next THEN size ELSE phone.size
  OBVIOUS
<1>2. PICK left : left = IF old # next /\ old.home \in Saved
                         THEN Watches(Gives(World, old.home, old.pane), old.home, {}) ELSE World
  OBVIOUS
<1>3. PICK watched : watched = IF next.home \in Saved THEN Watches(left, next.home, {next.pane}) ELSE left
  OBVIOUS
<1>4. PICK v : v = IF next.home \in Saved /\ ~phone.inactive
                   THEN Takes(watched, next.home, next.pane, kept) ELSE watched
  OBVIOUS
<1>5. PICK p : p = [phone EXCEPT !.shown = next, !.size = kept]
  OBVIOUS
<1>6. /\ Becomes(v) /\ UNCHANGED <<calls, dialLog>> /\ SpendPhone("shows")
      /\ IF next.home \in Saved THEN Marks(p) ELSE phone' = p /\ UNCHANGED notifier
  BY <1>1, <1>2, <1>3, <1>4, <1>5 DEF ShowPane
<1>7. kept \in Nat
  BY <1>1 DEF PhoneInv, PhoneTypes, PhoneType
<1>8. /\ p \in PhoneType /\ p.suspended = phone.suspended /\ p.inactive = phone.inactive /\ p.shown = next
      /\ p.size = kept /\ p.push = phone.push /\ p.setting = phone.setting
  BY <1>5, <1>7 DEF PhoneInv, PhoneTypes, PhoneType
<1>9. /\ phone' \in PhoneType /\ notifier' \in [asleep : BOOLEAN, told : BOOLEAN]
      /\ phone'.suspended = phone.suspended /\ phone'.inactive = phone.inactive /\ phone'.shown = next
      /\ phone'.size = kept /\ phone'.push = phone.push /\ phone'.setting = phone.setting
  BY <1>6, <1>8, MarksIs DEF PhoneInv, PhoneTypes
<1>10. PhoneTypes'
  BY <1>6, SpentIs, <1>9 DEF PhoneInv, PhoneActs, PhoneTypes
<1>11. WorldHolds(World) /\ World.homes = homes /\ DOMAIN World.homes = Saved
  BY WorldIs DEF PhoneInv, Saved
<1>12. next.home \in Saved => next.pane \in Screens /\ {next.pane} \in PaneSets
  BY PhoneAssumption DEF Shown, Hidden, PhoneInv, HomesHold, PaneSets
<1>13. /\ Retold(World, left)
       /\ \A a \in Saved :
            /\ left.homes[a].watched = IF a = old.home /\ old # next THEN {} ELSE homes[a].watched
            /\ homes[a].io # 0 =>
                 /\ ServerOf(left, a) \in ServerStates
                 /\ ServerOf(left, a).watched = left.homes[a].watched
                 /\ a = old.home /\ old # next => ServerOf(left, a).focus = NoScreen
                 /\ ~(a = old.home /\ old # next) => ServerOf(left, a) = ServerOf(World, a)
  BY <1>1, <1>2, LeftIs
<1>14. ASSUME NEW a \in Saved, homes[a].io # 0
       PROVE  /\ ServerOf(World, a) = dials[homes[a].io].server /\ homes[a].watched = ShownOf(a)
              /\ ServerOf(World, a).focus = IF old.home = a /\ ~phone.inactive THEN old.pane ELSE NoScreen
  BY <1>1, <1>14, IoWatched DEF PhoneInv, ServersSeeThePhone
<1>15. ASSUME NEW w, Retold(World, w)
       PROVE  /\ WorldHolds(w) /\ DOMAIN w.homes = Saved
              /\ \A a \in Saved : w.homes[a].io = homes[a].io /\ w.homes[a].dial = homes[a].dial
  BY <1>11, <1>15 DEF Retold, WorldHolds, HomeStates
<1>16. ASSUME NEW a \in Saved, a # next.home, homes[a].io # 0
       PROVE  /\ ServerOf(left, a) \in ServerStates /\ ServerOf(left, a).watched = {}
              /\ ServerOf(left, a).focus = NoScreen
  BY <1>13, <1>16, <1>1, <1>14 DEF PhoneInv, HomesHold, ShownOf
<1>17. ASSUME NEW a \in Saved, a # next.home
       PROVE  left.homes[a].watched = {} \/ (homes[a].dial = 0 /\ left.homes[a].watched = Unwatched)
  BY <1>1, <1>13, <1>17 DEF PhoneInv, WatchedHolds, ShownOf
<1>18. ASSUME next.home \in Saved, homes[next.home].io # 0, phone.inactive
       PROVE  ServerOf(left, next.home).focus = NoScreen
  BY <1>13, <1>14, <1>18
<1>19. CASE next.home \notin Saved
  <2>1. v = left
    BY <1>3, <1>4, <1>19
  <2>2. /\ HomesHold' /\ UpHolds' /\ LastOnes' /\ EarlyHolds' /\ OthersLetGo' /\ PushDue'
        /\ LateChangesNothing' /\ BackgroundIsQuiet'
    BY <1>6, <1>9, <1>13, <2>1, RetoldKeeps
  <2>3. /\ Saved' = Saved
        /\ \A a \in Saved : /\ homes'[a].io = homes[a].io /\ homes'[a].dial = homes[a].dial
                            /\ homes'[a].watched = left.homes[a].watched
                            /\ homes[a].io # 0 => dials'[homes'[a].io].server = ServerOf(left, a)
    BY <1>6, <1>13, <2>1, ServersAfter
  <2>4. \A a \in Saved : a # next.home /\ ShownOf(a)' = {}
    BY <1>9, <1>19 DEF ShownOf
  <2>5. WatchedHolds'
    BY <1>17, <2>3, <2>4 DEF WatchedHolds
  <2>6. ServersSeeThePhone'
    BY <1>9, <1>16, <2>3, <2>4 DEF ServersSeeThePhone
  <2> QED
    BY <1>9, <1>10, <2>2, <2>5, <2>6 DEF PhoneInv
<1>20. CASE next.home \in Saved
  <2>1. PICK b : b = next.home
    OBVIOUS
  <2>2. /\ Retold(left, watched) /\ watched.homes[b].watched = {next.pane}
        /\ homes[b].io # 0 => ServerOf(watched, b) = WatchingOf(ServerOf(left, b), {next.pane})
        /\ \A a \in Saved : a # b =>
             watched.homes[a] = left.homes[a] /\ (homes[a].io # 0 => ServerOf(watched, a) = ServerOf(left, a))
    <3>1. Retold(World, left) /\ b \in Saved /\ {next.pane} \in PaneSets
      BY <1>12, <1>13, <1>20, <2>1
    <3>2. /\ WorldHolds(left) /\ DOMAIN left.homes = Saved
          /\ \A a \in Saved : left.homes[a].io = homes[a].io
      BY <1>15, <3>1
    <3>3. left.homes[b].io # 0 => ServerOf(left, b).watched = left.homes[b].watched
      BY <1>13, <3>1, <3>2
    <3>4. watched = Watches(left, b, {next.pane})
      BY <1>3, <1>20, <2>1
    <3>5. PICK panes : panes = {next.pane}
      OBVIOUS
    <3>6. b \in DOMAIN left.homes /\ panes \in PaneSets /\ watched = Watches(left, b, panes)
      BY <3>1, <3>2, <3>4, <3>5
    <3>7. /\ Retold(left, watched) /\ watched.homes[b].watched = panes
          /\ left.homes[b].io # 0 => ServerOf(watched, b) = WatchingOf(ServerOf(left, b), panes)
          /\ \A a \in DOMAIN left.homes : a # b =>
               /\ watched.homes[a] = left.homes[a]
               /\ left.homes[a].io # 0 => ServerOf(watched, a) = ServerOf(left, a)
      BY <3>2, <3>3, <3>6, WatchesIs
    <3> QED
      BY <3>1, <3>2, <3>5, <3>7
  <2>3. Retold(World, watched)
    BY <1>11, <1>13, <2>2, RetoldTwice
  <2>4. homes[b].io # 0 => /\ ServerOf(watched, b) \in ServerStates
                           /\ ServerOf(watched, b).watched = {next.pane}
                           /\ ServerOf(watched, b).focus = ServerOf(left, b).focus
    BY <1>12, <1>13, <1>20, <2>1, <2>2 DEF ServerStates, WatchingOf
  <2>5. /\ Retold(World, v) /\ v.homes = watched.homes
        /\ homes[b].io # 0 => /\ ServerOf(v, b).watched = {next.pane}
                              /\ ServerOf(v, b).focus = IF phone.inactive THEN NoScreen ELSE next.pane
                              /\ ~phone.inactive /\ kept # 0 => ServerOf(v, b).size = kept
        /\ \A a \in Saved : a # b /\ homes[a].io # 0 => ServerOf(v, a) = ServerOf(left, a)
    <3>1. CASE phone.inactive
      BY <1>4, <1>18, <1>20, <2>1, <2>2, <2>3, <2>4, <3>1
    <3>2. CASE ~phone.inactive
      <4>1. v = Takes(watched, b, next.pane, kept)
        BY <1>4, <1>20, <2>1, <3>2
      <4>2. /\ Retold(watched, v) /\ v.homes = watched.homes
            /\ homes[b].io # 0 =>
                 ServerOf(v, b) = FocusOn(ServerOf(watched, b), next.pane, kept)
            /\ \A a \in Saved : a # b /\ homes[a].io # 0 => ServerOf(v, a) = ServerOf(watched, a)
        <5>1. /\ WorldHolds(watched) /\ DOMAIN watched.homes = Saved
              /\ \A a \in Saved : watched.homes[a].io = homes[a].io
          BY <1>15, <2>3
        <5>2. b \in DOMAIN watched.homes /\ next.pane \in Screens
          BY <1>12, <1>20, <2>1, <5>1
        <5>3. /\ Retold(watched, v) /\ v.homes = watched.homes
              /\ watched.homes[b].io # 0 =>
                   ServerOf(v, b) = FocusOn(ServerOf(watched, b), next.pane, kept)
              /\ \A a \in DOMAIN watched.homes : a # b /\ watched.homes[a].io # 0 =>
                   ServerOf(v, a) = ServerOf(watched, a)
          BY <1>7, <4>1, <5>1, <5>2, TakesIs
        <5> QED
          BY <1>20, <2>1, <5>1, <5>3
      <4>3. Retold(World, v)
        BY <1>11, <2>3, <4>2, RetoldTwice
      <4>4. homes[b].io # 0 => /\ ServerOf(v, b).watched = {next.pane} /\ ServerOf(v, b).focus = next.pane
                               /\ kept # 0 => ServerOf(v, b).size = kept
        BY <2>4, <4>2 DEF ServerStates, FocusOn
      <4> QED
        BY <2>2, <3>2, <4>2, <4>3, <4>4
    <3> QED
      BY <3>1, <3>2
  <2>6. /\ HomesHold' /\ UpHolds' /\ LastOnes' /\ EarlyHolds' /\ OthersLetGo' /\ PushDue'
        /\ LateChangesNothing' /\ BackgroundIsQuiet'
    BY <1>6, <1>9, <2>5, RetoldKeeps
  <2>7. /\ Saved' = Saved
        /\ \A a \in Saved : /\ homes'[a].io = homes[a].io /\ homes'[a].dial = homes[a].dial
                            /\ homes'[a].watched = v.homes[a].watched
                            /\ homes[a].io # 0 => dials'[homes'[a].io].server = ServerOf(v, a)
    BY <1>6, <2>5, ServersAfter
  <2>8. \A a \in Saved : ShownOf(a)' = IF a = b THEN {next.pane} ELSE {}
    BY <1>9, <2>1 DEF ShownOf
  <2>9. WatchedHolds'
    <3>1. \A a \in Saved : a # b => homes'[a].watched = left.homes[a].watched
      BY <2>2, <2>5, <2>7
    <3>2. homes'[b].watched = {next.pane}
      BY <1>20, <2>1, <2>2, <2>5, <2>7
    <3> QED
      BY <1>17, <2>1, <2>7, <2>8, <3>1, <3>2 DEF WatchedHolds
  <2>10. ServersSeeThePhone'
    <3>1. \A a \in Saved : a # b /\ homes[a].io # 0 =>
            ServerOf(v, a).watched = {} /\ ServerOf(v, a).focus = NoScreen
      BY <1>16, <2>1, <2>5
    <3>2. homes[b].io # 0 => /\ ServerOf(v, b).watched = {next.pane}
                             /\ ServerOf(v, b).focus = IF ~phone.inactive THEN next.pane ELSE NoScreen
                             /\ ServerOf(v, b).focus # NoScreen /\ kept # 0 => ServerOf(v, b).size = kept
      BY <2>5
    <3> QED
      <4> SUFFICES ASSUME NEW a \in Saved, homes[a].io # 0
                   PROVE  /\ ServerOf(v, a).watched = ShownOf(a)'
                          /\ ServerOf(v, a).focus =
                               (IF next.home = a /\ ~phone.inactive THEN next.pane ELSE NoScreen)
                          /\ ServerOf(v, a).focus # NoScreen /\ kept # 0 => ServerOf(v, a).size = kept
        BY <1>9, <2>7 DEF ServersSeeThePhone
      <4>1. CASE a = b
        BY <2>1, <2>8, <3>2, <4>1
      <4>2. CASE a # b
        BY <2>1, <2>8, <3>1, <4>2
      <4> QED
        BY <4>1, <4>2
  <2> QED
    BY <1>9, <1>10, <2>6, <2>9, <2>10 DEF PhoneInv
<1> QED
  BY <1>19, <1>20

-----------------------------------------------------------------------------
(* The phone: the invariant holds.                                         *)

LEMMA PhoneStarts ==
    ASSUME NEW setting \in PhoneSettings, ~setting.again, NEW bounds \in [PhoneActs -> Nat],
           PhoneInit(setting, bounds)
    PROVE  PhoneInv
<1>1. setting.listed \subseteq Homes
  BY DEF PhoneSettings
<1>2. Saved = setting.listed /\ dials = <<>> /\ \A a \in Saved : homes[a] = NewHome
  BY DEF PhoneInit, Saved
<1>3. /\ NewHome \in HomeStates /\ NewHome.dial = 0 /\ NewHome.io = 0 /\ NewHome.status = "suspended"
      /\ NewHome.generation = 0 /\ NewHome.watched = Unwatched /\ "suspended" \notin Up
  BY DEF NewHome, HomeStates, Statuses, Unwatched, PaneSets, Up
<1>4. PhoneTypes /\ phone.setting = setting
  BY DEF PhoneInit, PhoneTypes, PhoneType, Shown
<1>5. DOMAIN dials = {} /\ Len(dials) = 0 /\ dials \in Seq(DialStates)
  BY <1>2
<1>6. HomesHold
  BY <1>2, <1>3, <1>1, <1>5 DEF PhoneInit, HomesHold, HomeHolds
<1>7. LastOnes
  BY <1>1, <1>2, <1>3, <1>5 DEF PhoneInit, LastOnes
<1> QED
  BY <1>2, <1>3, <1>4, <1>5, <1>6, <1>7 DEF PhoneInv, UpHolds, WatchedHolds, EarlyHolds, OthersLetGo,
     PushDue, LateChangesNothing, ServersSeeThePhone, BackgroundIsQuiet

LEMMA PhoneSteps == ASSUME PhoneInv, [PhoneNext]_phoneVars PROVE PhoneInv'
<1>1. CASE \E c \in Callers : \E a \in Homes : ConnectHome(c, a)
  BY <1>1, ConnectHomeKeeps
<1>2. CASE \E n \in DOMAIN dials : DialStep(n) \/ Reads(n)
  BY <1>2, SayHelloKeeps, AnswersKeeps, ConnectedKeeps, ApplyKeeps, ReadsKeeps DEF DialStep
<1>3. CASE Resume \/ Suspend \/ SetPush \/ SetActive \/ Notify \/ TakeChanges
  BY <1>3, ResumeKeeps, SuspendKeeps, SetPushKeeps, SetActiveKeeps, NotifyKeeps
<1>4. CASE \E a \in Homes : Pair(a) \/ Forget(a)
  BY <1>4, PairKeeps, ForgetKeeps
<1>5. CASE \E shown \in phone.setting.shows : ShowPane(shown.what, shown.size)
  BY <1>5, ShowPaneKeeps DEF PhoneInv, PhoneTypes, PhoneType, PhoneSettings, Shown
<1>6. CASE UNCHANGED phoneVars
  BY <1>6, PhoneOnlyKeeps DEF phoneVars, PhoneInv, PhoneTypes, PushDue, Saved
<1> QED
  BY <1>1, <1>2, <1>3, <1>4, <1>5, <1>6 DEF PhoneNext

LEMMA PhoneInvIsSound == PhoneInv => PhoneIsSound
<1> SUFFICES ASSUME PhoneInv PROVE PhoneIsSound
  OBVIOUS
<1>1. PhoneTypeOK
  BY DialIn, PhoneAssumption, OneDial DEF PhoneInv, HomeHolds, Hidden, ShownOf, HomesHold,
     WatchedHolds, DialStates, Early, PhoneTypeOK
<1>2. PushIsTold
  BY DEF PhoneInv, PushDue, PushIsTold
<1> QED
  BY <1>1, <1>2 DEF PhoneInv, PhoneIsSound

(* Generations tell the connections of a Device apart: what the app shows  *)
(* of it is what its last one came to, which is the one it holds           *)
(* (companion.rs: Shared::connect, connected, apply; suspend, forget).      *)
THEOREM PhoneInvHolds == PhoneOnceSpec => []PhoneInv
<1>1. ASSUME \E setting \in PhoneSettings, bounds \in [PhoneActs -> Nat] :
               ~setting.again /\ PhoneInit(setting, bounds)
      PROVE  PhoneInv
  BY <1>1, PhoneStarts
<1>2. PhoneInv /\ [PhoneNext]_phoneVars => PhoneInv'
  BY PhoneSteps
<1> QED
  BY <1>1, <1>2, PTL DEF PhoneOnceSpec

(* Every connected Server is told of the Pane on screen and of no other,   *)
(* whichever of show_pane, set_active and connected comes first; late      *)
(* results change nothing; the background is quiet; and a change of the    *)
(* pushes is told to all.                                                  *)
THEOREM PhoneStaysSound == PhoneOnceSpec => []PhoneIsSound
<1>1. PhoneInv => PhoneIsSound
  BY PhoneInvIsSound
<1> QED
  BY <1>1, PhoneInvHolds, PTL

=============================================================================
