----------------------------- MODULE MCClients -----------------------------
(* What the Clients of a Server see of each other's changes, how a Device   *)
(* gets in, the connections of a phone and the pushes to it.  They share no  *)
(* state, and each initial state gives one of them something to do.         *)
EXTENDS MCEventStream, Pairing, Pushes, Companion, TLC

CONSTANTS d1, d2,     \* Devices that dial
          h1, h2,     \* a phone's Devices
          p1, p2      \* Panes

(* The stream of events                                                     *)
NoStream == Calm({}, 0)
Streamed == Following \cup {NoStream}

(* Pairing                                                                  *)
Never(acts) == [x \in acts |-> 0]
Often(acts, f) == [x \in acts |-> IF x \in DOMAIN f THEN f[x] ELSE 0]
Dials(f) == Often(PairActs, f @@ [dials |-> 2])
By(x, y) == [d \in Peers |-> IF d = d1 THEN x ELSE y]
Strangers == [listed |-> {}, ways |-> By("tcp", "tcp"), old |-> {}, streams |-> {}, pushes |-> {d1}]
Friend == [Strangers EXCEPT !.listed = {d1}]
Gates ==
    {<<Strangers, Dials([invites |-> 1, crashes |-> 1])>>,
     <<Strangers, Dials([invites |-> 1, faults |-> 1])>>,
     <<[Strangers EXCEPT !.ways = By("p2p", "tcp")], Dials([invites |-> 1, cancels |-> 1, ages |-> 1])>>,
     <<[Strangers EXCEPT !.ways = By("p2p", "p2p")], Dials([invites |-> 2])>>,
     <<Strangers, Dials([invites |-> 2, kills |-> 1])>>,
     <<[Friend EXCEPT !.streams = {d1}], Dials([invites |-> 1, revokes |-> 1, leaves |-> 1])>>,
     <<[Friend EXCEPT !.ways = By("p2p", "p2p"), !.old = {d2}], Dials([invites |-> 1, revokes |-> 1])>>,
     <<Friend, Dials([revokes |-> 1, kills |-> 1, cuts |-> 1])>>}
NoPairing == PairInit(Strangers, Never(PairActs))

(* The phone                                                                *)
Show(a, p, s) == [what |-> [home |-> a, pane |-> p], size |-> s]
OneHome ==
    [listed |-> {h1}, again |-> FALSE, fails |-> FALSE,
     shows |-> {Show(h1, p1, 0), Show(h1, p1, 1), Show(h1, p2, 2), [what |-> Hidden, size |-> 0]}]
HandsetActs(f) == Often(PhoneActs, f @@ [resumes |-> 1])
Handsets ==
    {<<[OneHome EXCEPT !.fails = TRUE], HandsetActs([resumes |-> 2, suspends |-> 1, messages |-> 1])>>,
     <<[OneHome EXCEPT !.shows = {Show(h1, p1, 1)}], HandsetActs([shows |-> 1, messages |-> 1])>>,
     <<OneHome, HandsetActs([shows |-> 3, turns |-> 1])>>,
     <<[OneHome EXCEPT !.shows = {Show(h1, p1, 1)}],
       HandsetActs([resumes |-> 2, suspends |-> 1, shows |-> 1, turns |-> 2])>>,
     <<[OneHome EXCEPT !.listed = {h1, h2}, !.shows = {Show(h1, p1, 1), Show(h2, p2, 2)}],
       HandsetActs([shows |-> 2, forgets |-> 1])>>,
     <<[OneHome EXCEPT !.listed = {}], HandsetActs([pairs |-> 1, pushes |-> 2])>>,
     <<[OneHome EXCEPT !.listed = {}], HandsetActs([pairs |-> 1, suspends |-> 1, pushes |-> 1])>>}
NoPhone == PhoneInit([OneHome EXCEPT !.listed = {}], Never(PhoneActs))

(* The pushes                                                               *)
Alerts ==
    {Often(PushActs, [alerts |-> 3, faults |-> 1]), Often(PushActs, [alerts |-> 2, looks |-> 2, faults |-> 1])}
NoPushes == PushInit(Never(PushActs))

ClientsInit ==
    /\ Init
    /\ IF spent.setting # NoStream THEN NoPairing /\ NoPhone /\ NoPushes
       ELSE \/ \E g \in Gates : PairInit(g[1], g[2]) /\ NoPhone /\ NoPushes
            \/ \E h \in Handsets : PhoneInit(h[1], h[2]) /\ NoPairing /\ NoPushes
            \/ \E f \in Alerts : PushInit(f) /\ NoPairing /\ NoPhone
ClientsNext ==
    \/ Next /\ UNCHANGED <<pairVars, phoneVars, allPushVars>>
    \/ PairNext /\ UNCHANGED <<vars, phoneVars, allPushVars>>
    \/ PhoneNext /\ UNCHANGED <<vars, pairVars, allPushVars>>
    \/ PushNext /\ UNCHANGED <<vars, pairVars, phoneVars>>
ClientsSpec == ClientsInit /\ [][ClientsNext]_<<vars, pairVars, phoneVars, allPushVars>>
FairClientsSpec == ClientsSpec /\ Fairness /\ PairFairness /\ PhoneFairness /\ PushFairness

(* What is left alone comes to rest: every dial, call and revocation ends,   *)
(* no lock is kept, every change is told, every newest push is tried.        *)
AllRest == <>[](PairingRests /\ PhoneRests /\ NewestIsPosted)
ClientsSettle == Converges /\ AllRest
=============================================================================
