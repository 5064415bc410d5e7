-------------------------------- MODULE Pushes --------------------------------
(* The pushes of a Server to its phones (server/push.rs): the alert of an    *)
(* agent goes to every Device that takes pushes and does not watch the Pane  *)
(* just then, and one task posts them to Condr Cloud, one at a time, keeping *)
(* only the newest that waits for each Pane.  What the Cloud makes of a post  *)
(* is external; a post it was too slow to answer may have reached it.        *)
EXTENDS Integers, Sequences, FiniteSets

CONSTANTS Alerting,        \* the Panes with an agent
          Phones,          \* the paired Devices
          MaxRecipients

ASSUME PushAssumption == MaxRecipients \in Nat

VARIABLES
    takers,      \* the Devices whose last Hello said that they take pushes
    eyes,        \* <<phone, Pane>> that a connection watches now
    outbox,      \* the channel to the task
    waiting,     \* the task's: at most one per Pane, in the order the Panes first waited
    posting,     \* the push that is posted, if any
    posts        \* every post that began: what the Cloud may have seen, in order

pushVars == <<takers, eyes, outbox, waiting, posting, posts>>

VARIABLES pushLog, pushLeft
allPushVars == <<pushVars, pushLog, pushLeft>>
PushActs == {"alerts", "looks", "faults"}
SpendPush(what) == pushLeft[what] > 0 /\ pushLeft' = [pushLeft EXCEPT ![what] = @ - 1]

NoPush == [pane |-> "none", number |-> 0, to |-> {}]
Posting == posting.push # NoPush

-----------------------------------------------------------------------------

(* push_agent_alert: past the limit the rest get nothing.                    *)
Watching(pane) == {d \in Phones : <<d, pane>> \in eyes}
Chosen(all) == IF Cardinality(all) <= MaxRecipients THEN {all}
               ELSE {some \in SUBSET all : Cardinality(some) = MaxRecipients}
PushAgentAlert(pane) ==
    /\ SpendPush("alerts")
    /\ LET n == pushLog.raised + 1
           ready == takers \ Watching(pane)
       IN  \E to \in Chosen(ready) :
             /\ outbox' = IF to = {} THEN outbox
                          ELSE Append(outbox, [pane |-> pane, number |-> n, to |-> to])
             /\ pushLog' = [pushLog EXCEPT !.raised = n,
                                           !.newest[pane] = IF to = {} THEN @ ELSE n]
    /\ UNCHANGED <<takers, eyes, waiting, posting, posts>>

Toggled(set, x) == IF x \in set THEN set \ {x} ELSE set \cup {x}
(* A phone looks at a Pane, looks away, or says that it takes pushes.        *)
Look(d) ==
    /\ SpendPush("looks")
    /\ \/ /\ \E pane \in Alerting : eyes' = Toggled(eyes, <<d, pane>>)
          /\ UNCHANGED takers
       \/ takers' = Toggled(takers, d) /\ UNCHANGED eyes
    /\ UNCHANGED <<outbox, waiting, posting, posts, pushLog>>

-----------------------------------------------------------------------------
(* The task                                                                 *)

(* take_queued, one push: it takes the place of the older one of its Pane.   *)
InPlace(ws, p) ==
    IF \E i \in DOMAIN ws : ws[i].pane = p.pane
    THEN [i \in DOMAIN ws |-> IF ws[i].pane = p.pane THEN p ELSE ws[i]]
    ELSE Append(ws, p)
TakeQueued == LET f[i \in 0 .. Len(outbox)] == IF i = 0 THEN waiting ELSE InPlace(f[i - 1], outbox[i])
         IN  f[Len(outbox)]

(* send_pushes: the first of those that wait.                               *)
BeginPost ==
    /\ ~Posting /\ (waiting # <<>> \/ outbox # <<>>)
    /\ posting' = [push |-> Head(TakeQueued), retried |-> FALSE]
    /\ waiting' = Tail(TakeQueued) /\ outbox' = <<>>
    /\ posts' = Append(posts, Head(TakeQueued))
    /\ UNCHANGED <<takers, eyes, pushLog, pushLeft>>

(* post: answered, or refused for good: either way the task goes on.         *)
Answered ==
    /\ Posting /\ posting' = [posting EXCEPT !.push = NoPush]
    /\ \/ UNCHANGED <<pushLog, pushLeft>>
       \/ SpendPush("faults")
          /\ pushLog' = [pushLog EXCEPT !.lost = @ \cup {posting.push.number}]
    /\ UNCHANGED <<takers, eyes, outbox, waiting, posts>>

(* Broken: a failure is tried again whatever waits.                          *)
NotYetRetried(ws) == ~posting.retried
(* A timeout or a 5xx: once more, unless a newer one of the Pane waits.      *)
MayRetry(ws) == ~posting.retried /\ \A i \in DOMAIN ws : ws[i].pane # posting.push.pane
Unanswered ==
    /\ Posting /\ SpendPush("faults")
    /\ waiting' = TakeQueued /\ outbox' = <<>>
    /\ IF MayRetry(TakeQueued)
       THEN /\ posting' = [posting EXCEPT !.retried = TRUE]
            /\ posts' = Append(posts, posting.push) /\ UNCHANGED pushLog
       ELSE /\ posting' = [posting EXCEPT !.push = NoPush]
            /\ pushLog' = [pushLog EXCEPT !.lost = @ \cup {posting.push.number}]
            /\ UNCHANGED posts
    /\ UNCHANGED <<takers, eyes>>

-----------------------------------------------------------------------------

PushInit(bounds) ==
    /\ takers = Phones /\ eyes = {} /\ outbox = <<>> /\ waiting = <<>>
    /\ posting = [push |-> NoPush, retried |-> FALSE] /\ posts = <<>>
    /\ pushLog = [raised |-> 0, newest |-> [pane \in Alerting |-> 0], lost |-> {}]
    /\ pushLeft = bounds

PushNext ==
    \/ \E pane \in Alerting : PushAgentAlert(pane)
    \/ \E d \in Phones : Look(d)
    \/ BeginPost \/ Answered \/ Unanswered

PushSpec == (\E bounds \in [PushActs -> Nat] : PushInit(bounds)) /\ [][PushNext]_allPushVars

(* The task goes on, and the Cloud answers or times out.                     *)
PushFairness == WF_allPushVars(BeginPost \/ Answered \/ Unanswered)

-----------------------------------------------------------------------------
(* Properties                                                               *)

(* At most one push of a Pane waits, and what waits is newer than what is     *)
(* posted.                                                                  *)
PushTypeOK ==
    /\ \A i, j \in DOMAIN waiting : waiting[i].pane = waiting[j].pane => i = j
    /\ \A i \in DOMAIN waiting : waiting[i].pane = posting.push.pane =>
         waiting[i].number > posting.push.number
    /\ \A i \in DOMAIN posts : posts[i].to # {} /\ Cardinality(posts[i].to) <= MaxRecipients

(* A late Blocked never follows the Done that came after it, nor is it tried  *)
(* again while the Done waits, and none is posted more than twice            *)
(* (send_pushes).                                                           *)
PostsGoForward ==
    /\ Posting /\ posting.retried => \A i \in DOMAIN waiting : waiting[i].pane # posting.push.pane
    /\ \A i, j \in DOMAIN posts : i < j /\ posts[i].pane = posts[j].pane =>
         posts[i].number < posts[j].number \/ posts[i] = posts[j]
    /\ \A i \in DOMAIN posts : Cardinality({j \in DOMAIN posts : posts[j] = posts[i]}) <= 2

PushesAreInOrder == PushTypeOK /\ PostsGoForward

(* The newest push of a Pane is posted in the end, whatever was lost.        *)
NewestIsPosted ==
    ~Posting /\ \A pane \in Alerting : pushLog.newest[pane] # 0 =>
        \E i \in DOMAIN posts : posts[i].number = pushLog.newest[pane]
=============================================================================
