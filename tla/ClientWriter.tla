---------------------------- MODULE ClientWriter ----------------------------
(***************************************************************************)
(* One connection's writer: the threads that hold a ClientWriter and send  *)
(* through it, and the writer thread that takes what they queued and       *)
(* writes it to the stream (condr-server/src/client_writer.rs and the      *)
(* writer thread of condr-server/src/server/client.rs).                    *)
(*                                                                         *)
(* Each method is one step, because it runs under the queue's mutex; the   *)
(* writer thread writes without it.  "delivered" and "accepted" are        *)
(* history: the n-th accepted reliable item carries the ticket n.          *)
(***************************************************************************)
EXTENDS WriterQueue

CONSTANTS
    Holders,      \* the threads and subscriber entries that may hold a ClientWriter
    Sizes,        \* framed lengths of reliable items
    MaxAccepted   \* bound: reliable items accepted

ASSUME WriterAssumption ==
    /\ Sizes \subseteq Nat \ {0}
    /\ MaxAccepted \in Nat
    \* A notice fits the byte cap, as MAX_FRAME_SIZE and its prefix do.
    /\ LagNotice.size <= MaxBytes

VARIABLES
    q,          \* ClientWriterQueueState
    holders,    \* who holds a ClientWriter: "senders" counts them
    thread,     \* the writer thread: receiving, waiting, writing, closing or done
    holding,    \* the item recv returned, while it is written: a sequence of at most one
    receipt,    \* the ClientWriteReceipt: none, pending, delivered or failed
    accepted,   \* history: reliable items accepted
    delivered   \* history: reliable items written, lag notices among them

writerVars == <<q, holders, thread, holding, receipt, accepted, delivered>>

Item(n, b)    == [type |-> "item", seq |-> n, size |-> b]
Closing(n, b) == [type |-> "closing", seq |-> n, size |-> b]
Clipboard     == [type |-> "clipboard", seq |-> 0, size |-> 1]
Render        == [type |-> "render", seq |-> 0, size |-> 1]

WriterInit ==
    /\ q = NewQueue
    /\ holders \in {{h} : h \in Holders}
    /\ thread = "receiving"
    /\ holding = <<>>
    /\ receipt = "none"
    /\ accepted = 0
    /\ delivered = <<>>

(* The condition variable: the writer thread, its only waiter, wakes.      *)
Notify == thread' = IF thread = "waiting" THEN "receiving" ELSE thread

(* send_reliable, and send_reliable_batch for a longer item.               *)
SendReliable(h, b) ==
    LET m == Item(accepted + 1, b) IN
    /\ h \in holders
    /\ accepted < MaxAccepted
    /\ q' = Sent(q, m)
    /\ accepted' = IF SentOk(q, m) THEN accepted + 1 ELSE accepted
    /\ IF Refusal(q) = "ok" THEN Notify ELSE UNCHANGED thread
    /\ UNCHANGED <<holders, holding, receipt, delivered>>

SendClipboard(h) ==
    /\ h \in holders
    /\ q' = SentClipboard(q, Clipboard)
    /\ IF Refusal(q) = "ok" THEN Notify ELSE UNCHANGED thread
    /\ UNCHANGED <<holders, holding, receipt, accepted, delivered>>

(* send_closing_reliable.                                                  *)
SendClosing(h, b) ==
    LET m == Closing(accepted + 1, b) IN
    /\ h \in holders
    /\ accepted < MaxAccepted
    /\ q' = SentClosing(q, m)
    /\ accepted' = IF SentOk(q, m) THEN accepted + 1 ELSE accepted
    /\ receipt' = IF SentOk(q, m) THEN "pending" ELSE receipt
    /\ IF Refusal(q) = "ok" THEN Notify ELSE UNCHANGED thread
    /\ UNCHANGED <<holders, holding, delivered>>

TrySendRender(h, frames) ==
    /\ h \in holders
    /\ q' = SentRender(q, frames)
    /\ IF RenderResult(q) = "ok" THEN Notify ELSE UNCHANGED thread
    /\ UNCHANGED <<holders, holding, receipt, accepted, delivered>>

ClearRender(h) ==
    /\ h \in holders
    /\ q' = RenderCleared(q)
    /\ UNCHANGED <<holders, thread, holding, receipt, accepted, delivered>>

ResumeAfterLag(h) ==
    /\ h \in holders
    /\ q' = Resumed(q)
    /\ UNCHANGED <<holders, thread, holding, receipt, accepted, delivered>>

Clone(h, other) ==
    /\ h \in holders
    /\ holders' = holders \cup {other}
    /\ UNCHANGED <<q, thread, holding, receipt, accepted, delivered>>

(* Broken: the last holder leaves without waking the thread.               *)
DropQuietly(h) ==
    /\ h \in holders
    /\ holders' = holders \ {h}
    /\ UNCHANGED <<q, thread, holding, receipt, accepted, delivered>>

Drop(h) ==
    /\ h \in holders
    /\ holders' = holders \ {h}
    /\ Notify
    /\ UNCHANGED <<q, holding, receipt, accepted, delivered>>

-----------------------------------------------------------------------------
(* The writer thread.                                                      *)

Take ==
    /\ thread = "receiving"
    /\ HasItem(q)
    /\ q' = AfterReceive(q)
    /\ holding' = <<Received(q)>>
    /\ thread' = "writing"
    /\ UNCHANGED <<holders, receipt, accepted, delivered>>

NothingMoreComes == holders = {} \/ ~q.alive

(* recv with nothing queued: it ends, or waits for a notification.         *)
Rest ==
    /\ thread = "receiving"
    /\ ~HasItem(q)
    /\ thread' = IF NothingMoreComes THEN "closing" ELSE "waiting"
    /\ UNCHANGED <<q, holders, holding, receipt, accepted, delivered>>

IsReliable(m) == m.type \in {"item", "closing", "lagged"}

Write ==
    LET m == holding[1] IN
    /\ thread = "writing"
    /\ holding' = <<>>
    /\ delivered' = IF IsReliable(m) THEN Append(delivered, m) ELSE delivered
    /\ receipt' = IF m.type = "closing" THEN "delivered" ELSE receipt
    /\ thread' = IF m.type = "closing" THEN "closing" ELSE "receiving"
    /\ UNCHANGED <<q, holders, accepted>>

(* The stream failed: the thread leaves its loop.                          *)
FailWrite ==
    /\ thread = "writing"
    /\ holding' = <<>>
    /\ receipt' = IF holding[1].type = "closing" THEN "failed" ELSE receipt
    /\ thread' = "closing"
    /\ UNCHANGED <<q, holders, accepted, delivered>>

(* Broken: the receipt of a dropped closing frame is never answered.       *)
CloseUnanswered ==
    /\ thread = "closing"
    /\ q' = Closed(q)
    /\ thread' = "done"
    /\ UNCHANGED <<holders, holding, receipt, accepted, delivered>>

(* close: what is queued is dropped, a closing frame's receipt with it.    *)
Close ==
    /\ thread = "closing"
    /\ q' = Closed(q)
    /\ receipt' = IF receipt = "pending" THEN "failed" ELSE receipt
    /\ thread' = "done"
    /\ UNCHANGED <<holders, holding, accepted, delivered>>

-----------------------------------------------------------------------------
WriterThread == Take \/ Rest \/ Write \/ FailWrite \/ Close

Sender(h) ==
    \/ \E b \in Sizes : SendReliable(h, b) \/ SendClosing(h, b)
    \/ SendClipboard(h)
    \/ \E frames \in {<<Render>>, <<Render, Render>>} : TrySendRender(h, frames)
    \/ ClearRender(h) \/ ResumeAfterLag(h)
    \/ \E other \in Holders \ holders : Clone(h, other)
    \/ Drop(h)

WriterNext == WriterThread \/ \E h \in Holders : Sender(h)

WriterSpec == WriterInit /\ [][WriterNext]_writerVars

(* The thread runs, and a write to the stream returns.                     *)
WriterFairness == WF_writerVars(WriterThread)

-----------------------------------------------------------------------------
(* Properties                                                              *)

Messages == [type : {"item", "closing", "lagged"}, seq : 0..MaxAccepted, size : Nat]

Queues ==
    [reliable : Seq(Messages), bytes : 0..MaxBytes, lagged : BOOLEAN,
     clipboard : {<<>>, <<Clipboard>>},
     render : {<<>>, <<Render>>, <<Render, Render>>}, alive : BOOLEAN]

(* Every variable has its type, and recv's item is held only while written.*)
TypeOK ==
    /\ q \in Queues
    /\ holders \subseteq Holders
    /\ thread \in {"receiving", "waiting", "writing", "closing", "done"}
    /\ holding \in Seq(Messages \cup {Clipboard, Render})
    /\ Len(holding) = IF thread = "writing" THEN 1 ELSE 0
    /\ receipt \in {"none", "pending", "delivered", "failed"}
    /\ accepted \in 0..MaxAccepted
    /\ delivered \in Seq(Messages)

Writing == thread \in {"receiving", "waiting", "writing"}

(* The reliable stream as the Client will have read it: what is written,   *)
(* and, until the thread leaves its loop, what is being written and queued.*)
Written ==
    IF thread = "writing" /\ IsReliable(holding[1])
    THEN Append(delivered, holding[1])
    ELSE delivered

Stream == IF Writing THEN Written \o q.reliable ELSE delivered

(* m may come first, or directly behind k: the next accepted item, a lag   *)
(* notice, or any item behind a lag notice.                                *)
Starts(m) == m = LagNotice \/ m.seq = 1
Follows(k, m) == m = LagNotice \/ k = LagNotice \/ m.seq = k.seq + 1

Gapless(s) ==
    /\ s # <<>> => Starts(s[1])
    /\ \A i \in 1..Len(s) - 1 : Follows(s[i], s[i + 1])

(* No accepted item is ever missing from what the Client reads without the *)
(* lag notice in its place, whatever is sent, discarded and reopened in    *)
(* between; a Client that reads no notice has read everything.             *)
NoSilentGap == Gapless(Stream)

(* A lagged writer's last word is the notice: while it refuses, nothing    *)
(* else is queued behind it and no slot is filled.                         *)
LaggedSaysSo ==
    q.lagged /\ Writing
    => /\ Stream # <<>> /\ Stream[Len(Stream)] = LagNotice
       /\ Len(q.reliable) <= 1 /\ q.clipboard = <<>> /\ q.render = <<>>

(* What the Client reads is whole or says that it is not.                  *)
StreamIsHonest == TypeOK /\ NoSilentGap /\ LaggedSaysSo

(* reliable_bytes, kept by additions, subtractions and resets, is exactly  *)
(* what the queued items measure, so the byte cap means what it says.      *)
SizeOf(items) ==
    LET upTo[i \in 0..Len(items)] == IF i = 0 THEN 0 ELSE upTo[i - 1] + items[i].size
    IN  upTo[Len(items)]

BytesExact == q.bytes = SizeOf(q.reliable) /\ Len(q.reliable) <= MaxItems

(* The writer thread never sleeps on work or past the end: every step that *)
(* gives it either has notified it.                                        *)
NoLostWakeup == thread = "waiting" => ~HasItem(q) /\ ~NothingMoreComes

(* "Queues the final reliable frame after earlier reliable work": nothing  *)
(* follows the closing frame, and a true receipt means the Client was      *)
(* sent it.                                                                *)
ClosingIsFinal ==
    /\ \A i \in 1..Len(Stream) :
         Stream[i].type = "closing" => i = Len(Stream) /\ q.clipboard = <<>> /\ q.render = <<>>
    /\ receipt = "delivered" => Stream # <<>> /\ Stream[Len(Stream)].type = "closing"

(* What is counted is what is queued, and the closing frame is the last.   *)
QueueIsExact == BytesExact /\ ClosingIsFinal

(* The thread ends once nobody can send, so join in client.rs returns.     *)
WriterEnds == (holders = {}) ~> (thread = "done")

(* StopServer's wait is answered by the thread itself.                     *)
ReceiptIsAnswered == (receipt = "pending") ~> (receipt \in {"delivered", "failed"})

(* Whoever waits for the thread is not left waiting.                       *)
WriterSettles == WriterEnds /\ ReceiptIsAnswered
=============================================================================
