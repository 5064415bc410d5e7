---------------------------- MODULE WriterQueue ----------------------------
(***************************************************************************)
(* The bounded queue between the Server and one client connection          *)
(* (condr-server/src/client_writer.rs), as operators on a queue value: one *)
(* operator per method, each atomic because every method takes the queue's *)
(* own mutex.  ClientWriter.tla drives it from concurrent senders,         *)
(* EventStream.tla composes it with its users.                             *)
(*                                                                         *)
(* A definition marked "Broken:" is the one below it with a plausible bug, *)
(* which a property must find; no specification uses it.                   *)
(*                                                                         *)
(* A queued item is a record with a field "size", its framed length.  A    *)
(* slot (clipboard, render) is a sequence, empty when the slot is vacant.  *)
(***************************************************************************)
EXTENDS Naturals, Sequences

CONSTANTS
    MaxItems,   \* MAX_RELIABLE_QUEUE_ITEMS
    MaxBytes    \* MAX_RELIABLE_QUEUE_BYTES

ASSUME QueueAssumption == MaxItems \in Nat \ {0} /\ MaxBytes \in Nat \ {0}

(* The framed SubscriptionRejected a connection's writer is created with,  *)
(* one unit long like every ordinary frame.                                *)
LagNotice == [type |-> "lagged", seq |-> 0, size |-> 1]

NewQueue ==
    [reliable |-> <<>>, bytes |-> 0, lagged |-> FALSE, clipboard |-> <<>>,
     render |-> <<>>, alive |-> TRUE]

Refusal(q) ==
    CASE ~q.alive             -> "disconnected"
      [] q.alive /\ q.lagged  -> "lagged"
      [] q.alive /\ ~q.lagged -> "ok"

(* reserve_reliable's test for one more item of b bytes.                   *)
HasRoom(q, b) == Len(q.reliable) < MaxItems /\ q.bytes + b <= MaxBytes

(* Broken: the backlog goes without a notice in its place.                 *)
OverflowedSilently(q) ==
    [q EXCEPT !.reliable = <<>>, !.bytes = 0, !.clipboard = <<>>, !.render = <<>>]

(* reserve_reliable past a cap: the notice replaces the whole backlog.     *)
Overflowed(q) ==
    [q EXCEPT !.reliable = <<LagNotice>>, !.bytes = LagNotice.size,
              !.clipboard = <<>>, !.render = <<>>, !.lagged = TRUE]

(* send_reliable and send_reliable_batch, whose frames are one item.       *)
Sent(q, m) ==
    IF Refusal(q) # "ok" THEN q
    ELSE IF HasRoom(q, m.size)
         THEN [q EXCEPT !.reliable = Append(@, m), !.bytes = @ + m.size]
         ELSE Overflowed(q)

SendResult(q, m) ==
    IF Refusal(q) # "ok" THEN Refusal(q)
    ELSE IF HasRoom(q, m.size) THEN "ok" ELSE "lagged"

SentOk(q, m) == SendResult(q, m) = "ok"

SentClipboard(q, m) == IF Refusal(q) = "ok" THEN [q EXCEPT !.clipboard = <<m>>] ELSE q

(* send_closing_reliable: the last item; the slots go, the backlog stays.  *)
SentClosing(q, m) ==
    IF SentOk(q, m)
    THEN [Sent(q, m) EXCEPT !.clipboard = <<>>, !.render = <<>>, !.alive = FALSE]
    ELSE Sent(q, m)

(* try_send_render: a lagged writer answers as a dead one does.            *)
RenderResult(q) ==
    CASE Refusal(q) # "ok"                      -> "disconnected"
      [] Refusal(q) = "ok" /\ q.render # <<>> -> "full"
      [] Refusal(q) = "ok" /\ q.render = <<>> -> "ok"

SentRender(q, frames) == IF RenderResult(q) = "ok" THEN [q EXCEPT !.render = frames] ELSE q

RenderCleared(q) == [q EXCEPT !.render = <<>>]

(* resume_after_lag: the reliable queue, which holds the notice, is kept.  *)
Resumed(q) ==
    IF q.lagged THEN [q EXCEPT !.clipboard = <<>>, !.render = <<>>, !.lagged = FALSE] ELSE q

(* recv: reliable items first, then the clipboard, then one render frame.  *)
HasItem(q) == q.reliable # <<>> \/ q.clipboard # <<>> \/ q.render # <<>>

Saturating(a, b) == IF b <= a THEN a - b ELSE 0

Received(q) ==
    CASE q.reliable # <<>> -> Head(q.reliable)
      [] q.reliable = <<>> /\ q.clipboard # <<>> -> Head(q.clipboard)
      [] q.reliable = <<>> /\ q.clipboard = <<>> -> Head(q.render)

(* Broken: an item leaves without its bytes.                               *)
AfterReceiveUncounted(q) ==
    CASE q.reliable # <<>> -> [q EXCEPT !.reliable = Tail(q.reliable)]
      [] q.reliable = <<>> /\ q.clipboard # <<>> -> [q EXCEPT !.clipboard = <<>>]
      [] q.reliable = <<>> /\ q.clipboard = <<>> -> [q EXCEPT !.render = Tail(q.render)]

AfterReceive(q) ==
    CASE q.reliable # <<>> ->
           [q EXCEPT !.reliable = Tail(q.reliable), !.bytes = Saturating(q.bytes, Head(q.reliable).size)]
      [] q.reliable = <<>> /\ q.clipboard # <<>> -> [q EXCEPT !.clipboard = <<>>]
      [] q.reliable = <<>> /\ q.clipboard = <<>> -> [q EXCEPT !.render = Tail(q.render)]

(* Whether the frame recv returns is the last of the render slot.          *)
DrainsRender(q) == q.reliable = <<>> /\ q.clipboard = <<>> /\ Len(q.render) = 1

(* close, by the writer thread once the stream failed.                     *)
Closed(q) ==
    [q EXCEPT !.alive = FALSE, !.reliable = <<>>, !.bytes = 0, !.lagged = FALSE,
              !.clipboard = <<>>, !.render = <<>>]
=============================================================================
