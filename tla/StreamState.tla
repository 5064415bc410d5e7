---------------------------- MODULE StreamState ----------------------------
(***************************************************************************)
(* One end of a Stream connection: the State behind Shared's mutex and     *)
(* what each locked section does to it (condr-client/src/streams.rs,       *)
(* ADR 0061).  Both ends run this code.                                    *)
(*                                                                         *)
(* Bytes are counted, not stored: a chunk is the offset it starts at and   *)
(* its size.  The offset is history, the program's frames do not carry it. *)
(* An entry that left the table is the same as a new one.                  *)
(***************************************************************************)
EXTENDS Integers, Sequences, FiniteSets

CONSTANTS
    MaxNumber, \* bound: the Stream numbers a connection gets to
    Window,    \* STREAM_WINDOW
    MaxChunk   \* MAX_STREAM_CHUNK

ASSUME StateAssumption ==
    /\ MaxNumber \in Nat
    /\ {Window, MaxChunk} \subseteq Nat \ {0}

Numbers == 1 .. MaxNumber

Smaller(a, b) == IF a < b THEN a ELSE b
Larger(a, b)  == IF a < b THEN b ELSE a

Frame(type, s)        == [type |-> type, stream |-> s, at |-> 0, size |-> 0]
Data(s, at, size)     == [type |-> "data", stream |-> s, at |-> at, size |-> size]
Credit(s, max_offset) == [type |-> "credit", stream |-> s, at |-> max_offset, size |-> 0]

NewEntry ==
    [limit |-> Window, sent |-> 0, outgoing |-> <<>>, queued |-> FALSE,
     finish_queued |-> FALSE, inbound |-> <<>>, received |-> 0, consumed |-> 0,
     announced |-> Window, peer_finished |-> FALSE, opened |-> FALSE, failed |-> FALSE,
     handle_alive |-> TRUE]

NewState ==
    [streams |-> {}, entry |-> [s \in Numbers |-> NewEntry], highest |-> 0,
     control |-> <<>>, ready |-> <<>>, closed |-> "no"]

Control(st, frame) == [st EXCEPT !.control = Append(@, frame)]

(* Shared::close: the first reason stays.                                  *)
ClosedFor(st, reason) == [st EXCEPT !.closed = IF @ = "no" THEN reason ELSE @]

Inserted(st, s) == [st EXCEPT !.streams = @ \union {s}, !.highest = s]

(* Shared::failure: the connection's end fails every Stream on it.         *)
Failure(st, s) == st.closed # "no" \/ st.entry[s].failed

Failed(st, s) == [st EXCEPT !.entry[s] = [@ EXCEPT !.outgoing = <<>>, !.failed = TRUE]]

RemovedIfFinished(st, s) ==
    IF s \in st.streams /\ ~st.entry[s].handle_alive /\ st.entry[s].outgoing = <<>>
    THEN [st EXCEPT !.streams = @ \ {s}, !.entry[s] = NewEntry]
    ELSE st

(* An item joins the Stream's queue, and the Stream the line.              *)
Queued(st, s, item) ==
    LET e == st.entry[s] IN
    [st EXCEPT
        !.entry[s] = [e EXCEPT !.outgoing = Append(@, item), !.queued = TRUE],
        !.ready = IF e.queued THEN @ ELSE Append(@, s)]

(* Stream::write, once round its loop: it waits without credit, and takes  *)
(* as much of the "rest" as a chunk and the credit hold.                   *)
Available(st, s)     == Larger(st.entry[s].limit - st.entry[s].sent, 0)
Taken(st, s, rest)   == Smaller(Smaller(rest, MaxChunk), Available(st, s))
CanWrite(st, s)      == ~Failure(st, s) /\ ~st.entry[s].finish_queued /\ Available(st, s) > 0
Written(st, s, size) ==
    [Queued(st, s, Data(s, st.entry[s].sent, size)) EXCEPT !.entry[s].sent = @ + size]

(* Broken: a failure reads as the peer's end.                              *)
ReadEndOnFailure(st, s) ==
    LET e == st.entry[s] IN
    IF e.inbound # <<>> THEN "chunk"
    ELSE IF e.peer_finished \/ Failure(st, s) THEN "end" ELSE "wait"

(* Stream::read: the next chunk, the peer's end, the failure, or a wait.   *)
ReadResult(st, s) ==
    LET e == st.entry[s] IN
    IF e.inbound # <<>> THEN "chunk"
    ELSE IF e.peer_finished THEN "end"
    ELSE IF Failure(st, s) THEN "failure" ELSE "wait"

(* Broken: the credit given is not remembered.                             *)
ReadUnrecorded(st, s) ==
    LET e == st.entry[s]
        consumed == e.consumed + Head(e.inbound).size
        returns == ~e.peer_finished /\ consumed + Window >= e.announced + Window \div 4
        next == [st EXCEPT !.entry[s] = [e EXCEPT !.inbound = Tail(@), !.consumed = consumed]]
    IN IF returns THEN Control(next, Credit(s, consumed + Window)) ELSE next

ReadChunk(st, s) ==
    LET e == st.entry[s]
        consumed == e.consumed + Head(e.inbound).size
        returns == ~e.peer_finished /\ consumed + Window >= e.announced + Window \div 4
        read == [e EXCEPT !.inbound = Tail(@), !.consumed = consumed,
                          !.announced = IF returns THEN consumed + Window ELSE @]
        next == [st EXCEPT !.entry[s] = read]
    IN IF returns THEN Control(next, Credit(s, read.announced)) ELSE next

(* Stream::finish.                                                         *)
FinishQueued(st, s) ==
    IF s \notin st.streams \/ st.entry[s].finish_queued \/ st.entry[s].failed THEN st
    ELSE [Queued(st, s, Frame("finish", s)) EXCEPT !.entry[s].finish_queued = TRUE]

(* reset_entry, under Stream::reset and Stream::drop.                      *)
Reset(st, s) ==
    IF s \notin st.streams \/ st.entry[s].failed THEN st
    ELSE IF st.closed = "no" THEN Control(Failed(st, s), Frame("reset", s)) ELSE Failed(st, s)

Complete(e)    == e.finish_queued /\ e.peer_finished

(* Stream::drop.                                                           *)
Dropped(st, s) ==
    LET reset == IF Complete(st.entry[s]) THEN st ELSE Reset(st, s) IN
    IF s \notin st.streams THEN st
    ELSE RemovedIfFinished(
           [reset EXCEPT !.entry[s] = [@ EXCEPT !.handle_alive = FALSE, !.inbound = <<>>]], s)

(* Stream::accept and Stream::refuse, the Server's answer to Open.         *)
Accepted(st, s) == IF st.closed # "no" THEN st ELSE Control(st, Frame("opened", s))
Refused(st, s)  ==
    IF st.closed # "no" THEN st
    ELSE LET answered == Control(st, Frame("open_failed", s)) IN
         IF s \in st.streams THEN Failed(answered, s) ELSE answered

(* next_data.  Numbers whose Stream is gone or has nothing left are passed *)
(* over; the first one with an item gives it up and, with more, goes to    *)
(* the back of the line.                                                   *)
HasItem(st, s) == s \in st.streams /\ st.entry[s].outgoing # <<>>
Waiting(st)    == {i \in DOMAIN st.ready : HasItem(st, st.ready[i])}
Turn(st)       == CHOOSE i \in Waiting(st) : \A j \in Waiting(st) : i <= j
Passed(st, n)  ==
    [st EXCEPT
        !.ready = SubSeq(@, n + 1, Len(@)),
        !.entry = [s \in Numbers |->
                     IF \E i \in 1 .. n : st.ready[i] = s
                     THEN [@[s] EXCEPT !.queued = FALSE] ELSE @[s]]]

NextData(st) == Head(st.entry[st.ready[Turn(st)]].outgoing)
TookData(st) ==
    LET s    == st.ready[Turn(st)]
        rest == Tail(st.entry[s].outgoing)
        took == [Passed(st, Turn(st)) EXCEPT
                    !.entry[s] = [@ EXCEPT !.outgoing = rest, !.queued = rest # <<>>],
                    !.ready = IF rest = <<>> THEN @ ELSE Append(@, s)]
    IN RemovedIfFinished(took, s)

(* receive, for the frames of a Stream.  live_entry: a number that was     *)
(* never opened is a protocol error, one that is gone is ignored.          *)
NeverOpened(st, frame) == frame.stream > st.highest
BeyondCredit(st, frame) ==
    LET e == st.entry[frame.stream] IN
    /\ frame.stream \in st.streams /\ ~e.failed /\ ~e.peer_finished
    /\ e.received + frame.size > e.announced

DataReceived(st, frame) ==
    LET s == frame.stream
        e == st.entry[s] IN
    IF e.failed \/ e.peer_finished THEN st
    ELSE [st EXCEPT !.entry[s] =
            [e EXCEPT !.received = @ + frame.size,
                      !.inbound = IF e.handle_alive THEN Append(@, frame) ELSE @]]

CreditReceived(st, frame) == [st EXCEPT !.entry[frame.stream].limit = Larger(@, frame.at)]
OpenedReceived(st, frame) == [st EXCEPT !.entry[frame.stream].opened = TRUE]
FinishReceived(st, frame) == [st EXCEPT !.entry[frame.stream].peer_finished = TRUE]
ResetReceived(st, frame)  == RemovedIfFinished(Failed(st, frame.stream), frame.stream)

Received(st, frame) ==
    IF frame.stream \notin st.streams THEN st
    ELSE CASE frame.type = "data"   -> DataReceived(st, frame)
           [] frame.type = "credit" -> CreditReceived(st, frame)
           [] frame.type = "opened" -> OpenedReceived(st, frame)
           [] frame.type = "finish" -> FinishReceived(st, frame)
           [] frame.type \in {"reset", "open_failed"} -> ResetReceived(st, frame)
=============================================================================
