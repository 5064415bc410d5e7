----------------------------- MODULE InputQueue -----------------------------
(***************************************************************************)
(* The input of one terminal (condr-core/src/terminal/input_queue.rs):     *)
(* Client threads write keys, prompts and mouse or focus reports, the PTY  *)
(* reader writes the VT's replies, and one writer thread takes them from a *)
(* bounded channel.  Permits, counted in atomics outside the channel, are  *)
(* to leave room for every kind of input.                                  *)
(***************************************************************************)
EXTENDS Integers, Sequences, FiniteSets

CONSTANTS
    Writers,            \* threads that write user input or control reports
    UserCapacity,       \* INPUT_QUEUE_CAPACITY
    ControlReserve,     \* TERMINAL_CONTROL_QUEUE_RESERVE
    ReplyReserve,       \* TERMINAL_REPLY_QUEUE_RESERVE
    InputBytes          \* MAX_PENDING_INPUT_BYTES

ASSUME InputAssumption ==
    /\ {UserCapacity, ControlReserve, InputBytes} \subseteq Nat \ {0}
    /\ ReplyReserve = 1

VARIABLES
    channel,        \* the bounded channel
    permits,        \* pending_entries, pending_bytes, pending_control_entries
    replies,        \* TerminalReplyState and how many the reader has had accepted
    accepting,
    producer,       \* per writing thread, where it is in try_write_user or _control
    hand,           \* what the writer thread has taken
    written,        \* what has reached the terminal
    inputSpent

inputVars == <<channel, permits, replies, accepting, producer, hand, written, inputSpent>>

ChannelCapacity == UserCapacity + ReplyReserve + ControlReserve

NoInput == [kind |-> "none"]
(* A submission is written as its text and, after a while, its Enter.      *)
Input(kind, id, size) == [kind |-> kind, id |-> id, size |-> size]
IsUser(input) == input.kind \in {"keys", "submission"}
IsControl(input) == input.kind = "control"

Idle == [at |-> "idle", input |-> NoInput]

WriterRuns == hand.at # "ended"

-----------------------------------------------------------------------------
(* A thread writes user input or a control report                          *)

(* A place is taken, unless none is left or the terminal stops.            *)
TakePlace(t, kind, size) ==
    /\ producer[t] = Idle /\ inputSpent.writes < inputSpent.setting.writes
    /\ inputSpent' = [inputSpent EXCEPT !.writes = @ + 1]
    /\ LET input == Input(kind, inputSpent.writes + 1, size) IN
       \/ /\ accepting /\ IsUser(input) /\ permits.entries < UserCapacity
          /\ permits' = [permits EXCEPT !.entries = @ + 1]
          /\ producer' = [producer EXCEPT ![t] = [at |-> "placed", input |-> input]]
       \/ /\ accepting /\ IsControl(input) /\ permits.controls < ControlReserve
          /\ permits' = [permits EXCEPT !.controls = @ + 1]
          /\ producer' = [producer EXCEPT ![t] = [at |-> "permitted", input |-> input]]
       \/ /\ ~accepting \/ (IsUser(input) /\ permits.entries >= UserCapacity)
                        \/ (IsControl(input) /\ permits.controls >= ControlReserve)
          /\ UNCHANGED <<permits, producer>>
    /\ UNCHANGED <<channel, replies, accepting, hand, written>>

(* Broken: an input too large for the budget keeps its place.              *)
TakeBytesOrLeave(t) ==
    /\ producer[t].at = "placed"
    /\ LET size == producer[t].input.size IN
       IF permits.bytes + size <= InputBytes
       THEN /\ permits' = [permits EXCEPT !.bytes = @ + size]
            /\ producer' = [producer EXCEPT ![t].at = "permitted"]
       ELSE producer' = [producer EXCEPT ![t] = Idle] /\ UNCHANGED permits
    /\ UNCHANGED <<channel, replies, accepting, hand, written, inputSpent>>

(* Its bytes are taken from the budget, or its place is given back.        *)
TakeBytes(t) ==
    /\ producer[t].at = "placed"
    /\ LET size == producer[t].input.size IN
       IF permits.bytes + size <= InputBytes
       THEN /\ permits' = [permits EXCEPT !.bytes = @ + size]
            /\ producer' = [producer EXCEPT ![t].at = "permitted"]
       ELSE /\ permits' = [permits EXCEPT !.entries = @ - 1]
            /\ producer' = [producer EXCEPT ![t] = Idle]
    /\ UNCHANGED <<channel, replies, accepting, hand, written, inputSpent>>

(* The permits of an input that is dropped.                                *)
Returned(from, input) ==
    [from EXCEPT !.entries = @ - (IF IsUser(input) THEN 1 ELSE 0),
                 !.bytes = @ - (IF IsUser(input) THEN input.size ELSE 0),
                 !.controls = @ - (IF IsControl(input) THEN 1 ELSE 0)]

(* accepting is looked at again, and then the channel tried.               *)
LookAgain(t) ==
    /\ producer[t].at = "permitted"
    /\ IF accepting THEN producer' = [producer EXCEPT ![t].at = "sending"] /\ UNCHANGED permits
                    ELSE /\ producer' = [producer EXCEPT ![t] = Idle]
                         /\ permits' = Returned(permits, producer[t].input)
    /\ UNCHANGED <<channel, replies, accepting, hand, written, inputSpent>>

TrySend(t) ==
    /\ producer[t].at = "sending"
    /\ LET input == producer[t].input IN
       IF WriterRuns /\ Len(channel) < ChannelCapacity
       THEN channel' = Append(channel, input) /\ UNCHANGED permits
       ELSE permits' = Returned(permits, input) /\ UNCHANGED channel
    /\ producer' = [producer EXCEPT ![t] = Idle]
    /\ UNCHANGED <<replies, accepting, hand, written, inputSpent>>

(* The reader answers a query, in one critical section of the replies: it  *)
(* joins those that wait for the token, or becomes the token itself.       *)
WriteTerminalReply ==
    /\ inputSpent.replies < inputSpent.setting.replies
    /\ inputSpent' = [inputSpent EXCEPT !.replies = @ + 1]
    /\ LET reply == replies.accepted + 1 IN
       \/ /\ accepting /\ replies.token_queued
          /\ replies' = [replies EXCEPT !.pending = Append(@, reply), !.accepted = reply]
          /\ UNCHANGED channel
       \/ /\ accepting /\ ~replies.token_queued /\ WriterRuns /\ Len(channel) < ChannelCapacity
          /\ replies' = [replies EXCEPT !.token_queued = TRUE, !.accepted = reply]
          /\ channel' = Append(channel, Input("reply", reply, 0))
       \/ /\ ~accepting \/ (~replies.token_queued /\ ~(WriterRuns /\ Len(channel) < ChannelCapacity))
          /\ UNCHANGED <<channel, replies>>
    /\ UNCHANGED <<permits, accepting, producer, hand, written>>

-----------------------------------------------------------------------------
(* The writer thread                                                       *)

Free == [at |-> "free", input |-> NoInput]

Take ==
    /\ hand.at = "free" /\ ~inputSpent.stopping /\ channel # <<>>
    /\ hand' = [at |-> "holding", input |-> Head(channel)]
    /\ channel' = Tail(channel)
    /\ UNCHANGED <<permits, replies, accepting, producer, written, inputSpent>>

Part(input, part) == [kind |-> input.kind, id |-> input.id, part |-> part]

(* All of it is written, or the text of a submission.                      *)
WriteText ==
    /\ hand.at = "holding"
    /\ written' = Append(written, Part(hand.input, "text"))
    /\ hand' = [hand EXCEPT !.at = IF @ = "holding" /\ hand.input.kind = "submission"
                                   THEN "settling" ELSE "done"]
    /\ UNCHANGED <<channel, permits, replies, accepting, producer, inputSpent>>

(* Its Enter follows after the delay, unless the terminal stops.           *)
WriteEnter ==
    /\ hand.at = "settling"
    /\ written' = IF inputSpent.stopping THEN written
                  ELSE Append(written, Part(hand.input, "enter"))
    /\ hand' = [hand EXCEPT !.at = "done"]
    /\ UNCHANGED <<channel, permits, replies, accepting, producer, inputSpent>>

(* Broken: the token is never given back.                                  *)
FinishWithToken ==
    /\ hand.at = "done"
    /\ IF hand.input.kind = "reply" /\ replies.pending # <<>>
       THEN /\ hand' = [at |-> "holding", input |-> Input("reply", Head(replies.pending), 0)]
            /\ replies' = [replies EXCEPT !.pending = Tail(@)]
            /\ UNCHANGED permits
       ELSE hand' = Free /\ permits' = Returned(permits, hand.input) /\ UNCHANGED replies
    /\ UNCHANGED <<channel, accepting, producer, written, inputSpent>>

(* After a reply the ones that came meanwhile are written at once; the     *)
(* token is given back under the lock that looks for them.                 *)
Finish ==
    /\ hand.at = "done"
    /\ IF hand.input.kind = "reply" /\ replies.pending # <<>>
       THEN /\ hand' = [at |-> "holding", input |-> Input("reply", Head(replies.pending), 0)]
            /\ replies' = [replies EXCEPT !.pending = Tail(@)]
            /\ UNCHANGED permits
       ELSE /\ hand' = Free
            /\ replies' = IF hand.input.kind = "reply" THEN [replies EXCEPT !.token_queued = FALSE]
                          ELSE replies
            /\ permits' = Returned(permits, hand.input)
    /\ UNCHANGED <<channel, accepting, producer, written, inputSpent>>

(* The receiver is dropped in steps: accepting, the replies, and the       *)
(* channel with what it holds and the writer has.                          *)
StopsWriting ==
    \/ hand.at = "free" /\ inputSpent.stopping
    \/ hand.at \in {"holding", "settling"} /\ (inputSpent.stopping \/ inputSpent.setting.breaks)

EndWriter ==
    /\ StopsWriting
    /\ accepting' = FALSE
    /\ hand' = [hand EXCEPT !.at = "closing"]
    /\ UNCHANGED <<channel, permits, replies, producer, written, inputSpent>>

ClearReplies ==
    /\ hand.at = "closing"
    /\ replies' = [replies EXCEPT !.pending = <<>>, !.token_queued = FALSE]
    /\ hand' = [hand EXCEPT !.at = "cleared"]
    /\ UNCHANGED <<channel, permits, accepting, producer, written, inputSpent>>

DropChannel ==
    /\ hand.at = "cleared"
    /\ hand' = [at |-> "ended", input |-> NoInput]
    /\ permits' =
         LET after[i \in 0..Len(channel)] ==
               IF i = 0 THEN Returned(permits, hand.input) ELSE Returned(after[i - 1], channel[i])
         IN  after[Len(channel)]
    /\ channel' = <<>>
    /\ UNCHANGED <<replies, accepting, producer, written, inputSpent>>

(* TerminalRuntime::request_write_stop.                                    *)
RequestWriteStop ==
    /\ inputSpent.setting.stops /\ ~inputSpent.stopping
    /\ accepting' = FALSE
    /\ inputSpent' = [inputSpent EXCEPT !.stopping = TRUE]
    /\ UNCHANGED <<channel, permits, replies, producer, hand, written>>

-----------------------------------------------------------------------------
InputInit(setting) ==
    /\ channel = <<>> /\ written = <<>>
    /\ permits = [entries |-> 0, bytes |-> 0, controls |-> 0]
    /\ replies = [pending |-> <<>>, token_queued |-> FALSE, accepted |-> 0]
    /\ accepting = TRUE
    /\ producer = [t \in Writers |-> Idle]
    /\ hand = Free
    /\ inputSpent = [setting |-> setting, writes |-> 0, replies |-> 0, stopping |-> FALSE]

(* What may happen: at most so many writes and replies of the reader.      *)
InputSettings ==
    [writes : Nat, replies : Nat, kinds : SUBSET {"keys", "submission", "control"},
     sizes : SUBSET Nat, stops : BOOLEAN, breaks : BOOLEAN]

Produces(t) == TakeBytes(t) \/ LookAgain(t) \/ TrySend(t)
WritesOut == Take \/ WriteText \/ WriteEnter \/ Finish
Ends == EndWriter \/ ClearReplies \/ DropChannel

InputNext ==
    \/ \E t \in Writers :
         \/ \E kind \in inputSpent.setting.kinds, size \in inputSpent.setting.sizes :
              TakePlace(t, kind, size)
         \/ Produces(t)
    \/ WriteTerminalReply
    \/ WritesOut \/ Ends \/ RequestWriteStop

InputSpec == (\E setting \in InputSettings : InputInit(setting)) /\ [][InputNext]_inputVars

(* Threads run, and the terminal reads or stops.                           *)
InputFairness ==
    /\ \A t \in Writers : WF_inputVars(Produces(t))
    /\ WF_inputVars(WritesOut) /\ WF_inputVars(Ends)

-----------------------------------------------------------------------------
(* Properties                                                              *)

(* The inputs that hold a permit: with a thread, in the channel, in hand.  *)
Permitted(holds(_)) ==
    {<<"producer", t>> : t \in {u \in Writers : producer[u].at \in {"placed", "permitted", "sending"}
                                                  /\ holds(producer[u].input)}}
    \cup {<<"channel", i>> : i \in {j \in DOMAIN channel : holds(channel[j])}}
    \cup {<<"hand", 1>> : i \in {j \in {1} : hand.at \notin {"free", "ended"} /\ holds(hand.input)}}

InputTypeOK ==
    /\ Len(channel) <= ChannelCapacity
    /\ permits.entries = Cardinality(Permitted(IsUser))
    /\ permits.controls = Cardinality(Permitted(IsControl))
    /\ permits.bytes \in 0..InputBytes

(* Whoever has its permit finds room: no input is turned away because      *)
(* another kind has filled the channel, and the token of the replies       *)
(* always has its place (prelude.rs: TERMINAL_REPLY_QUEUE_RESERVE).        *)
RoomForEveryPermit ==
    /\ \A t \in Writers : producer[t].at = "sending" => Len(channel) < ChannelCapacity
    /\ accepting /\ ~replies.token_queued => Len(channel) < ChannelCapacity

(* How many replies are among the first n things written.                  *)
Answers(n) == Cardinality({i \in 1..n : written[i].kind = "reply"})

(* What reaches the terminal: the replies in their order, none missing,    *)
(* and the Enter of a submission right behind its text ("so another        *)
(* client's input cannot interleave").                                     *)
WrittenWhole ==
    \A i \in DOMAIN written :
      /\ written[i].kind = "reply" => written[i].id = Answers(i)
      /\ written[i].part = "enter" =>
           i > 1 /\ written[i - 1] = [written[i] EXCEPT !.part = "text"]
      /\ written[i].kind = "submission" /\ written[i].part = "text" /\ i < Len(written) =>
           written[i + 1] = [written[i] EXCEPT !.part = "enter"]

(* Both of them, with every permit out that of an input there is, whoever  *)
(* writes at the same time.                                                *)
InputIsSafe == InputTypeOK /\ RoomForEveryPermit /\ WrittenWhole

(* Everything accepted is written in the end, replies too, or the writer   *)
(* has ended; and then no permit is out (input_queue.rs: "a reply racing   *)
(* this clear will enqueue the next wake token").                          *)
InputDrains ==
    <>[](/\ channel = <<>> /\ hand.at \in {"free", "ended"} /\ replies.pending = <<>>
         /\ permits = [entries |-> 0, bytes |-> 0, controls |-> 0]
         /\ WriterRuns => ~replies.token_queued
              /\ Answers(Len(written)) = replies.accepted)
=============================================================================
