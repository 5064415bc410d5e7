------------------------------ MODULE Streams ------------------------------
(***************************************************************************)
(* A Stream connection (condr-client/src/streams.rs, ADR 0061): the        *)
(* Client's and the Server's end, each with a reader thread, a writer      *)
(* thread and the threads that hold its Streams' handles, and the          *)
(* transport between them.                                                 *)
(*                                                                         *)
(* What a thread does under the mutex is one step (StreamState).  A writer *)
(* takes a frame and writes it in one step: the frame it holds between the *)
(* two is the last one the transport has room for.                         *)
(***************************************************************************)
EXTENDS StreamState

CONSTANTS
    WireCap,    \* frames the transport holds in each direction
    Settings    \* what may happen on the connection

Ends    == {"client", "server"}
Peer(e) == IF e = "client" THEN "server" ELSE "client"

(* The world of a behaviour.  capacity is MAX_STREAMS; shuts says whether  *)
(* shutting the transport down wakes a blocked read and write, at both     *)
(* ends.  The rest bounds what the program's users do: Streams opened,     *)
(* bytes each end writes to a Stream and in which portions, the handles    *)
(* whose holder never reads, the ends that give a Stream up before it is   *)
(* complete, whether the Server refuses, the ends that close the           *)
(* connection, whether the transport fails, the Client's pings.  targets   *)
(* says what each Open asks for; this module lets every holder do          *)
(* anything, Transfers what the target's code does.                        *)
Target == {"forward", "download", "upload"}
Setting ==
    [targets : [Numbers -> Target], capacity : Nat, shuts : BOOLEAN, opens : Nat,
     bytes : [Ends -> Nat], portions : SUBSET Nat,
     stalled : SUBSET (Ends \X Numbers), gives_up : SUBSET Ends, refuses : BOOLEAN,
     closes : SUBSET Ends, breaks : BOOLEAN, pings : Nat]

ASSUME StreamsAssumption ==
    /\ WireCap \in Nat \ {0}
    /\ Settings \subseteq Setting
    /\ \A w \in Settings : w.capacity > 0 /\ 0 \notin w.portions /\ w.opens \in Numbers \union {0}

VARIABLES
    state,    \* per end: Shared.state
    held,     \* per end: the Streams whose handle somebody holds
    asked,    \* the Streams whose Open the Server's worker has yet to answer
    wire,     \* per end: the frames on their way to it
    up,       \* the transport carries frames
    reader,   \* per end: its reader thread runs
    writer,   \* per end: its writer thread runs
    wrote,    \* history: the bytes each end wrote to each Stream
    pinged,   \* pings sent
    setting   \* the world

vars == <<state, held, asked, wire, up, reader, writer, wrote, pinged, setting>>

Init ==
    /\ state = [e \in Ends |-> NewState]
    /\ held = [e \in Ends |-> {}]
    /\ asked = {}
    /\ wire = [e \in Ends |-> <<>>]
    /\ up = TRUE
    /\ reader = [e \in Ends |-> TRUE]
    /\ writer = [e \in Ends |-> TRUE]
    /\ wrote = [e \in Ends |-> [s \in Numbers |-> 0]]
    /\ pinged = 0
    /\ setting \in Settings

Set(e, st) == state' = [state EXCEPT ![e] = st]

(* The end closes; on some transports that ends the other side's read too. *)
CloseFor(e, reason) ==
    /\ Set(e, ClosedFor(state[e], reason))
    /\ up' = (up /\ ~(setting.shuts /\ state[e].closed = "no"))

-----------------------------------------------------------------------------
(* The holders of handles.                                                 *)

(* StreamConnection::open.  With the connection closed or too many Streams *)
(* it returns the error and changes nothing.                               *)
Open ==
    LET st == state["client"]
        s  == st.highest + 1 IN
    /\ st.closed = "no"
    /\ Cardinality(st.streams) < setting.capacity
    /\ s <= setting.opens
    /\ Set("client", Control(Inserted(st, s), Frame("open", s)))
    /\ held' = [held EXCEPT !["client"] = @ \union {s}]
    /\ UNCHANGED <<asked, wire, up, reader, writer, wrote, pinged, setting>>

(* Stream::accept and Stream::refuse: the Server's worker answers once.    *)
Answer(s, answered) ==
    /\ s \in asked
    /\ asked' = asked \ {s}
    /\ Set("server", answered)
    /\ UNCHANGED <<held, wire, up, reader, writer, wrote, pinged, setting>>

Accept(s) == Answer(s, Accepted(state["server"], s))
Refuse(s) == setting.refuses /\ Answer(s, Refused(state["server"], s))

Uses(e, s) == s \in held[e] /\ (e = "server" => s \notin asked)

(* Stream::write, one chunk; the bytes are the application's to bound.     *)
Write(e, s, rest) ==
    LET size == Taken(state[e], s, rest) IN
    /\ Uses(e, s)
    /\ CanWrite(state[e], s)
    /\ wrote[e][s] + size <= setting.bytes[e]
    /\ Set(e, Written(state[e], s, size))
    /\ wrote' = [wrote EXCEPT ![e][s] = @ + size]
    /\ UNCHANGED <<held, asked, wire, up, reader, writer, pinged, setting>>

(* Stream::read that returns a chunk; the other results change nothing.    *)
Read(e, s) ==
    /\ Uses(e, s)
    /\ <<e, s>> \notin setting.stalled
    /\ ReadResult(state[e], s) = "chunk"
    /\ Set(e, ReadChunk(state[e], s))
    /\ UNCHANGED <<held, asked, wire, up, reader, writer, wrote, pinged, setting>>

(* Stream::finish.                                                         *)
Finish(e, s) ==
    /\ Uses(e, s)
    /\ Set(e, FinishQueued(state[e], s))
    /\ UNCHANGED <<held, asked, wire, up, reader, writer, wrote, pinged, setting>>

(* Stream::reset.  Any thread with the handle may call it, and the others  *)
(* go on.                                                                  *)
ResetStream(e, s) ==
    /\ e \in setting.gives_up
    /\ Uses(e, s)
    /\ Set(e, Reset(state[e], s))
    /\ UNCHANGED <<held, asked, wire, up, reader, writer, wrote, pinged, setting>>

(* Stream::drop.                                                           *)
Release(e, s) ==
    /\ s \in held[e]
    /\ held' = [held EXCEPT ![e] = @ \ {s}]
    /\ asked' = IF e = "server" THEN asked \ {s} ELSE asked
    /\ Set(e, Dropped(state[e], s))
    /\ UNCHANGED <<wire, up, reader, writer, wrote, pinged, setting>>

(* The last holder is done, failed or gives up.  A worker that cannot      *)
(* start, or panics, drops the handle before it answers.                   *)
Drop(e, s) ==
    /\ e \in setting.gives_up \/ Failure(state[e], s) \/ Complete(state[e].entry[s])
    /\ Release(e, s)

(* StreamConnection::close and drop.                                       *)
Close(e) ==
    /\ e \in setting.closes
    /\ state[e].closed = "no"
    /\ CloseFor(e, "asked")
    /\ UNCHANGED <<held, asked, wire, reader, writer, wrote, pinged, setting>>

-----------------------------------------------------------------------------
(* The writer threads: write_loop.                                         *)

Carries(e) == up /\ Len(wire[e]) < WireCap

Writes(e, frame, st) ==
    /\ writer[e]
    /\ state[e].closed = "no"
    /\ Carries(Peer(e))
    /\ wire' = [wire EXCEPT ![Peer(e)] = Append(@, frame)]
    /\ Set(e, st)
    /\ UNCHANGED <<held, asked, up, reader, writer, wrote, setting>>

WriteControl(e) ==
    /\ state[e].control # <<>>
    /\ Writes(e, Head(state[e].control), [state[e] EXCEPT !.control = Tail(@)])
    /\ UNCHANGED pinged

WriteData(e) ==
    /\ state[e].control = <<>>
    /\ Waiting(state[e]) # {}
    /\ Writes(e, NextData(state[e]), TookData(state[e]))
    /\ UNCHANGED pinged

(* next_data that passes over every number in the line, and waits.         *)
PassStale(e) ==
    LET st == state[e] IN
    /\ writer[e] /\ st.closed = "no" /\ st.control = <<>>
    /\ st.ready # <<>> /\ Waiting(st) = {}
    /\ Set(e, Passed(st, Len(st.ready)))
    /\ UNCHANGED <<held, asked, wire, up, reader, writer, wrote, pinged, setting>>

(* The Client's ping, on a clock.                                          *)
Ping ==
    /\ pinged < setting.pings
    /\ Writes("client", Frame("ping", 0), state["client"])
    /\ pinged' = pinged + 1

(* The transport is gone under a write.                                    *)
WriteFails(e) ==
    /\ writer[e] /\ state[e].closed = "no" /\ ~up
    /\ state[e].control # <<>> \/ Waiting(state[e]) # {}
    /\ CloseFor(e, "ended")
    /\ writer' = [writer EXCEPT ![e] = FALSE]
    /\ UNCHANGED <<held, asked, wire, reader, wrote, pinged, setting>>

(* Broken: the writer ends without a Close.                                *)
WriteNothing(e) ==
    /\ writer[e] /\ state[e].closed # "no"
    /\ writer' = [writer EXCEPT ![e] = FALSE]
    /\ UNCHANGED <<state, held, asked, wire, up, reader, wrote, pinged, setting>>

(* The last frame, "best effort": it fails where the transport ended, or   *)
(* nobody reads the far end any more.                                      *)
WriteClose(e) ==
    /\ writer[e] /\ state[e].closed # "no"
    /\ Carries(Peer(e)) \/ ~up \/ ~reader[Peer(e)]
    /\ writer' = [writer EXCEPT ![e] = FALSE]
    /\ wire' = IF Carries(Peer(e)) THEN [wire EXCEPT ![Peer(e)] = Append(@, Frame("close", 0))]
               ELSE wire
    /\ UNCHANGED <<state, held, asked, up, reader, wrote, pinged, setting>>

-----------------------------------------------------------------------------
(* The reader threads: read_loop and receive.                              *)

Arrives(e) == reader[e] /\ wire[e] # <<>>
Taking(e)  == wire' = [wire EXCEPT ![e] = Tail(@)]

Violates(e, frame) ==
    CASE frame.type = "open" -> e = "client" \/ frame.stream <= state[e].highest
      [] frame.type = "ping" -> e = "client"
      [] frame.type = "pong" -> e = "server"
      [] frame.type \in {"opened", "open_failed"} ->
            e = "server" \/ NeverOpened(state[e], frame)
      [] frame.type = "data" -> NeverOpened(state[e], frame) \/ BeyondCredit(state[e], frame)
      [] frame.type \in {"credit", "finish", "reset"} -> NeverOpened(state[e], frame)
      [] OTHER -> FALSE

(* The frame ends the connection: the peer's Close, or a violation.        *)
ReceiveLast(e) ==
    LET frame == Head(wire[e]) IN
    /\ Arrives(e)
    /\ frame.type = "close" \/ Violates(e, frame)
    /\ Taking(e)
    /\ CloseFor(e, IF frame.type = "close" THEN "ended" ELSE "violated")
    /\ reader' = [reader EXCEPT ![e] = FALSE]
    /\ UNCHANGED <<held, asked, writer, wrote, pinged, setting>>

(* An Open: a number of its own, an entry and a handle for on_open, or     *)
(* TooManyStreams.                                                         *)
Full(st) == Cardinality(st.streams) >= setting.capacity
ReceiveOpen ==
    LET frame == Head(wire["server"])
        s     == frame.stream
        st    == state["server"] IN
    /\ Arrives("server")
    /\ frame.type = "open" /\ ~Violates("server", frame)
    /\ Taking("server")
    /\ IF Full(st)
       THEN /\ Set("server", Control([st EXCEPT !.highest = s], Frame("open_failed", s)))
            /\ UNCHANGED <<held, asked>>
       ELSE /\ Set("server", Inserted(st, s))
            /\ held' = [held EXCEPT !["server"] = @ \union {s}]
            /\ asked' = asked \union {s}
    /\ UNCHANGED <<up, reader, writer, wrote, pinged, setting>>

ReceivePing(e) ==
    LET frame == Head(wire[e]) IN
    /\ Arrives(e)
    /\ frame.type \in {"ping", "pong"} /\ ~Violates(e, frame)
    /\ Taking(e)
    /\ Set(e, IF frame.type = "ping" THEN Control(state[e], Frame("pong", 0)) ELSE state[e])
    /\ UNCHANGED <<held, asked, up, reader, writer, wrote, pinged, setting>>

OfStream == {"opened", "open_failed", "data", "credit", "finish", "reset"}
Receive(e) ==
    LET frame == Head(wire[e]) IN
    /\ Arrives(e)
    /\ frame.type \in OfStream /\ ~Violates(e, frame)
    /\ Taking(e)
    /\ Set(e, Received(state[e], frame))
    /\ UNCHANGED <<held, asked, up, reader, writer, wrote, pinged, setting>>

(* The read returns the transport's end, whatever was still on its way, or *)
(* the peer was silent for three heartbeats.                               *)
ReaderEnds(e) ==
    /\ reader[e] /\ ~up
    /\ CloseFor(e, "ended")
    /\ reader' = [reader EXCEPT ![e] = FALSE]
    /\ wire' = [wire EXCEPT ![e] = <<>>]
    /\ UNCHANGED <<held, asked, writer, wrote, pinged, setting>>

-----------------------------------------------------------------------------
(* The transport fails.                                                    *)
Break ==
    /\ setting.breaks /\ up
    /\ up' = FALSE
    /\ UNCHANGED <<state, held, asked, wire, reader, writer, wrote, pinged, setting>>

Hold(e, s) ==
    \/ \E rest \in setting.portions : Write(e, s, rest)
    \/ Read(e, s)
    \/ Finish(e, s)
    \/ ResetStream(e, s)
    \/ Drop(e, s)

WriterStep(e) == WriteControl(e) \/ WriteData(e) \/ PassStale(e) \/ WriteFails(e) \/ WriteClose(e)
ReaderStep(e) ==
    \/ ReceiveLast(e)
    \/ e = "server" /\ ReceiveOpen
    \/ ReceivePing(e)
    \/ Receive(e)
    \/ ReaderEnds(e)

Next ==
    \/ Open
    \/ \E s \in Numbers : Accept(s) \/ Refuse(s)
    \/ \E e \in Ends, s \in Numbers : Hold(e, s)
    \/ \E e \in Ends : Close(e) \/ WriterStep(e) \/ ReaderStep(e)
    \/ Ping
    \/ Break

Spec == Init /\ [][Next]_vars

-----------------------------------------------------------------------------
(* Properties.                                                             *)

Chunk == [type : {"data"}, stream : Numbers, at : Nat, size : Nat]
EntryType ==
    [limit : Nat, sent : Nat, outgoing : Seq(Chunk \union {Frame("finish", s) : s \in Numbers}),
     queued : BOOLEAN, finish_queued : BOOLEAN, inbound : Seq(Chunk), received : Nat,
     consumed : Nat, announced : Nat, peer_finished : BOOLEAN, opened : BOOLEAN,
     failed : BOOLEAN, handle_alive : BOOLEAN]
FrameType ==
    [type : OfStream \union {"open", "ping", "pong", "close"}, stream : Numbers \union {0},
     at : Nat, size : Nat]
StateType ==
    [streams : SUBSET Numbers, entry : [Numbers -> EntryType], highest : Numbers \union {0},
     control : Seq(FrameType), ready : Seq(Numbers),
     closed : {"no", "asked", "ended", "violated"}]

(* Each end's State is well formed; a live handle has its entry, which     *)
(* write and read rely on ("a live handle has its entry").                 *)
TypeOK ==
    /\ state \in [Ends -> StateType]
    /\ held \in [Ends -> SUBSET Numbers]
    /\ \A e \in Ends : held[e] = {s \in state[e].streams : state[e].entry[s].handle_alive}
    /\ asked \subseteq held["server"]
    /\ wire \in [Ends -> Seq(FrameType)]
    /\ \A e \in Ends : Len(wire[e]) <= WireCap
    /\ up \in BOOLEAN
    /\ reader \in [Ends -> BOOLEAN] /\ writer \in [Ends -> BOOLEAN]
    /\ wrote \in [Ends -> [Numbers -> Nat]]
    /\ pinged \in Nat
    /\ setting \in Settings

(* Two ends of this code never find the other in violation of the          *)
(* protocol, whatever their users do and whichever frames cross: no Open   *)
(* of a number used before, no frame for a number not opened yet, no byte  *)
(* beyond the credit given.                                                *)
NoProtocolError == \A e \in Ends : state[e].closed # "violated"

(* What "next_data" relies on: a Stream with anything to send stands in    *)
(* line once, so nothing written is left behind and none goes twice.       *)
Times(seq, s) == Cardinality({i \in DOMAIN seq : seq[i] = s})
EveryItemHasATurn ==
    \A e \in Ends : \A s \in state[e].streams :
        /\ state[e].entry[s].outgoing # <<>> => state[e].entry[s].queued
        /\ Times(state[e].ready, s) = IF state[e].entry[s].queued THEN 1 ELSE 0

(* A reader that neither reset nor lost the Stream and hears its end has   *)
(* every byte the peer wrote: Finish comes after all data, and none of it  *)
(* was dropped.                                                            *)
FinishMeansAll ==
    \A e \in Ends : \A s \in state[e].streams :
        LET entry == state[e].entry[s] IN
        entry.peer_finished /\ ~entry.failed => entry.received = wrote[Peer(e)][s]

(* Frames for Stream s that are on their way to end e.                     *)
Coming(e, s, types) ==
    LET p == Peer(e) IN
    \E frame \in {wire[e][i] : i \in DOMAIN wire[e]}
               \union {state[p].control[i] : i \in DOMAIN state[p].control} :
        frame.stream = s /\ frame.type \in types
Sending(e, s) == state[e].entry[s].outgoing # <<>> \/ Coming(Peer(e), s, {"data"})

Running == \A e \in Ends : state[e].closed = "no"

(* A write that waits for credit waits for something: bytes still on their *)
(* way or not read yet, a Credit on its way, or the news that the Stream   *)
(* failed.  No Stream is held up by rounding of the quarter window.        *)
CreditComes ==
    Running => \A e \in Ends : \A s \in held[e] :
        LET mine == state[e].entry[s]
            its  == state[Peer(e)].entry[s] IN
        ~mine.failed /\ ~mine.finish_queued /\ mine.sent = mine.limit
          => \/ Sending(e, s)
             \/ its.inbound # <<>>
             \/ Coming(e, s, {"credit", "reset", "open_failed"})

(* A Stream one end has given up does not stay open at the other: while    *)
(* the connection lasts, an end whose Stream is not failed has a peer that *)
(* still has it too, has yet to hear of it, ended it in order, or told.    *)
GivenUpIsHeard ==
    Running => \A e \in Ends : \A s \in state[e].streams :
        LET p == Peer(e)
            lost == s \notin state[p].streams \/ state[p].entry[s].failed IN
        lost /\ ~state[e].entry[s].failed
          => \/ Coming(p, s, {"open"})
             \/ Coming(e, s, {"reset", "open_failed", "finish"})
             \/ state[e].entry[s].peer_finished

(* One Stream whose holder never reads holds back no other: what is        *)
(* written is read, when its own reader reads, or the Stream ends.         *)
Over(e, s) == s \notin held[e] \/ Failure(state[e], s)
Behind(e, s) ==
    /\ <<e, s>> \notin setting.stalled
    /\ ~Over(e, s) /\ ~Over(Peer(e), s)
    /\ state[e].entry[s].consumed < wrote[Peer(e)][s]
CaughtUp == \A e \in Ends, s \in Numbers : ~Behind(e, s)
=============================================================================
