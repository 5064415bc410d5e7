---------------------------- MODULE StreamsProofs ----------------------------
(***************************************************************************)
(* Streams and Transfers, for any window, chunk, number of Streams and     *)
(* setting: the two ends of a Stream connection never find each other in   *)
(* violation of the protocol, the end of a Stream means all of it, a write *)
(* that waits for credit waits for something, and what one end gives up    *)
(* the other hears of.                                                     *)
(***************************************************************************)
EXTENDS Transfers, Induction, SequenceTheorems, FiniteSetTheorems, TLAPS

(* An end's entry of a Stream; whether it has it, had it, fails it.        *)
Entry(e, s)  == state[e].entry[s]
Has(e, s)    == s \in state[e].streams
Known(e, s)  == s <= state[e].highest
Gone(e, s)   == Known(e, s) /\ ~Has(e, s)
Live(e, s)   == ~Gone(e, s) /\ ~Entry(e, s).failed

(* The frames on the transport to end e, those its peer has queued, and    *)
(* what its peer still has in a Stream's own queue.                        *)
Items        == {"data", "finish"}
GiveUp       == {"reset", "open_failed"}
Elements(q)  == {q[i] : i \in 1 .. Len(q)}
On(e)        == Elements(wire[e])
Due(e)       == Elements(state[Peer(e)].control)
Chain(e)     == On(e) \cup Due(e)
Line(e, s)   == Elements(Entry(Peer(e), s).outgoing)

(* Of these, a Stream's data and its end, its credits, and that it failed. *)
Arriving(e, s) == {f \in On(e) : f.stream = s /\ f.type \in Items}
Datas(e, s)    == {f \in Arriving(e, s) \cup Line(e, s) : f.type = "data"}
FinOn(e, s)    == \E f \in Arriving(e, s) : f.type = "finish"
FinDue(e, s)   == \E f \in Line(e, s) : f.type = "finish"
News(e, s)     == {f \in Chain(e) : f.stream = s /\ f.type \in GiveUp \cup {"credit"}}
Limits(e, s)   == {f \in News(e, s) : f.type = "credit"}
Failing(e, s)  == \E f \in News(e, s) : f.type \in GiveUp
Until(f)       == f.at + f.size

-----------------------------------------------------------------------------
(* The invariant.  First, what one end's State looks like.                 *)

Ours(s) == {f \in FrameType : f.stream = s /\ (f.type = "data" => f.size > 0)}

(* What was read and what is to be read follow on each other.              *)
Unread(entry) ==
    /\ \A i \in 1 .. Len(entry.inbound) - 1 : Until(entry.inbound[i]) = entry.inbound[i + 1].at
    /\ entry.inbound # <<>> => /\ entry.inbound[1].at = entry.consumed
                               /\ Until(entry.inbound[Len(entry.inbound)]) = entry.received
    /\ entry.inbound = <<>> /\ entry.handle_alive => entry.consumed = entry.received

AsNew(entry) ==
    /\ entry.limit = Window /\ entry.sent = 0 /\ entry.outgoing = <<>>
    /\ ~entry.finish_queued /\ entry.inbound = <<>> /\ entry.received = 0
    /\ entry.consumed = 0 /\ entry.announced = Window
    /\ ~entry.peer_finished /\ ~entry.failed /\ entry.handle_alive

Sane(entry, s) ==
    /\ entry.sent <= entry.limit
    /\ \A f \in Elements(entry.outgoing) : f \in Ours(s) /\ f.type \in Items
    /\ \A f \in Elements(entry.inbound) : f \in Ours(s) /\ f.type = "data"
    /\ entry.failed => entry.outgoing = <<>>
    /\ ~entry.handle_alive => entry.inbound = <<>> /\ (entry.failed \/ Complete(entry))
    /\ entry.consumed <= entry.received
    /\ Unread(entry)
    /\ entry.announced >= Window /\ entry.announced <= entry.consumed + Window
    /\ entry.peer_finished \/ entry.announced > entry.consumed

EntryOk(e, s) ==
    /\ Sane(Entry(e, s), s)
    /\ ~Has(e, s) => AsNew(Entry(e, s))
    /\ Has(e, s) => Entry(e, s).sent = wrote[e][s]
    /\ ~Known(e, s) => wrote[e][s] = 0

EndOk(e) ==
    /\ \A s \in state[e].streams : Known(e, s)
    /\ \A f \in Elements(state[e].control) : f.type \notin Items
    /\ ~reader[e] => state[e].closed # "no"
    /\ \A f \in On(e) : f.type = "data" => f.size > 0

Local == (\A e \in Ends : EndOk(e)) /\ (\A e \in Ends, s \in Numbers : EntryOk(e, s))

(* Numbers are used once, and nobody hears of one before its Open.         *)
OpensLast(q, r) ==
    \A i \in 1 .. Len(q), j \in 1 .. Len(r) : r[j].type = "open" => q[i].stream < r[j].stream
OpensRise(q) ==
    \A i, j \in 1 .. Len(q) : i < j /\ q[j].type = "open" => q[i].stream < q[j].stream

ToClient ==
    \A f \in Chain("client") : f.type \notin {"open", "ping"} /\ f.stream <= state["server"].highest
ToServer ==
    /\ \A f \in Chain("server") :
         /\ f.type \notin {"pong", "opened", "open_failed"}
         /\ f.stream <= state["client"].highest
         /\ f.type = "open" => f.stream > state["server"].highest
    /\ OpensRise(wire["server"]) /\ OpensRise(state["client"].control)
    /\ OpensLast(wire["server"], state["client"].control)
    /\ reader["server"] =>
         \A s \in Numbers : Known("client", s) /\ ~Known("server", s) =>
           \E f \in Chain("server") : f.type = "open" /\ f.stream = s
Opens == state["server"].highest <= state["client"].highest /\ ToClient /\ ToServer

(* On its way a Stream's data keep their order, and its end comes last.    *)
Before(f, g) == f.type = "data" /\ (g.type = "data" => Until(f) <= g.at)
InOrder(q, s) ==
    \A i, j \in 1 .. Len(q) :
        i < j /\ q[i].stream = s /\ q[j].stream = s /\ q[i].type \in Items /\ q[j].type \in Items
          => Before(q[i], q[j])
Ordered(e, s) ==
    /\ InOrder(wire[e], s) /\ InOrder(Entry(Peer(e), s).outgoing, s)
    /\ \A f \in Arriving(e, s), g \in Line(e, s) : Before(f, g)
Order == \A e \in Ends, s \in Numbers : Ordered(e, s)

(* What end e may count on while it hears the peer's Stream s.  Credit:    *)
Credits(e, s) ==
    LET mine == Entry(e, s)  its == Entry(Peer(e), s) IN
    /\ \A f \in Datas(e, s) : Until(f) <= wrote[Peer(e)][s]
    /\ reader[e] /\ Live(e, s) =>
         \A f \in Datas(e, s) : mine.received <= f.at /\ Until(f) <= mine.announced
    /\ ~Gone(e, s) =>
         /\ its.limit <= mine.announced
         /\ \A f \in Limits(Peer(e), s) : f.at <= mine.announced

(* Everything: what is on its way has no hole, up to the end where the     *)
(* peer has not given up before it sent it.                                *)
Lasts(e, s) ==
    LET p == Peer(e) IN
    FinOn(e, s) \/ Entry(e, s).peer_finished \/ Live(p, s)
Everything(e, s) ==
    LET mine == Entry(e, s)  all == wrote[Peer(e)][s] IN
    /\ mine.received <= all
    /\ reader[e] /\ Live(e, s) =>
         /\ \A f \in Datas(e, s) : f.at = mine.received \/ \E g \in Datas(e, s) : Until(g) = f.at
         /\ Lasts(e, s) => all = mine.received \/ \E g \in Datas(e, s) : Until(g) = all

(* The end of a Stream.                                                    *)
Finishes(e, s) ==
    LET p == Peer(e)  mine == Entry(e, s)  its == Entry(p, s) IN
    /\ FinOn(e, s) \/ FinDue(e, s) \/ mine.peer_finished =>
         Known(p, s) /\ (Has(p, s) => its.finish_queued)
    /\ mine.peer_finished => Datas(e, s) = {} /\ ~FinOn(e, s) /\ ~FinDue(e, s)
    /\ mine.peer_finished /\ ~mine.failed => mine.received = wrote[p][s]
    /\ Running /\ ~Gone(e, s) /\ Has(p, s) /\ its.finish_queued /\ ~its.failed =>
         FinOn(e, s) \/ FinDue(e, s) \/ mine.peer_finished

(* What was given up is said, by who did.                                  *)
Told(e, s) ==
    LET p == Peer(e)  mine == Entry(e, s) IN
    /\ Failing(e, s) => ~Live(p, s)
    /\ Running /\ Live(e, s) /\ ~Live(p, s) =>
         Failing(e, s) \/ (mine.finish_queued /\ (FinOn(e, s) \/ mine.peer_finished))

(* The credit that was given is used, or on its way.                       *)
Given(e, s) ==
    LET p == Peer(e) IN
    Running /\ Has(p, s) /\ ~Gone(e, s) =>
      \/ Entry(p, s).limit = Entry(e, s).announced
      \/ \E f \in Limits(p, s) : f.at = Entry(e, s).announced

Agreed(e, s) == Credits(e, s) /\ Everything(e, s) /\ Finishes(e, s) /\ Told(e, s) /\ Given(e, s)
Agreement == \A e \in Ends, s \in Numbers : Agreed(e, s)

SInv == TypeOK /\ NoProtocolError /\ Local /\ Opens /\ Order /\ Agreement

(* Threads of transfers, and only they, have a place in the code.          *)
Jobs == \A e \in Ends, s \in Numbers : ~IsTransfer(s) => job[e][s] = "idle"

-----------------------------------------------------------------------------
(* The two ends, and sequences of frames.                                  *)

(* There are two ends, each the other's peer.                              *)
LEMMA Peers ==
    /\ \A e \in Ends : Peer(e) \in Ends /\ Peer(Peer(e)) = e /\ Peer(e) # e
    /\ \A d, e \in Ends : d = e \/ d = Peer(e)
    /\ "client" \in Ends /\ "server" \in Ends
    /\ Peer("client") = "server" /\ Peer("server") = "client"
BY DEF Ends, Peer

(* The elements of a sequence that one joins.                              *)
LEMMA ElementsOfAppend ==
    ASSUME NEW S, NEW q \in Seq(S), NEW x
    PROVE  Elements(Append(q, x)) = Elements(q) \cup {x}
BY DEF Elements

(* The elements of a sequence that the first leaves.                       *)
LEMMA ElementsOfHead ==
    ASSUME NEW S, NEW q \in Seq(S), q # <<>>
    PROVE  /\ Elements(q) = {Head(q)} \cup Elements(Tail(q))
           /\ Tail(q) \in Seq(S) /\ Head(q) \in S /\ Head(q) \in Elements(q)
           /\ Len(Tail(q)) < Len(q)
<1>1. /\ Len(q) \in Nat \ {0} /\ Head(q) = q[1] /\ Len(Tail(q)) = Len(q) - 1
      /\ \A i \in 1 .. Len(q) - 1 : Tail(q)[i] = q[i + 1]
      /\ Tail(q) \in Seq(S) /\ q[1] \in S
  OBVIOUS
<1> DEFINE r == Tail(q)
<1> HIDE DEF r
<1>2. /\ Len(r) = Len(q) - 1
      /\ \A i \in 1 .. Len(q) - 1 : r[i] = q[i + 1]
  BY <1>1 DEF r
<1>3. Elements(q) = {q[1]} \cup Elements(r)
  <2>1. ASSUME NEW x \in Elements(q) PROVE x = q[1] \/ x \in Elements(r)
    <3>1. PICK i \in 1 .. Len(q) : x = q[i]
      BY DEF Elements
    <3>2. CASE i # 1
      <4>1. i - 1 \in 1 .. Len(r) /\ r[i - 1] = q[i]
        BY <1>1, <1>2, <3>2
      <4> QED
        BY <3>1, <4>1 DEF Elements
    <3> QED
      BY <3>1, <3>2
  <2>2. ASSUME NEW x \in Elements(r) PROVE x \in Elements(q)
    BY <1>1, <1>2 DEF Elements
  <2>3. q[1] \in Elements(q)
    BY <1>1 DEF Elements
  <2> QED
    BY <2>1, <2>2, <2>3
<1> QED
  BY <1>1, <1>3 DEF r

(* Nothing is in an empty sequence.                                        *)
LEMMA ElementsOfNone == Elements(<<>>) = {}
BY DEF Elements

(* A sequence is empty where its length is zero.                           *)
LEMMA LenOfNone ==
    ASSUME NEW S, NEW q \in Seq(S)
    PROVE  Len(q) \in Nat /\ (q = <<>> <=> Len(q) = 0)
OBVIOUS

(* Elements of a sequence over S are of S.                                 *)
LEMMA ElementsIn ==
    ASSUME NEW S, NEW q \in Seq(S)
    PROVE  Elements(q) \subseteq S
BY DEF Elements

(* Order within a sequence, when a frame joins it or leaves it.            *)
LEMMA InOrderJoins ==
    ASSUME NEW S, NEW q \in Seq(S), NEW x, NEW s, InOrder(q, s),
           x.stream = s /\ x.type \in Items =>
             \A f \in Elements(q) : f.stream = s /\ f.type \in Items => Before(f, x)
    PROVE  InOrder(Append(q, x), s)
BY DEF Elements, InOrder

(* Order within what is left.                                              *)
LEMMA InOrderLeaves ==
    ASSUME NEW S, NEW q \in Seq(S), NEW s, InOrder(q, s), q # <<>>
    PROVE  /\ InOrder(Tail(q), s)
           /\ Head(q).stream = s /\ Head(q).type \in Items =>
                \A f \in Elements(Tail(q)) :
                    f.stream = s /\ f.type \in Items => Before(Head(q), f)
<1> DEFINE r == Tail(q)
<1>1. /\ Len(q) \in Nat \ {0} /\ Head(q) = q[1] /\ Len(r) = Len(q) - 1
      /\ \A i \in 1 .. Len(q) - 1 : r[i] = q[i + 1]
  OBVIOUS
<1> HIDE DEF r
<1>2. InOrder(r, s)
  BY <1>1 DEF InOrder
<1>3. ASSUME q[1].stream = s, q[1].type \in Items,
             NEW f \in Elements(r), f.stream = s, f.type \in Items
      PROVE  Before(q[1], f)
  <2>1. PICK i \in 1 .. Len(r) : f = r[i]
    BY DEF Elements
  <2>2. f = q[i + 1] /\ 1 \in 1 .. Len(q) /\ i + 1 \in 1 .. Len(q) /\ 1 < i + 1
    BY <1>1, <2>1
  <2> QED
    BY <1>3, <2>2 DEF InOrder
<1> QED
  BY <1>1, <1>2, <1>3 DEF r

(* Credits that rise, when a larger one is queued.                         *)
LEMMA RiseJoins ==
    ASSUME NEW S, NEW q \in Seq(S), NEW x, OpensRise(q),
           x.type = "open" => \A f \in Elements(q) : f.stream < x.stream
    PROVE  OpensRise(Append(q, x))
BY DEF Elements, OpensRise

(* Credits that rise, when the first is taken.                             *)
LEMMA RiseLeaves ==
    ASSUME NEW S, NEW q \in Seq(S), OpensRise(q), q # <<>>
    PROVE  /\ OpensRise(Tail(q))
           /\ \A f \in Elements(Tail(q)) : f.type = "open" => Head(q).stream < f.stream
BY DEF OpensRise, Elements

(* OpensLast speaks of the frames, not of their places.                    *)
LEMMA LastOf ==
    ASSUME NEW q, NEW r
    PROVE  OpensLast(q, r) <=>
             \A f \in Elements(q), g \in Elements(r) : g.type = "open" => f.stream < g.stream
BY DEF OpensLast, Elements

-----------------------------------------------------------------------------
(* What the locked sections do to one end's State.  "queued" and "opened"  *)
(* matter to no other field.                                               *)

SameSending(a, b) ==
    /\ b.limit = a.limit /\ b.sent = a.sent /\ b.outgoing = a.outgoing
    /\ b.finish_queued = a.finish_queued /\ b.failed = a.failed
SameReceiving(a, b) ==
    /\ b.inbound = a.inbound /\ b.received = a.received /\ b.consumed = a.consumed
    /\ b.announced = a.announced /\ b.peer_finished = a.peer_finished
    /\ b.handle_alive = a.handle_alive
Alike(a, b) == SameSending(a, b) /\ SameReceiving(a, b)

SameStreams(st, new) ==
    new.streams = st.streams /\ new.highest = st.highest /\ new.closed = st.closed
OtherEntries(st, new, s) == \A t \in Numbers \ {s} : Alike(st.entry[t], new.entry[t])

(* Changing an entry of a State changes that entry alone.                  *)
LEMMA EntrySet ==
    ASSUME NEW st \in StateType, NEW s \in Numbers, NEW en \in EntryType
    PROVE  LET new == [st EXCEPT !.entry[s] = en] IN
           /\ new \in StateType
           /\ SameStreams(st, new) /\ OtherEntries(st, new, s)
           /\ new.control = st.control /\ new.ready = st.ready /\ new.entry[s] = en
BY DEF StateType, SameStreams, OtherEntries, Alike, SameSending, SameReceiving

(* push_control: the frame joins the queue unless the State closed.        *)
LEMMA ControlIs ==
    ASSUME NEW st \in StateType, NEW f \in FrameType
    PROVE  LET new == Control(st, f) IN
           /\ new \in StateType
           /\ SameStreams(st, new) /\ new.entry = st.entry
           /\ new.control = Append(st.control, f)
<1>1. st.control \in Seq(FrameType)
  BY DEF StateType
<1>2. Append(st.control, f) \in Seq(FrameType)
  BY <1>1
<1> QED
  BY <1>2 DEF StateType, Control, SameStreams

(* close: nothing but the flag.                                            *)
LEMMA ClosedIs ==
    ASSUME NEW st \in StateType, NEW reason \in {"asked", "ended", "violated"}
    PROVE  LET new == ClosedFor(st, reason) IN
           /\ new \in StateType
           /\ new.streams = st.streams /\ new.highest = st.highest
           /\ new.entry = st.entry /\ new.control = st.control
           /\ new.closed # "no"
           /\ st.closed # "violated" /\ reason # "violated" => new.closed # "violated"
BY DEF StateType, ClosedFor

(* A new entry is an entry.                                                *)
LEMMA NewEntryType == NewEntry \in EntryType /\ AsNew(NewEntry)
BY StateAssumption DEF NewEntry, EntryType, AsNew

(* insert: the Stream joins the table, with a new entry.                   *)
LEMMA InsertedIs ==
    ASSUME NEW st \in StateType, NEW s \in Numbers
    PROVE  LET new == Inserted(st, s) IN
           /\ new \in StateType
           /\ new.streams = st.streams \cup {s} /\ new.highest = s /\ new.closed = st.closed
           /\ new.entry = st.entry /\ new.control = st.control
BY DEF StateType, Inserted

(* The frames of the protocol are of their type.                           *)
LEMMA FrameIn ==
    ASSUME NEW type, NEW s \in Numbers \cup {0}
    PROVE  /\ type \in OfStream \cup {"open", "ping", "pong", "close"} => Frame(type, s) \in FrameType
           /\ Frame(type, s).type = type /\ Frame(type, s).stream = s
           /\ Frame(type, s).at = 0 /\ Frame(type, s).size = 0
BY DEF Frame, FrameType

(* So are chunks of data,                                                  *)
LEMMA DataIn ==
    ASSUME NEW s \in Numbers, NEW at \in Nat, NEW size \in Nat
    PROVE  /\ Data(s, at, size) \in Chunk /\ Data(s, at, size) \in FrameType
           /\ Data(s, at, size).type = "data" /\ Data(s, at, size).stream = s
           /\ Data(s, at, size).at = at /\ Data(s, at, size).size = size
BY DEF Data, Chunk, FrameType, OfStream

(* and credits.                                                            *)
LEMMA CreditIn ==
    ASSUME NEW s \in Numbers, NEW at \in Nat
    PROVE  /\ Credit(s, at) \in FrameType
           /\ Credit(s, at).type = "credit" /\ Credit(s, at).stream = s /\ Credit(s, at).at = at
BY DEF Credit, FrameType, OfStream

ItemType == Chunk \cup {Frame("finish", s) : s \in Numbers}

(* schedule: a Stream that has something to send waits for its turn once.  *)
LEMMA QueuedIs ==
    ASSUME NEW st \in StateType, NEW s \in Numbers, NEW item \in ItemType
    PROVE  LET new == Queued(st, s, item)  a == st.entry[s]  b == new.entry[s] IN
           /\ new \in StateType
           /\ SameStreams(st, new) /\ OtherEntries(st, new, s) /\ new.control = st.control
           /\ SameReceiving(a, b)
           /\ b.limit = a.limit /\ b.sent = a.sent /\ b.outgoing = Append(a.outgoing, item)
           /\ b.finish_queued = a.finish_queued /\ b.failed = a.failed
<1> DEFINE a == st.entry[s]
           en == [a EXCEPT !.outgoing = Append(@, item), !.queued = TRUE]
           one == [st EXCEPT !.entry[s] = en]
           line == IF a.queued THEN st.ready ELSE Append(st.ready, s)
           new == [one EXCEPT !.ready = line]
<1>1. a \in EntryType /\ st.ready \in Seq(Numbers)
  BY DEF StateType
<1>2. Append(a.outgoing, item) \in Seq(Chunk \cup {Frame("finish", t) : t \in Numbers})
  BY <1>1 DEF EntryType, ItemType
<1>3. en \in EntryType
  BY <1>1, <1>2 DEF EntryType
<1>4. /\ SameReceiving(a, en)
      /\ en.limit = a.limit /\ en.sent = a.sent /\ en.outgoing = Append(a.outgoing, item)
      /\ en.finish_queued = a.finish_queued /\ en.failed = a.failed
  BY <1>1 DEF EntryType, SameReceiving
<1>5. line \in Seq(Numbers)
  BY <1>1
<1>6. Queued(st, s, item) = new
  BY DEF Queued
<1> HIDE DEF en, line, a
<1>7. /\ one \in StateType
      /\ SameStreams(st, one) /\ OtherEntries(st, one, s)
      /\ one.control = st.control /\ one.entry[s] = en
  BY <1>3, EntrySet
<1> HIDE DEF one
<1>8. /\ new \in StateType
      /\ new.streams = one.streams /\ new.highest = one.highest /\ new.closed = one.closed
      /\ new.entry = one.entry /\ new.control = one.control
  BY <1>5, <1>7 DEF StateType
<1>9. SameStreams(st, new) /\ OtherEntries(st, new, s) /\ new.control = st.control
      /\ new.entry[s] = en
  BY <1>7, <1>8 DEF SameStreams, OtherEntries
<1> QED
  BY <1>4, <1>6, <1>8, <1>9 DEF a

(* StreamWriter: what a write changes.                                     *)
LEMMA WrittenIs ==
    ASSUME NEW st \in StateType, NEW s \in Numbers, NEW size \in Nat
    PROVE  LET new == Written(st, s, size)  a == st.entry[s]  b == new.entry[s] IN
           /\ new \in StateType
           /\ SameStreams(st, new) /\ OtherEntries(st, new, s) /\ new.control = st.control
           /\ SameReceiving(a, b)
           /\ b.limit = a.limit /\ b.sent = a.sent + size
           /\ b.outgoing = Append(a.outgoing, Data(s, a.sent, size))
           /\ b.finish_queued = a.finish_queued /\ b.failed = a.failed
<1> DEFINE a == st.entry[s]
           one == Queued(st, s, Data(s, a.sent, size))
<1>1. a \in EntryType /\ a.sent \in Nat
  BY DEF StateType, EntryType
<1>2. Data(s, a.sent, size) \in ItemType
  BY <1>1, DataIn DEF ItemType
<1>3. /\ one \in StateType
      /\ SameStreams(st, one) /\ OtherEntries(st, one, s) /\ one.control = st.control
      /\ SameReceiving(a, one.entry[s])
      /\ one.entry[s].limit = a.limit /\ one.entry[s].sent = a.sent
      /\ one.entry[s].outgoing = Append(a.outgoing, Data(s, a.sent, size))
      /\ one.entry[s].finish_queued = a.finish_queued /\ one.entry[s].failed = a.failed
  BY <1>2, QueuedIs
<1>4. Written(st, s, size) = [one EXCEPT !.entry[s].sent = @ + size]
  BY DEF Written
<1> HIDE DEF one
<1>5. one.entry[s] \in EntryType
  BY <1>3 DEF StateType
<1> DEFINE c == one.entry[s]
           n == c.sent + size
           en == [c EXCEPT !.sent = n]
           new == [one EXCEPT !.entry[s] = en]
<1>6. Written(st, s, size) = new
  BY <1>4
<1>11. c \in EntryType
  BY <1>5
<1> HIDE DEF c
<1>12. n \in Nat
  BY <1>11 DEF EntryType
<1> HIDE DEF n
<1>7. en \in EntryType /\ SameReceiving(c, en)
      /\ en.limit = c.limit /\ en.sent = n
      /\ en.outgoing = c.outgoing
      /\ en.finish_queued = c.finish_queued /\ en.failed = c.failed
  BY <1>11, <1>12 DEF EntryType, SameReceiving
<1> HIDE DEF en, a
<1>8. /\ new \in StateType
      /\ SameStreams(one, new) /\ OtherEntries(one, new, s)
      /\ new.control = one.control /\ new.entry[s] = en
  BY <1>3, <1>7, EntrySet
<1> HIDE DEF new
<1>9. SameStreams(st, new) /\ OtherEntries(st, new, s) /\ new.control = st.control
  BY <1>3, <1>8 DEF SameStreams, OtherEntries, Alike, SameSending, SameReceiving
<1>10. SameReceiving(a, new.entry[s])
  BY <1>3, <1>7, <1>8 DEF SameReceiving, c
<1> QED
  BY <1>3, <1>6, <1>7, <1>8, <1>9, <1>10 DEF a, c, n

(* finish: what it changes.                                                *)
LEMMA FinishIs ==
    ASSUME NEW st \in StateType, NEW s \in Numbers
    PROVE  LET new == [Queued(st, s, Frame("finish", s)) EXCEPT !.entry[s].finish_queued = TRUE]
               a == st.entry[s]  b == new.entry[s] IN
           /\ new \in StateType
           /\ SameStreams(st, new) /\ OtherEntries(st, new, s) /\ new.control = st.control
           /\ SameReceiving(a, b)
           /\ b.limit = a.limit /\ b.sent = a.sent
           /\ b.outgoing = Append(a.outgoing, Frame("finish", s))
           /\ b.finish_queued /\ b.failed = a.failed
<1> DEFINE a == st.entry[s]
           one == Queued(st, s, Frame("finish", s))
<1>1. Frame("finish", s) \in ItemType
  BY DEF ItemType
<1>2. /\ one \in StateType
      /\ SameStreams(st, one) /\ OtherEntries(st, one, s) /\ one.control = st.control
      /\ SameReceiving(a, one.entry[s])
      /\ one.entry[s].limit = a.limit /\ one.entry[s].sent = a.sent
      /\ one.entry[s].outgoing = Append(a.outgoing, Frame("finish", s))
      /\ one.entry[s].failed = a.failed
  BY <1>1, QueuedIs
<1> HIDE DEF one
<1>3. one.entry[s] \in EntryType
  BY <1>2 DEF StateType
<1> DEFINE c == one.entry[s]
           en == [c EXCEPT !.finish_queued = TRUE]
           new == [one EXCEPT !.entry[s] = en]
<1>4. new = [one EXCEPT !.entry[s].finish_queued = TRUE]
  OBVIOUS
<1> HIDE DEF c
<1>5. en \in EntryType /\ SameReceiving(c, en)
      /\ en.limit = c.limit /\ en.sent = c.sent
      /\ en.outgoing = c.outgoing
      /\ en.finish_queued /\ en.failed = c.failed
  BY <1>3 DEF EntryType, SameReceiving, c
<1> HIDE DEF en, a
<1>6. /\ new \in StateType
      /\ SameStreams(one, new) /\ OtherEntries(one, new, s)
      /\ new.control = one.control /\ new.entry[s] = en
  BY <1>2, <1>5, EntrySet
<1> HIDE DEF new
<1>7. SameStreams(st, new) /\ OtherEntries(st, new, s) /\ new.control = st.control
  BY <1>2, <1>6 DEF SameStreams, OtherEntries, Alike, SameSending, SameReceiving
<1>8. SameReceiving(a, new.entry[s])
  BY <1>2, <1>5, <1>6 DEF SameReceiving, c
<1> QED
  BY <1>2, <1>4, <1>5, <1>6, <1>7, <1>8 DEF one, a, c

(* StreamReader: what a read changes, with its credit.                     *)
LEMMA ReadIs ==
    ASSUME NEW st \in StateType, NEW s \in Numbers, st.entry[s].inbound # <<>>
    PROVE  LET new == ReadChunk(st, s)  a == st.entry[s]  b == new.entry[s] IN
           /\ new \in StateType
           /\ SameStreams(st, new) /\ OtherEntries(st, new, s)
           /\ SameSending(a, b)
           /\ b.inbound = Tail(a.inbound) /\ b.received = a.received
           /\ b.consumed = a.consumed + Head(a.inbound).size
           /\ b.peer_finished = a.peer_finished /\ b.handle_alive = a.handle_alive
           /\ \/ /\ b.announced = b.consumed + Window
                 /\ new.control = Append(st.control, Credit(s, b.announced))
              \/ /\ b.announced = a.announced /\ new.control = st.control
                 /\ ~a.peer_finished => b.consumed + Window < a.announced + Window \div 4
<1> DEFINE a == st.entry[s]
           n == a.consumed + Head(a.inbound).size
           m == n + Window
           returns == ~a.peer_finished /\ m >= a.announced + Window \div 4
           given == IF returns THEN m ELSE a.announced
           en == [a EXCEPT !.inbound = Tail(@), !.consumed = n, !.announced = given]
           one == [st EXCEPT !.entry[s] = en]
           new == IF returns THEN Control(one, Credit(s, en.announced)) ELSE one
<1>1. a \in EntryType
  BY DEF StateType
<1>2. a.inbound \in Seq(Chunk) /\ a.consumed \in Nat /\ a.announced \in Nat
  BY <1>1 DEF EntryType
<1>3. Tail(a.inbound) \in Seq(Chunk) /\ Head(a.inbound) \in Chunk
  BY <1>2, ElementsOfHead
<1>4. Head(a.inbound).size \in Nat
  BY <1>3 DEF Chunk
<1>5. n \in Nat /\ m \in Nat /\ given \in Nat
  <2>1. n \in Nat
    <3>1. PICK c \in Nat, size \in Nat : c = a.consumed /\ size = Head(a.inbound).size
      BY <1>2, <1>4
    <3>2. n = c + size
      BY <3>1
    <3> QED
      BY <3>2
  <2> HIDE DEF n
  <2>2. m \in Nat
    BY <2>1, StateAssumption
  <2> HIDE DEF m, returns
  <2> QED
    BY <1>2, <2>1, <2>2
<1>6. ReadChunk(st, s) = new
  BY DEF ReadChunk
<1>11. ~returns /\ ~a.peer_finished => n + Window < a.announced + Window \div 4
  BY <1>2, <1>5, StateAssumption
<1>12. m = n + Window /\ n = a.consumed + Head(a.inbound).size
  OBVIOUS
<1>13. given = IF returns THEN m ELSE a.announced
  OBVIOUS
<1> HIDE DEF a, n, m, given, returns
<1>7. /\ en \in EntryType
      /\ SameSending(a, en)
      /\ en.inbound = Tail(a.inbound) /\ en.received = a.received /\ en.consumed = n
      /\ en.announced = given
      /\ en.peer_finished = a.peer_finished /\ en.handle_alive = a.handle_alive
  BY <1>1, <1>3, <1>5 DEF EntryType, SameSending
<1> HIDE DEF en
<1>8. /\ one \in StateType
      /\ SameStreams(st, one) /\ OtherEntries(st, one, s)
      /\ one.control = st.control /\ one.entry[s] = en
  BY <1>7, EntrySet
<1> HIDE DEF one
<1>9. Credit(s, en.announced) \in FrameType
  BY <1>5, <1>7, CreditIn
<1>10. /\ new \in StateType /\ SameStreams(one, new) /\ new.entry = one.entry
       /\ new.control = IF returns THEN Append(one.control, Credit(s, given)) ELSE one.control
  BY <1>7, <1>8, <1>9, ControlIs DEF SameStreams
<1> HIDE DEF new
<1>14. SameStreams(st, new) /\ OtherEntries(st, new, s) /\ new.entry[s] = en
  BY <1>8, <1>10 DEF SameStreams, OtherEntries
<1>15. \/ /\ en.announced = en.consumed + Window
          /\ new.control = Append(st.control, Credit(s, en.announced))
       \/ /\ en.announced = a.announced /\ new.control = st.control
          /\ ~a.peer_finished => en.consumed + Window < a.announced + Window \div 4
  BY <1>7, <1>8, <1>10, <1>11, <1>12, <1>13
<1> QED
  BY <1>6, <1>7, <1>10, <1>12, <1>14, <1>15 DEF a

(* fail: the Stream's own queue is dropped.                                *)
LEMMA FailedIs ==
    ASSUME NEW st \in StateType, NEW s \in Numbers
    PROVE  LET new == Failed(st, s)  a == st.entry[s]  b == new.entry[s] IN
           /\ new \in StateType
           /\ SameStreams(st, new) /\ OtherEntries(st, new, s) /\ new.control = st.control
           /\ SameReceiving(a, b)
           /\ b.limit = a.limit /\ b.sent = a.sent /\ b.outgoing = <<>>
           /\ b.finish_queued = a.finish_queued /\ b.failed
<1> DEFINE a == st.entry[s]
           en == [a EXCEPT !.outgoing = <<>>, !.failed = TRUE]
           new == [st EXCEPT !.entry[s] = en]
<1>1. a \in EntryType
  BY DEF StateType
<1>2. <<>> \in Seq(Chunk \cup {Frame("finish", t) : t \in Numbers})
  OBVIOUS
<1>3. Failed(st, s) = new
  BY DEF Failed
<1> HIDE DEF a
<1>4. /\ en \in EntryType /\ SameReceiving(a, en)
      /\ en.limit = a.limit /\ en.sent = a.sent /\ en.outgoing = <<>>
      /\ en.finish_queued = a.finish_queued /\ en.failed
  BY <1>1, <1>2 DEF EntryType, SameReceiving
<1> HIDE DEF en
<1>5. /\ new \in StateType
      /\ SameStreams(st, new) /\ OtherEntries(st, new, s)
      /\ new.control = st.control /\ new.entry[s] = en
  BY <1>4, EntrySet
<1> QED
  BY <1>3, <1>4, <1>5 DEF a

Leaves(st, s) == s \in st.streams /\ ~st.entry[s].handle_alive /\ st.entry[s].outgoing = <<>>

(* forget: the Stream leaves the table and the turns.                      *)
LEMMA RemovedIs ==
    ASSUME NEW st \in StateType, NEW s \in Numbers
    PROVE  LET new == RemovedIfFinished(st, s) IN
           /\ new \in StateType
           /\ new.highest = st.highest /\ new.closed = st.closed /\ new.control = st.control
           /\ OtherEntries(st, new, s)
           /\ Leaves(st, s) => new.streams = st.streams \ {s} /\ AsNew(new.entry[s])
           /\ ~Leaves(st, s) => new = st
<1> DEFINE en == NewEntry
           one == [st EXCEPT !.entry[s] = en]
           new == [one EXCEPT !.streams = @ \ {s}]
<1>1. en \in EntryType /\ AsNew(en)
  BY NewEntryType
<1> HIDE DEF en
<1>2. /\ one \in StateType
      /\ SameStreams(st, one) /\ OtherEntries(st, one, s)
      /\ one.control = st.control /\ one.entry[s] = en
  BY <1>1, EntrySet
<1>3. RemovedIfFinished(st, s) = IF Leaves(st, s) THEN new ELSE st
  BY <1>2 DEF SameStreams, RemovedIfFinished, Leaves, StateType, en
<1> HIDE DEF one
<1>4. /\ new \in StateType
      /\ new.streams = one.streams \ {s} /\ new.highest = one.highest
      /\ new.closed = one.closed /\ new.entry = one.entry /\ new.control = one.control
  BY <1>2 DEF StateType
<1> HIDE DEF new
<1>5. /\ new.highest = st.highest /\ new.closed = st.closed /\ new.control = st.control
      /\ OtherEntries(st, new, s) /\ new.streams = st.streams \ {s} /\ AsNew(new.entry[s])
  BY <1>1, <1>2, <1>4 DEF SameStreams, OtherEntries
<1>6. OtherEntries(st, st, s)
  BY DEF OtherEntries, Alike, SameSending, SameReceiving
<1> QED
  BY <1>3, <1>4, <1>5, <1>6

(* A turn that passes leaves the Streams as they are.                      *)
LEMMA PassedIs ==
    ASSUME NEW st \in StateType, NEW n \in Nat, n <= Len(st.ready)
    PROVE  LET new == Passed(st, n) IN
           /\ new \in StateType
           /\ SameStreams(st, new) /\ new.control = st.control
           /\ \A t \in Numbers : Alike(st.entry[t], new.entry[t])
<1> DEFINE rest == SubSeq(st.ready, n + 1, Len(st.ready))
           all == [s \in Numbers |->
                     IF \E i \in 1 .. n : st.ready[i] = s
                     THEN [st.entry[s] EXCEPT !.queued = FALSE] ELSE st.entry[s]]
           new == [st EXCEPT !.ready = rest, !.entry = all]
<1>1. st.ready \in Seq(Numbers) /\ st.entry \in [Numbers -> EntryType]
  BY DEF StateType
<1>2. rest \in Seq(Numbers)
  BY <1>1
<1>3. ASSUME NEW t \in Numbers, NEW en \in EntryType
      PROVE  LET b == [en EXCEPT !.queued = FALSE] IN b \in EntryType /\ Alike(en, b)
  BY DEF EntryType, Alike, SameSending, SameReceiving
<1>4. ASSUME NEW t \in Numbers PROVE all[t] \in EntryType /\ Alike(st.entry[t], all[t])
  BY <1>1, <1>3 DEF Alike, SameSending, SameReceiving
<1>5. all \in [Numbers -> EntryType]
  BY <1>4
<1>6. Passed(st, n) = new
  BY DEF Passed
<1> HIDE DEF rest, all
<1>7. new \in StateType /\ new.entry = all /\ new.control = st.control /\ SameStreams(st, new)
  BY <1>2, <1>5 DEF StateType, SameStreams
<1> QED
  BY <1>4, <1>6, <1>7

(* The turn is of a Stream that waits.                                     *)
LEMMA TurnIs ==
    ASSUME NEW st \in StateType, Waiting(st) # {}
    PROVE  /\ Turn(st) \in 1 .. Len(st.ready) /\ st.ready[Turn(st)] \in Numbers
           /\ HasItem(st, st.ready[Turn(st)])
<1>1. st.ready \in Seq(Numbers)
  BY DEF StateType
<1>2. Waiting(st) \subseteq 1 .. Len(st.ready)
  BY <1>1 DEF Waiting
<1>3. \E i \in Waiting(st) : \A j \in Waiting(st) : i <= j
  BY <1>2, LeastNumber
<1>4. Turn(st) \in Waiting(st)
  BY <1>3 DEF Turn
<1> QED
  BY <1>1, <1>2, <1>4 DEF Waiting

(* next_frame: the first of the Stream whose turn it is.                   *)
LEMMA TookIs ==
    ASSUME NEW st \in StateType, Waiting(st) # {}
    PROVE  LET s == st.ready[Turn(st)]  a == st.entry[s] IN
           /\ s \in Numbers /\ s \in st.streams /\ a.outgoing # <<>>
           /\ NextData(st) = Head(a.outgoing)
           /\ \E mid \in StateType :
                /\ TookData(st) = RemovedIfFinished(mid, s)
                /\ SameStreams(st, mid) /\ OtherEntries(st, mid, s) /\ mid.control = st.control
                /\ SameReceiving(a, mid.entry[s])
                /\ mid.entry[s].limit = a.limit /\ mid.entry[s].sent = a.sent
                /\ mid.entry[s].outgoing = Tail(a.outgoing)
                /\ mid.entry[s].finish_queued = a.finish_queued
                /\ mid.entry[s].failed = a.failed
<1> DEFINE n == Turn(st)
           s == st.ready[n]
           a == st.entry[s]
           rest == Tail(a.outgoing)
           one == Passed(st, n)
           b == one.entry[s]
           en == [b EXCEPT !.outgoing = rest, !.queued = rest # <<>>]
           two == [one EXCEPT !.entry[s] = en]
           line == IF rest = <<>> THEN one.ready ELSE Append(one.ready, s)
           mid == [two EXCEPT !.ready = line]
<1>1. n \in 1 .. Len(st.ready) /\ s \in Numbers /\ s \in st.streams /\ a.outgoing # <<>>
  BY TurnIs DEF HasItem
<1>2. TookData(st) = RemovedIfFinished(mid, s)
  BY DEF TookData
<1>3. NextData(st) = Head(a.outgoing)
  BY DEF NextData
<1>4. n \in Nat /\ n <= Len(st.ready)
  BY <1>1 DEF StateType
<1> HIDE DEF n, s
<1>5. /\ one \in StateType
      /\ SameStreams(st, one) /\ one.control = st.control
      /\ \A t \in Numbers : Alike(st.entry[t], one.entry[t])
  BY <1>4, PassedIs
<1> HIDE DEF one
<1>6. a \in EntryType /\ b \in EntryType /\ one.ready \in Seq(Numbers) /\ Alike(a, b)
  BY <1>1, <1>5 DEF StateType
<1> HIDE DEF a, b
<1>7. rest \in Seq(Chunk \cup {Frame("finish", t) : t \in Numbers})
  BY <1>1, <1>6, ElementsOfHead DEF EntryType
<1>8. line \in Seq(Numbers)
  BY <1>1, <1>6
<1> HIDE DEF rest, line
<1>9. (rest # <<>>) \in BOOLEAN
  OBVIOUS
<1>10. /\ en \in EntryType /\ SameReceiving(b, en)
       /\ en.limit = b.limit /\ en.sent = b.sent /\ en.outgoing = rest
       /\ en.finish_queued = b.finish_queued /\ en.failed = b.failed
  BY <1>6, <1>7, <1>9 DEF EntryType, SameReceiving
<1> HIDE DEF en
<1>11. /\ two \in StateType
       /\ SameStreams(one, two) /\ OtherEntries(one, two, s)
       /\ two.control = one.control /\ two.entry[s] = en
  BY <1>1, <1>5, <1>10, EntrySet
<1> HIDE DEF two
<1>12. /\ mid \in StateType
       /\ mid.streams = two.streams /\ mid.highest = two.highest /\ mid.closed = two.closed
       /\ mid.entry = two.entry /\ mid.control = two.control
  BY <1>8, <1>11 DEF StateType
<1> HIDE DEF mid
<1>13. SameStreams(st, mid) /\ OtherEntries(st, mid, s) /\ mid.control = st.control
  BY <1>5, <1>11, <1>12 DEF SameStreams, OtherEntries, Alike, SameSending, SameReceiving
<1>14. /\ SameReceiving(a, mid.entry[s])
       /\ mid.entry[s].limit = a.limit /\ mid.entry[s].sent = a.sent
       /\ mid.entry[s].outgoing = rest
       /\ mid.entry[s].finish_queued = a.finish_queued
       /\ mid.entry[s].failed = a.failed
  BY <1>6, <1>10, <1>11, <1>12 DEF Alike, SameSending, SameReceiving
<1>15. \E m \in StateType :
         /\ TookData(st) = RemovedIfFinished(m, s)
         /\ SameStreams(st, m) /\ OtherEntries(st, m, s) /\ m.control = st.control
         /\ SameReceiving(a, m.entry[s])
         /\ m.entry[s].limit = a.limit /\ m.entry[s].sent = a.sent
         /\ m.entry[s].outgoing = Tail(a.outgoing)
         /\ m.entry[s].finish_queued = a.finish_queued
         /\ m.entry[s].failed = a.failed
  BY <1>2, <1>12, <1>13, <1>14 DEF rest
<1> QED
  BY <1>1, <1>3, <1>15 DEF s, a, n

(* handle_data: what is received.                                          *)
LEMMA DataIs ==
    ASSUME NEW st \in StateType, NEW f \in FrameType, f.type = "data", f.stream \in Numbers,
           ~st.entry[f.stream].failed, ~st.entry[f.stream].peer_finished
    PROVE  LET s == f.stream  new == DataReceived(st, f)  a == st.entry[s]  b == new.entry[s] IN
           /\ new \in StateType
           /\ SameStreams(st, new) /\ OtherEntries(st, new, s) /\ new.control = st.control
           /\ SameSending(a, b)
           /\ b.inbound = (IF a.handle_alive THEN Append(a.inbound, f) ELSE a.inbound)
           /\ b.received = a.received + f.size /\ b.consumed = a.consumed
           /\ b.announced = a.announced /\ b.peer_finished = a.peer_finished
           /\ b.handle_alive = a.handle_alive
<1> DEFINE s == f.stream
           a == st.entry[s]
           n == a.received + f.size
           chunks == IF a.handle_alive THEN Append(a.inbound, f) ELSE a.inbound
           en == [a EXCEPT !.received = n, !.inbound = chunks]
           new == [st EXCEPT !.entry[s] = en]
<1>1. a \in EntryType
  BY DEF StateType
<1>2. f \in Chunk
  BY DEF FrameType, Chunk
<1>3. DataReceived(st, f) = new
  BY DEF DataReceived
<1> HIDE DEF a
<1>4. n \in Nat
  BY <1>1 DEF EntryType, FrameType
<1>5. chunks \in Seq(Chunk)
  BY <1>1, <1>2 DEF EntryType
<1>6. n = a.received + f.size /\ chunks = IF a.handle_alive THEN Append(a.inbound, f) ELSE a.inbound
  OBVIOUS
<1> HIDE DEF n, chunks
<1>7. /\ en \in EntryType /\ SameSending(a, en)
      /\ en.inbound = chunks /\ en.received = n /\ en.consumed = a.consumed
      /\ en.announced = a.announced /\ en.peer_finished = a.peer_finished
      /\ en.handle_alive = a.handle_alive
  BY <1>1, <1>4, <1>5 DEF EntryType, SameSending
<1> HIDE DEF en
<1>8. /\ new \in StateType
      /\ SameStreams(st, new) /\ OtherEntries(st, new, s)
      /\ new.control = st.control /\ new.entry[s] = en
  BY <1>7, EntrySet
<1> QED
  BY <1>3, <1>6, <1>7, <1>8 DEF a

(* handle_credit: the limit grows.                                         *)
LEMMA CreditIs ==
    ASSUME NEW st \in StateType, NEW f \in FrameType, f.stream \in Numbers
    PROVE  LET s == f.stream  new == CreditReceived(st, f)  a == st.entry[s]  b == new.entry[s] IN
           /\ new \in StateType
           /\ SameStreams(st, new) /\ OtherEntries(st, new, s) /\ new.control = st.control
           /\ SameReceiving(a, b)
           /\ b.limit = Larger(a.limit, f.at) /\ b.sent = a.sent /\ b.outgoing = a.outgoing
           /\ b.finish_queued = a.finish_queued /\ b.failed = a.failed
<1> DEFINE s == f.stream
           a == st.entry[s]
           n == Larger(a.limit, f.at)
           en == [a EXCEPT !.limit = n]
           new == [st EXCEPT !.entry[s] = en]
<1>1. a \in EntryType
  BY DEF StateType
<1>2. CreditReceived(st, f) = new
  BY DEF CreditReceived
<1> HIDE DEF a
<1>3. n \in Nat
  BY <1>1 DEF EntryType, FrameType, Larger
<1>4. n = Larger(a.limit, f.at)
  OBVIOUS
<1> HIDE DEF n
<1>5. /\ en \in EntryType /\ SameReceiving(a, en)
      /\ en.limit = n /\ en.sent = a.sent /\ en.outgoing = a.outgoing
      /\ en.finish_queued = a.finish_queued /\ en.failed = a.failed
  BY <1>1, <1>3 DEF EntryType, SameReceiving
<1> HIDE DEF en
<1>6. /\ new \in StateType
      /\ SameStreams(st, new) /\ OtherEntries(st, new, s)
      /\ new.control = st.control /\ new.entry[s] = en
  BY <1>5, EntrySet
<1> QED
  BY <1>2, <1>4, <1>5, <1>6 DEF a

(* handle_opened: the entry is marked.                                     *)
LEMMA OpenedIs ==
    ASSUME NEW st \in StateType, NEW f \in FrameType, f.stream \in Numbers
    PROVE  LET s == f.stream  new == OpenedReceived(st, f) IN
           /\ new \in StateType
           /\ SameStreams(st, new) /\ OtherEntries(st, new, s) /\ new.control = st.control
           /\ Alike(st.entry[s], new.entry[s])
<1> DEFINE s == f.stream
           a == st.entry[s]
           en == [a EXCEPT !.opened = TRUE]
           new == [st EXCEPT !.entry[s] = en]
<1>1. a \in EntryType
  BY DEF StateType
<1>2. OpenedReceived(st, f) = new
  BY DEF OpenedReceived
<1> HIDE DEF a
<1>3. en \in EntryType /\ Alike(a, en)
  BY <1>1 DEF EntryType, Alike, SameSending, SameReceiving
<1> HIDE DEF en
<1>4. /\ new \in StateType
      /\ SameStreams(st, new) /\ OtherEntries(st, new, s)
      /\ new.control = st.control /\ new.entry[s] = en
  BY <1>3, EntrySet
<1> QED
  BY <1>2, <1>3, <1>4 DEF a

(* handle_finish: the entry is marked, and gone if both are done.          *)
LEMMA EndIs ==
    ASSUME NEW st \in StateType, NEW f \in FrameType, f.stream \in Numbers
    PROVE  LET s == f.stream  new == FinishReceived(st, f)  a == st.entry[s]  b == new.entry[s] IN
           /\ new \in StateType
           /\ SameStreams(st, new) /\ OtherEntries(st, new, s) /\ new.control = st.control
           /\ SameSending(a, b)
           /\ b.inbound = a.inbound /\ b.received = a.received /\ b.consumed = a.consumed
           /\ b.announced = a.announced /\ b.peer_finished /\ b.handle_alive = a.handle_alive
<1> DEFINE s == f.stream
           a == st.entry[s]
           en == [a EXCEPT !.peer_finished = TRUE]
           new == [st EXCEPT !.entry[s] = en]
<1>1. a \in EntryType
  BY DEF StateType
<1>2. FinishReceived(st, f) = new
  BY DEF FinishReceived
<1> HIDE DEF a
<1>3. /\ en \in EntryType /\ SameSending(a, en)
      /\ en.inbound = a.inbound /\ en.received = a.received /\ en.consumed = a.consumed
      /\ en.announced = a.announced /\ en.peer_finished /\ en.handle_alive = a.handle_alive
  BY <1>1 DEF EntryType, SameSending
<1> HIDE DEF en
<1>4. /\ new \in StateType
      /\ SameStreams(st, new) /\ OtherEntries(st, new, s)
      /\ new.control = st.control /\ new.entry[s] = en
  BY <1>3, EntrySet
<1> QED
  BY <1>2, <1>3, <1>4 DEF a

(* What Stream::drop makes of the entry.                                   *)
Cuts(a) == ~Complete(a) /\ ~a.failed

(* Stream's drop: what the end still has of it, and what it says.          *)
LEMMA DroppedIs ==
    ASSUME NEW st \in StateType, NEW s \in st.streams, s \in Numbers
    PROVE  LET new == Dropped(st, s)  a == st.entry[s]  b == new.entry[s] IN
           /\ new \in StateType
           /\ new.highest = st.highest /\ new.closed = st.closed /\ OtherEntries(st, new, s)
           /\ new.control = (IF Cuts(a) /\ st.closed = "no"
                             THEN Append(st.control, Frame("reset", s)) ELSE st.control)
           /\ Cuts(a) \/ a.outgoing = <<>> =>
                new.streams = st.streams \ {s} /\ AsNew(b)
           /\ ~Cuts(a) /\ a.outgoing # <<>> =>
                /\ new.streams = st.streams
                /\ SameSending(a, b) /\ b.inbound = <<>> /\ ~b.handle_alive
                /\ b.received = a.received /\ b.consumed = a.consumed
                /\ b.announced = a.announced /\ b.peer_finished = a.peer_finished
<1> DEFINE a == st.entry[s]
           one == IF Complete(a) THEN st ELSE Reset(st, s)
           en == [one.entry[s] EXCEPT !.handle_alive = FALSE, !.inbound = <<>>]
           two == [one EXCEPT !.entry[s] = en]
           new == RemovedIfFinished(two, s)
<1>1. Dropped(st, s) = new
  BY DEF Dropped
<1>2. one = (IF Cuts(a)
             THEN IF st.closed = "no" THEN Control(Failed(st, s), Frame("reset", s)) ELSE Failed(st, s)
             ELSE st)
  BY DEF Cuts, Reset
<1>3. Frame("reset", s) \in FrameType
  BY FrameIn DEF OfStream
<1> HIDE DEF a
<1>4. /\ one \in StateType /\ SameStreams(st, one) /\ OtherEntries(st, one, s)
      /\ one.control = (IF Cuts(a) /\ st.closed = "no"
                        THEN Append(st.control, Frame("reset", s)) ELSE st.control)
      /\ SameReceiving(a, one.entry[s])
      /\ Cuts(a) => one.entry[s].outgoing = <<>>
      /\ ~Cuts(a) => SameSending(a, one.entry[s])
  <2>1. CASE Cuts(a)
    <3> DEFINE mid == Failed(st, s)
    <3>1. /\ mid \in StateType
          /\ SameStreams(st, mid) /\ OtherEntries(st, mid, s) /\ mid.control = st.control
          /\ SameReceiving(a, mid.entry[s]) /\ mid.entry[s].outgoing = <<>>
      BY FailedIs DEF a
    <3> HIDE DEF mid
    <3>2. CASE st.closed = "no"
      BY <1>2, <2>1, <3>2, <1>3, <3>1, ControlIs DEF mid, SameStreams, OtherEntries
    <3>3. CASE st.closed # "no"
      BY <1>2, <2>1, <3>3, <3>1 DEF mid
    <3> QED
      BY <3>2, <3>3
  <2>2. CASE ~Cuts(a)
    BY <1>2, <2>2 DEF a, SameStreams, OtherEntries, Alike, SameSending, SameReceiving
  <2> QED
    BY <2>1, <2>2
<1> HIDE DEF one
<1> DEFINE c == one.entry[s]
<1>5. c \in EntryType
  BY <1>4 DEF StateType
<1> HIDE DEF c
<1>6. <<>> \in Seq(Chunk)
  OBVIOUS
<1>7. LET en2 == [c EXCEPT !.handle_alive = FALSE, !.inbound = <<>>] IN
      /\ en2 \in EntryType /\ SameSending(c, en2) /\ en2.inbound = <<>> /\ ~en2.handle_alive
      /\ en2.received = c.received /\ en2.consumed = c.consumed
      /\ en2.announced = c.announced /\ en2.peer_finished = c.peer_finished
  BY <1>5, <1>6 DEF EntryType, SameSending
<1>8. /\ en \in EntryType /\ SameSending(c, en) /\ en.inbound = <<>> /\ ~en.handle_alive
      /\ en.received = c.received /\ en.consumed = c.consumed
      /\ en.announced = c.announced /\ en.peer_finished = c.peer_finished
  BY <1>7 DEF c
<1> HIDE DEF en
<1>9. /\ two \in StateType
      /\ SameStreams(one, two) /\ OtherEntries(one, two, s)
      /\ two.control = one.control /\ two.entry[s] = en
  BY <1>4, <1>8, EntrySet
<1> HIDE DEF two
<1>10. /\ new \in StateType
       /\ new.highest = two.highest /\ new.closed = two.closed /\ new.control = two.control
       /\ OtherEntries(two, new, s)
       /\ Leaves(two, s) => new.streams = two.streams \ {s} /\ AsNew(new.entry[s])
       /\ ~Leaves(two, s) => new = two
  BY <1>9, RemovedIs
<1> HIDE DEF new
<1>11. Leaves(two, s) <=> Cuts(a) \/ a.outgoing = <<>>
  BY <1>4, <1>8, <1>9 DEF Leaves, SameStreams, SameSending, c
<1>12. new.highest = st.highest /\ new.closed = st.closed
  BY <1>4, <1>9, <1>10 DEF SameStreams
<1>13. OtherEntries(st, new, s)
  BY <1>4, <1>9, <1>10 DEF OtherEntries, Alike, SameSending, SameReceiving
<1>14. ASSUME Cuts(a) \/ a.outgoing = <<>>
       PROVE  new.streams = st.streams \ {s} /\ AsNew(new.entry[s])
  BY <1>4, <1>9, <1>10, <1>11, <1>14 DEF SameStreams
<1>15. ASSUME ~Cuts(a), a.outgoing # <<>>
       PROVE  LET b == new.entry[s] IN
              /\ new.streams = st.streams
              /\ SameSending(a, b) /\ b.inbound = <<>> /\ ~b.handle_alive
              /\ b.received = a.received /\ b.consumed = a.consumed
              /\ b.announced = a.announced /\ b.peer_finished = a.peer_finished
  BY <1>10, <1>11, <1>15, <1>4, <1>8, <1>9 DEF SameStreams, SameSending, SameReceiving, c
<1> QED
  BY <1>1, <1>4, <1>9, <1>10, <1>12, <1>13, <1>14, <1>15 DEF a

-----------------------------------------------------------------------------
(* What a step leaves as it was.                                           *)

(* Nothing that end d's view of Stream t rests on has changed.             *)
Beside(d, t) ==
    LET p == Peer(d) IN
    /\ Entry(d, t)'.received = Entry(d, t).received
    /\ Entry(d, t)'.announced = Entry(d, t).announced
    /\ Entry(d, t)'.peer_finished = Entry(d, t).peer_finished
    /\ Entry(d, t)'.failed = Entry(d, t).failed
    /\ Entry(d, t)'.finish_queued = Entry(d, t).finish_queued
    /\ Entry(p, t)'.limit = Entry(p, t).limit
    /\ Entry(p, t)'.failed = Entry(p, t).failed
    /\ Entry(p, t)'.finish_queued = Entry(p, t).finish_queued
    /\ \A e \in Ends : (Has(e, t)' <=> Has(e, t)) /\ (Known(e, t)' <=> Known(e, t))
    /\ wrote'[p][t] = wrote[p][t]
    /\ Arriving(d, t)' = Arriving(d, t) /\ Line(d, t)' = Line(d, t)
    /\ (Failing(d, t)' <=> Failing(d, t)) /\ Limits(p, t)' = Limits(p, t)
    /\ reader'[d] => reader[d]
    /\ Running' => Running

(* Agreement stays where neither end nor what is between them moved.       *)
LEMMA BesideAgrees ==
    ASSUME NEW d \in Ends, NEW t \in Numbers, Beside(d, t), Agreed(d, t)
    PROVE  Agreed(d, t)'
<1> DEFINE p == Peer(d)
<1>1. p \in Ends
  BY Peers
<1>2. /\ Gone(d, t)' <=> Gone(d, t)
      /\ Gone(p, t)' <=> Gone(p, t)
  BY <1>1 DEF Beside, Gone
<1>3. /\ Live(d, t)' <=> Live(d, t)
      /\ Live(p, t)' <=> Live(p, t)
  BY <1>2 DEF Beside, Live
<1>4. Datas(d, t)' = Datas(d, t) /\ (FinOn(d, t)' <=> FinOn(d, t)) /\ (FinDue(d, t)' <=> FinDue(d, t))
  BY DEF Beside, Datas, FinOn, FinDue
<1>5. (Failing(d, t)' <=> Failing(d, t)) /\ Limits(p, t)' = Limits(p, t)
  BY DEF Beside
<1>6. Credits(d, t)'
  BY <1>2, <1>3, <1>4, <1>5 DEF Agreed, Credits, Beside
<1>7. Everything(d, t)'
  BY <1>3, <1>4 DEF Lasts, Beside, Agreed, Everything
<1>8. Finishes(d, t)'
  BY <1>1, <1>2, <1>4 DEF Agreed, Finishes, Beside
<1>9. Told(d, t)'
  BY <1>3, <1>4, <1>5 DEF Agreed, Told, Beside
<1>10. Given(d, t)'
  BY <1>1, <1>2, <1>5 DEF Agreed, Given, Beside
<1> QED
  BY <1>6, <1>7, <1>8, <1>9, <1>10 DEF Agreed

(* A step of end e that touches no Stream but s.                           *)
Untouched(e, t) ==
    /\ Alike(Entry(e, t), Entry(e, t)')
    /\ Has(e, t)' <=> Has(e, t)
    /\ Known(e, t)' <=> Known(e, t)
    /\ wrote'[e][t] = wrote[e][t]
Touches(e, s) ==
    /\ state'[Peer(e)] = state[Peer(e)]
    /\ wrote'[Peer(e)] = wrote[Peer(e)]
    /\ \A t \in Numbers \ {s} : Untouched(e, t)
    /\ \A t \in Numbers \ {s}, d \in Ends :
         Arriving(d, t)' = Arriving(d, t) /\ News(d, t)' = News(d, t)
    /\ \A d \in Ends : reader'[d] => reader[d]
    /\ Running' => Running

(* An entry that did not change is as sane as it was.                      *)
LEMMA SaneAlike ==
    ASSUME NEW a, NEW b, NEW t, Alike(a, b)
    PROVE  (Sane(a, t) => Sane(b, t)) /\ (AsNew(a) => AsNew(b))
BY DEF Sane, Unread, AsNew, Complete, Alike, SameSending, SameReceiving

(* A step on Stream s leaves the agreement on the others.                  *)
LEMMA Elsewhere ==
    ASSUME NEW e \in Ends, NEW s, Touches(e, s), Local, Agreement
    PROVE  /\ \A d \in Ends, t \in Numbers \ {s} : EntryOk(d, t)' /\ Agreed(d, t)'
           /\ \A t \in Numbers : EntryOk(Peer(e), t)'
<1> DEFINE p == Peer(e)
<1>1. p \in Ends /\ Peer(p) = e /\ \A d \in Ends : d = e \/ d = p
  BY Peers
<1>2. ASSUME NEW t \in Numbers PROVE EntryOk(p, t)'
  BY <1>1 DEF Touches, Entry, Has, Known, Local, EntryOk
<1>3. ASSUME NEW t \in Numbers \ {s} PROVE EntryOk(e, t)'
  BY SaneAlike DEF Touches, Local, Untouched, EntryOk, Alike, SameSending
<1>4. ASSUME NEW d \in Ends, NEW t \in Numbers \ {s} PROVE Agreed(d, t)'
  <2>1. Untouched(e, t)
    BY DEF Touches
  <2>2. /\ Entry(p, t)' = Entry(p, t) /\ (Has(p, t)' <=> Has(p, t))
        /\ (Known(p, t)' <=> Known(p, t)) /\ wrote'[p][t] = wrote[p][t]
    BY DEF Touches, Entry, Has, Known
  <2>3. Line(d, t)' = Line(d, t)
    BY <1>1, <2>1, <2>2 DEF Line, Untouched, Alike, SameSending
  <2>4. /\ Arriving(d, t)' = Arriving(d, t)
        /\ \A c \in Ends : (Failing(c, t)' <=> Failing(c, t)) /\ Limits(c, t)' = Limits(c, t)
        /\ (reader'[d] => reader[d]) /\ (Running' => Running)
    BY DEF Touches, Failing, Limits
  <2>5. Beside(d, t)
    BY <1>1, <2>1, <2>2, <2>3, <2>4 DEF Beside, Untouched, Alike, SameSending, SameReceiving
  <2>6. Agreed(d, t)
    BY DEF Agreement
  <2> QED
    BY <2>5, <2>6, BesideAgrees
<1> QED
  BY <1>1, <1>2, <1>3, <1>4

(* What end e's step with Set(e, new) makes of the two States.             *)
LEMMA SetIs ==
    ASSUME TypeOK, NEW e \in Ends, NEW new, Set(e, new)
    PROVE  /\ state[e] \in StateType /\ state[Peer(e)] \in StateType /\ Peer(e) \in Ends
           /\ state'[e] = new /\ state'[Peer(e)] = state[Peer(e)]
           /\ new \in StateType => state' \in [Ends -> StateType]
BY Peers DEF TypeOK, Set

(* What is on its way grows by what an end queues.                         *)
LEMMA QueueGrows ==
    ASSUME NEW e \in Ends, NEW x, state[e].control \in Seq(FrameType),
           state'[e].control = Append(state[e].control, x)
    PROVE  Due(Peer(e))' = Due(Peer(e)) \cup {x}
<1>1. Peer(e) \in Ends /\ Peer(Peer(e)) = e
  BY Peers
<1> QED
  BY <1>1, ElementsOfAppend DEF Due

(* The frames an end may queue, but for an Open.                           *)
May(e, x) ==
    /\ x \in FrameType /\ x.type \notin Items \cup {"open"} /\ x.stream <= state[e].highest
    /\ e = "server" => x.type # "ping"
    /\ e = "client" => x.type \notin {"pong", "opened", "open_failed"}

(* The numbers a Client says it opened are its own, and rise.              *)
LEMMA OpensSaid ==
    ASSUME TypeOK, Opens, NEW e \in Ends, UNCHANGED wire,
           state'[Peer(e)] = state[Peer(e)], state'[e].highest = state[e].highest,
           reader'["server"] => reader["server"],
           \/ state'[e].control = state[e].control
           \/ \E x : May(e, x) /\ state'[e].control = Append(state[e].control, x)
    PROVE  Opens'
<1> DEFINE p == Peer(e)
<1>1. p \in Ends /\ Peer(p) = e /\ \A d \in Ends : d = e \/ d = p
  BY Peers
<1>2. /\ \A d \in Ends : On(d)' = On(d) /\ state'[d].highest = state[d].highest
      /\ \A d \in Ends : \A t : Known(d, t)' <=> Known(d, t)
      /\ Due(e)' = Due(e) /\ state'[p].control = state[p].control
  BY <1>1 DEF On, Due, Known
<1>3. CASE state'[e].control = state[e].control
  BY <1>1, <1>2, <1>3, Peers DEF Chain, Due, Opens, ToClient, ToServer
<1>4. ASSUME NEW x, May(e, x), state'[e].control = Append(state[e].control, x) PROVE Opens'
  <2>1. state[e].control \in Seq(FrameType)
    BY DEF TypeOK, StateType
  <2>2. Due(p)' = Due(p) \cup {x}
    BY <1>4, <2>1, QueueGrows
  <2>3. Chain(e)' = Chain(e) /\ Chain(p)' = Chain(p) \cup {x}
    BY <1>1, <1>2, <2>2 DEF Chain
  <2>4. ToClient'
    BY <1>1, <1>2, <1>4, <2>3, Peers DEF ToClient, Opens, May
  <2>5. OpensRise(wire["server"])' /\ OpensRise(state["client"].control)'
    <3>1. OpensRise(wire["server"]) /\ OpensRise(state["client"].control)
      BY DEF Opens, ToServer
    <3>2. CASE e = "client"
      BY <1>4, <2>1, <3>1, <3>2, RiseJoins DEF May
    <3>3. CASE e = "server"
      BY <1>2, <3>1, <3>3, Peers
    <3> QED
      BY <3>2, <3>3 DEF Ends
  <2>6. OpensLast(wire["server"], state["client"].control)'
    <3>1. OpensLast(wire["server"], state["client"].control)
      BY DEF Opens, ToServer
    <3>2. CASE e = "client"
      <4>1. Elements(Append(state[e].control, x)) = Elements(state[e].control) \cup {x}
        BY <2>1, ElementsOfAppend
      <4>2. OpensLast(wire["server"], Append(state[e].control, x))
        BY <1>4, <3>1, <3>2, <4>1, LastOf DEF May
      <4> QED
        BY <1>4, <3>2, <4>2
    <3>3. CASE e = "server"
      BY <1>2, <3>1, <3>3, Peers
    <3> QED
      BY <3>2, <3>3 DEF Ends
  <2>7. ToServer'
    BY <1>1, <1>2, <1>4, <2>3, <2>5, <2>6, Peers DEF ToServer, Opens, May
  <2> QED
    BY <1>1, <1>2, <2>4, <2>7, Peers DEF Opens
<1> QED
  BY <1>3, <1>4

(* A step of end e on its Stream s that sends nothing and queues at most   *)
(* one frame.                                                              *)
LEMMA LocalStep ==
    ASSUME SInv, TypeOK', NEW e \in Ends, NEW s \in Numbers, NEW new \in StateType, Set(e, new),
           new.highest = state[e].highest, new.closed = state[e].closed,
           OtherEntries(state[e], new, s),
           \A t \in Numbers \ {s} : t \in new.streams <=> t \in state[e].streams,
           s \in new.streams => s \in state[e].streams,
           \/ new.control = state[e].control
           \/ \E x : May(e, x) /\ x.stream = s /\ new.control = Append(state[e].control, x),
           UNCHANGED <<wire, reader>>,
           wrote'[Peer(e)] = wrote[Peer(e)],
           \A t \in Numbers \ {s} : wrote'[e][t] = wrote[e][t],
           EntryOk(e, s)', Ordered(Peer(e), s)', Agreed(e, s)', Agreed(Peer(e), s)'
    PROVE  SInv'
<1> DEFINE p == Peer(e)
<1>1. p \in Ends /\ Peer(p) = e /\ \A d \in Ends : d = e \/ d = p
  BY Peers
<1>2. /\ TypeOK /\ Local /\ Opens /\ Order /\ Agreement /\ NoProtocolError
  BY DEF SInv
<1>3. /\ state[e] \in StateType /\ state[p] \in StateType
      /\ state'[e] = new /\ state'[p] = state[p]
  BY <1>2, SetIs
<1>4. state[e].control \in Seq(FrameType)
  BY <1>3 DEF StateType
<1>5. /\ \A d \in Ends : On(d)' = On(d)
      /\ Due(e)' = Due(e)
      /\ \/ Due(p)' = Due(p) /\ state'[e].control = state[e].control
         \/ \E x : May(e, x) /\ x.stream = s /\ Due(p)' = Due(p) \cup {x}
                   /\ state'[e].control = Append(state[e].control, x)
  BY <1>1, <1>3, <1>4, QueueGrows DEF On, Due
<1>6. \A t \in Numbers \ {s}, d \in Ends :
        Arriving(d, t)' = Arriving(d, t) /\ News(d, t)' = News(d, t)
  BY <1>1, <1>5 DEF Arriving, News, Chain
<1>7. Touches(e, s)
  BY <1>3, <1>1, <1>6 DEF Untouched, OtherEntries, Entry, Has, Known, Running, Touches
<1>8. /\ \A d \in Ends, t \in Numbers \ {s} : EntryOk(d, t)' /\ Agreed(d, t)'
      /\ \A t \in Numbers : EntryOk(p, t)'
  BY <1>2, <1>7, Elsewhere
<1>9. \A d \in Ends, t \in Numbers : EntryOk(d, t)'
  BY <1>1, <1>8
<1>10. Agreement'
  BY <1>1, <1>8 DEF Agreement
<1>11. \A d \in Ends : EndOk(d)'
  BY <1>1, <1>2, <1>3, <1>5 DEF Local, EndOk, Known, StateType, Due, May
<1>12. Opens'
  BY <1>1, <1>2, <1>3, <1>5, OpensSaid
<1>13. Order'
  BY <1>1, <1>3, <1>7, <1>5, <1>2 DEF Touches, Untouched, Alike, SameSending, Entry, Line,
     Arriving, Order, Ordered
<1>14. NoProtocolError'
  BY <1>1, <1>2, <1>3 DEF NoProtocolError
<1> QED
  BY <1>9, <1>10, <1>11, <1>12, <1>13, <1>14 DEF SInv, Local

(* The types, after a step of an end on its State.                         *)
LEMMA TypeKept ==
    ASSUME TypeOK, NEW e \in Ends, NEW new \in StateType, Set(e, new),
           UNCHANGED <<held, wire, up, reader, writer, pinged, setting>>, asked' \subseteq asked,
           wrote' \in [Ends -> [Numbers -> Nat]],
           \A t \in Numbers : t \in new.streams /\ new.entry[t].handle_alive
                          <=> t \in state[e].streams /\ state[e].entry[t].handle_alive
    PROVE  TypeOK'
<1>1. Peer(e) \in Ends /\ \A d \in Ends : d = e \/ d = Peer(e)
  BY Peers
<1>2. state'[e] = new /\ state'[Peer(e)] = state[Peer(e)] /\ state' \in [Ends -> StateType]
  BY SetIs
<1>3. \A d \in Ends : held'[d] = {s \in state'[d].streams : state'[d].entry[s].handle_alive}
  <2>1. held[e] = {s \in state[e].streams : state[e].entry[s].handle_alive}
        /\ held[Peer(e)] = {s \in state[Peer(e)].streams : state[Peer(e)].entry[s].handle_alive}
    BY <1>1 DEF TypeOK
  <2>2. state[e].streams \subseteq Numbers /\ new.streams \subseteq Numbers
    BY DEF TypeOK, StateType
  <2>3. {s \in state[e].streams : state[e].entry[s].handle_alive}
          = {s \in new.streams : new.entry[s].handle_alive}
    BY <2>2
  <2> QED
    BY <1>1, <1>2, <2>1, <2>3
<1> QED
  BY <1>2, <1>3 DEF TypeOK

(* What the type invariant says of an end's entry of a Stream.             *)
LEMMA EntryIn ==
    ASSUME TypeOK, NEW e \in Ends, NEW s \in Numbers
    PROVE  /\ Entry(e, s) \in EntryType
           /\ Entry(e, s).limit \in Nat /\ Entry(e, s).sent \in Nat
           /\ Entry(e, s).received \in Nat /\ Entry(e, s).consumed \in Nat
           /\ Entry(e, s).announced \in Nat
           /\ Entry(e, s).outgoing \in Seq(ItemType) /\ Entry(e, s).inbound \in Seq(Chunk)
           /\ wrote[e][s] \in Nat /\ state[e].highest \in Nat
<1>1. state[e] \in StateType /\ wrote[e][s] \in Nat
  BY DEF TypeOK
<1>2. Entry(e, s) \in EntryType /\ state[e].highest \in Numbers \cup {0}
  BY <1>1 DEF StateType, Entry
<1>3. state[e].highest \in Nat
  BY <1>2 DEF Numbers
<1> DEFINE a == Entry(e, s)
<1> HIDE DEF a
<1>4. a \in EntryType
  BY <1>2 DEF a
<1>5. /\ a.limit \in Nat /\ a.sent \in Nat
      /\ a.received \in Nat /\ a.consumed \in Nat
      /\ a.announced \in Nat
      /\ a.outgoing \in Seq(ItemType) /\ a.inbound \in Seq(Chunk)
  BY <1>4 DEF EntryType, ItemType
<1> QED
  BY <1>1, <1>2, <1>3, <1>5 DEF a

(* A Stream in the table has been opened.                                  *)
LEMMA HasKnown ==
    ASSUME Local, NEW e \in Ends, NEW s, Has(e, s)
    PROVE  Known(e, s) /\ ~Gone(e, s)
BY DEF Local, EndOk, Has, Known, Gone

(* A frame of a Stream's own queue.                                        *)
LEMMA LineIn ==
    ASSUME TypeOK, Local, NEW d \in Ends, NEW t \in Numbers, NEW f \in Line(d, t)
    PROVE  f \in Ours(t) /\ f \in FrameType /\ f.type \in Items /\ f.stream = t
           /\ f.at \in Nat /\ f.size \in Nat /\ (f.type = "data" => f.size > 0)
BY Peers DEF Local, EntryOk, Sane, Line, Ours, FrameType

(* A frame on the transport.                                               *)
LEMMA OnIn ==
    ASSUME TypeOK, Local, NEW d \in Ends, NEW f \in On(d)
    PROVE  f \in FrameType /\ f.at \in Nat /\ f.size \in Nat /\ f.stream \in Numbers \cup {0}
           /\ (f.type = "data" => f.size > 0)
<1>1. f \in FrameType
  BY ElementsIn DEF TypeOK, On
<1> QED
  BY <1>1 DEF FrameType, Local, EndOk

(* A chunk on its way.                                                     *)
LEMMA DatasIn ==
    ASSUME TypeOK, Local, NEW d \in Ends, NEW t \in Numbers, NEW f \in Datas(d, t)
    PROVE  f.type = "data" /\ f.stream = t /\ f.at \in Nat /\ f.size \in Nat \ {0}
BY LineIn, OnIn DEF Datas, Arriving

(* A frame that waits in a queue.                                          *)
LEMMA DueIn ==
    ASSUME TypeOK, NEW d \in Ends, NEW f \in Due(d)
    PROVE  f \in FrameType /\ f.at \in Nat /\ f.stream \in Numbers \cup {0}
<1>1. f \in FrameType
  BY ElementsIn, Peers DEF TypeOK, StateType, Due
<1> QED
  BY <1>1 DEF FrameType

(* A credit or a failure on its way.                                       *)
LEMMA NewsIn ==
    ASSUME TypeOK, Local, NEW d \in Ends, NEW t \in Numbers, NEW f \in News(d, t)
    PROVE  f.stream = t /\ f.at \in Nat
BY DueIn, OnIn DEF News, Chain

-----------------------------------------------------------------------------
(* The holders' steps.                                                     *)

(* A write: its chunk follows all that was written before it.              *)
LEMMA WriteKeeps ==
    ASSUME SInv, NEW e \in Ends, NEW s \in held[e], NEW size \in Nat \ {0},
           CanWrite(state[e], s), size <= Available(state[e], s),
           Engine(e, Written(state[e], s, size)),
           wrote' = [wrote EXCEPT ![e][s] = @ + size]
    PROVE  SInv'
<1> DEFINE p == Peer(e)
           st == state[e]
           new == Written(st, s, size)
           a == Entry(e, s)
           b == new.entry[s]
           d == Data(s, a.sent, size)
<1>1. p \in Ends /\ Peer(p) = e /\ p # e
  BY Peers
<1>2. TypeOK /\ Local /\ Order /\ Agreement
  BY DEF SInv
<1>3. s \in Numbers /\ Has(e, s) /\ Set(e, new)
  BY <1>2 DEF TypeOK, Engine, Has, StateType
<1>4. /\ st \in StateType /\ state'[e] = new /\ state'[p] = state[p]
  BY <1>2, <1>3, SetIs
<1>5. /\ new \in StateType
      /\ SameStreams(st, new) /\ OtherEntries(st, new, s) /\ new.control = st.control
      /\ SameReceiving(a, b)
      /\ b.limit = a.limit /\ b.sent = a.sent + size
      /\ b.outgoing = Append(a.outgoing, d)
      /\ b.finish_queued = a.finish_queued /\ b.failed = a.failed
  BY <1>3, <1>4, WrittenIs DEF Entry
<1>6. ~a.finish_queued /\ ~a.failed /\ a.sent + size <= a.limit
  BY <1>2, <1>3, EntryIn DEF CanWrite, Available, Entry, Larger, Failure
<1> HIDE DEF new
<1>7. /\ Entry(e, s)' = b /\ Entry(p, s)' = Entry(p, s)
      /\ \A c \in Ends : \A t : (Has(c, t)' <=> Has(c, t)) /\ (Known(c, t)' <=> Known(c, t))
  BY <1>1, <1>4, <1>5, Peers DEF Entry, Has, Known, SameStreams
<1>8. /\ wrote' \in [Ends -> [Numbers -> Nat]] /\ wrote'[e][s] = a.sent + size
      /\ wrote'[p] = wrote[p] /\ wrote[e][s] = a.sent
      /\ \A t \in Numbers \ {s} : wrote'[e][t] = wrote[e][t]
  BY <1>2, <1>3, EntryIn, <1>1 DEF TypeOK, Local, EntryOk
<1>9. TypeOK'
  <2>1. \A t \in Numbers : t \in new.streams /\ new.entry[t].handle_alive
                       <=> t \in state[e].streams /\ state[e].entry[t].handle_alive
    BY <1>5 DEF SameStreams, OtherEntries, Alike, SameReceiving, Entry
  <2>2. UNCHANGED <<held, asked, wire, up, reader, writer, pinged, setting>>
    BY DEF Engine
  <2> QED
    BY <1>2, <1>3, <1>5, <1>8, <2>1, <2>2, TypeKept
<1>10. /\ a.sent \in Nat /\ a.outgoing \in Seq(ItemType)
       /\ d \in FrameType /\ d.type = "data" /\ d.stream = s /\ d.at = a.sent /\ d.size = size
  BY <1>2, <1>3, EntryIn, DataIn
<1> HIDE DEF d
<1>11. Elements(b.outgoing) = Elements(a.outgoing) \cup {d}
  BY <1>5, <1>10, ElementsOfAppend
<1>12. EntryOk(e, s)'
  <2>1. EntryOk(e, s)
    BY <1>2, <1>3 DEF Local
  <2>2. d \in Ours(s) /\ d.type \in Items
    BY <1>10 DEF Ours, Items
  <2>3. Sane(b, s)
    BY <1>5, <1>6, <1>11, <2>1, <2>2 DEF EntryOk, Sane, Unread, Complete, SameReceiving
  <2>4. Known(e, s)
    BY <1>2, <1>3, HasKnown
  <2> QED
    BY <1>3, <1>5, <1>7, <1>8, <2>3, <2>4 DEF EntryOk
<1>13. /\ \A c \in Ends : \A t : Arriving(c, t)' = Arriving(c, t) /\ News(c, t)' = News(c, t)
       /\ Line(e, s)' = Line(e, s) /\ Line(p, s)' = Line(p, s) \cup {d}
  BY <1>1, <1>4, <1>5, Peers, <1>7, <1>11 DEF On, Due, Engine, Arriving, News, Chain, Line
<1>14. Agreed(e, s) /\ Agreed(p, s)
  BY <1>1, <1>2, <1>3 DEF Agreement
<1>15. /\ Datas(p, s)' = Datas(p, s) \cup {d}
       /\ (FinOn(p, s)' <=> FinOn(p, s)) /\ (FinDue(p, s)' <=> FinDue(p, s))
  BY <1>1, <1>10, <1>13 DEF Datas, FinOn, FinDue
<1>16. ~FinOn(p, s) /\ ~FinDue(p, s) /\ ~Entry(p, s).peer_finished
  BY <1>1, <1>3, <1>6, <1>14 DEF Agreed, Finishes
<1>17. \A f \in Datas(p, s) : f.at \in Nat /\ f.size \in Nat /\ Until(f) <= a.sent
  BY <1>1, <1>2, <1>3, <1>8, <1>14, DatasIn DEF Agreed, Credits
<1>18. Ordered(p, s)'
  <2>1. Ordered(p, s)
    BY <1>1, <1>2, <1>3 DEF Order
  <2>2. ASSUME NEW f \in Arriving(p, s) \cup Line(p, s) PROVE Before(f, d)
    BY <1>1, <1>2, <1>3, LineIn, <1>16, <1>10, <1>17 DEF Arriving, FinOn, FinDue, Items, Datas,
       Before
  <2>3. InOrder(Append(a.outgoing, d), s)
    BY <1>1, <2>2, <2>1, <1>10, InOrderJoins DEF Line, Ordered
  <2> QED
    BY <1>1, <1>5, <1>7, <1>13, <2>1, <2>2, <2>3 DEF Ordered, Engine
<1>19. /\ reader' = reader /\ (Running' => Running)
       /\ \A c \in Ends : (Gone(c, s)' <=> Gone(c, s)) /\ (Live(c, s)' <=> Live(c, s))
  BY <1>1, <1>4, <1>5, <1>7, Peers DEF Engine, Running, SameStreams, Gone, Live
<1>20. Agreed(e, s)'
  <2>1. Beside(e, s)
    BY <1>1, <1>5, <1>7, <1>8, <1>13, <1>19 DEF Beside, SameReceiving, Failing, Limits
  <2> QED
    BY <1>3, <1>14, <2>1, BesideAgrees
<1>21. Agreed(p, s)'
  <2>1. /\ Entry(p, s).received \in Nat /\ Entry(p, s).announced \in Nat
        /\ Entry(p, s).received <= a.sent /\ Until(d) = a.sent + size
        /\ a.limit \in Nat
    BY <1>1, <1>2, <1>3, <1>8, <1>10, <1>14, EntryIn DEF Agreed, Everything, Until
  <2>2. Credits(p, s)'
    <3>1. \A f \in Datas(p, s)' : Until(f) <= wrote'[e][s]
      BY <1>10, <1>17, <1>8, <1>15, <2>1 DEF Until
    <3>2. ASSUME reader[p], Live(p, s)
          PROVE  \A f \in Datas(p, s)' :
                   Entry(p, s).received <= f.at /\ Until(f) <= Entry(p, s).announced
      BY <3>2, <1>1, <1>14, <1>6, <1>10, <2>1, <1>15 DEF Live, Agreed, Credits
    <3> QED
      BY <1>1, <1>5, <1>7, <1>13, <1>14, <1>19, <3>1, <3>2 DEF Agreed, Credits, Limits
  <2>3. Everything(p, s)'
    <3>1. Entry(p, s).received <= wrote'[e][s]
      BY <1>8, <1>10, <2>1
    <3>2. ASSUME reader[p], Live(p, s)
          PROVE  /\ \A f \in Datas(p, s)' :
                      f.at = Entry(p, s).received \/ \E g \in Datas(p, s)' : Until(g) = f.at
                 /\ \E g \in Datas(p, s)' : Until(g) = wrote'[e][s]
      <4>1. Lasts(p, s)
        BY <1>1, <1>3, <1>6 DEF Lasts, Live, Gone
      <4>2. a.sent = Entry(p, s).received \/ \E g \in Datas(p, s) : Until(g) = a.sent
        BY <1>1, <1>8, <1>14, <3>2, <4>1 DEF Agreed, Everything
      <4>3. \A f \in Datas(p, s) :
              f.at = Entry(p, s).received \/ \E g \in Datas(p, s) : Until(g) = f.at
        BY <1>14, <3>2 DEF Agreed, Everything
      <4> QED
        BY <1>8, <1>10, <1>15, <2>1, <4>2, <4>3
    <3> QED
      BY <1>1, <1>7, <1>19, <3>1, <3>2 DEF Everything
  <2>4. Finishes(p, s)'
    BY <1>1, <1>5, <1>6, <1>7, <1>15, <1>16 DEF Finishes
  <2>5. Told(p, s)'
    BY <1>1, <1>7, <1>13, <1>14, <1>15, <1>19 DEF Agreed, Told, Failing
  <2>6. Given(p, s)'
    BY <1>1, <1>5, <1>7, <1>13, <1>14, <1>19 DEF Agreed, Given, Limits
  <2> QED
    BY <2>2, <2>3, <2>4, <2>5, <2>6 DEF Agreed
<1>22. new.highest = st.highest /\ new.closed = st.closed /\ new.streams = st.streams
  BY <1>5 DEF SameStreams
<1>23. UNCHANGED <<wire, reader>>
  BY DEF Engine
<1> QED
  BY <1>3, <1>5, <1>8, <1>9, <1>12, <1>18, <1>20, <1>21, <1>22, <1>23, LocalStep

(* How an end's queue of chunks shrinks and grows at its ends.             *)
LEMMA UnreadLeaves ==
    ASSUME NEW a, NEW b, a.inbound \in Seq(Chunk), a.inbound # <<>>, Unread(a),
           b.inbound = Tail(a.inbound), b.received = a.received,
           b.consumed = a.consumed + Head(a.inbound).size
    PROVE  Unread(b)
<1> DEFINE q == a.inbound
           r == Tail(q)
           n == Len(q)
<1>1. n \in Nat \ {0} /\ Len(r) = n - 1 /\ \A i \in 1 .. n - 1 : r[i] = q[i + 1]
  OBVIOUS
<1>2. Head(q) = q[1]
  OBVIOUS
<1>3. r = <<>> <=> n = 1
  <2>1. r \in Seq(Chunk)
    BY ElementsOfHead
  <2> HIDE DEF r, n
  <2> QED
    BY <1>1, <2>1, LenOfNone
<1>4. /\ \A i \in 1 .. n - 1 : Until(q[i]) = q[i + 1].at
      /\ q[1].at = a.consumed /\ Until(q[n]) = a.received
  BY DEF Unread
<1>5. b.inbound = r /\ b.received = a.received /\ b.consumed = Until(q[1])
  BY <1>2, <1>4 DEF Until
<1> HIDE DEF r, q, n
<1>6. CASE n = 1
  <2>1. b.inbound = <<>> /\ Len(b.inbound) = 0
    BY <1>1, <1>3, <1>5, <1>6
  <2>2. b.consumed = b.received
    BY <1>4, <1>5, <1>6
  <2>3. 1 .. Len(b.inbound) - 1 = {}
    <3> DEFINE m == Len(b.inbound)
    <3>1. m = 0
      BY <2>1
    <3> HIDE DEF m
    <3>2. 1 .. m - 1 = {}
      BY <3>1
    <3> QED
      BY <3>2 DEF m
  <2> QED
    BY <2>1, <2>2, <2>3 DEF Unread
<1>7. CASE n # 1
  <2>1. r # <<>> /\ 1 \in 1 .. n - 1 /\ n - 1 \in 1 .. n - 1 /\ (n - 1) + 1 = n
    BY <1>1, <1>3, <1>7
  <2>2. r[1] = q[2] /\ r[n - 1] = q[n] /\ Until(q[1]) = q[2].at
    BY <1>1, <1>4, <2>1
  <2>3. \A i \in 1 .. Len(r) - 1 : Until(r[i]) = r[i + 1].at
    <3> SUFFICES ASSUME NEW i \in 1 .. Len(r) - 1 PROVE Until(r[i]) = r[i + 1].at
      OBVIOUS
    <3>1. i \in 1 .. n - 1 /\ i + 1 \in 1 .. n - 1
      BY <1>1
    <3>2. r[i] = q[i + 1] /\ r[i + 1] = q[(i + 1) + 1]
      BY <1>1, <3>1
    <3> QED
      BY <1>4, <3>1, <3>2
  <2> QED
    BY <1>1, <1>4, <1>5, <2>1, <2>2, <2>3 DEF Unread
<1> QED
  BY <1>6, <1>7

(* Likewise, when one joins it.                                            *)
LEMMA UnreadJoins ==
    ASSUME NEW a, NEW b, NEW f, a.inbound \in Seq(Chunk), f \in Chunk, Unread(a), a.handle_alive,
           f.at = a.received, b.inbound = Append(a.inbound, f), b.received = Until(f),
           b.consumed = a.consumed
    PROVE  Unread(b)
<1> DEFINE q == a.inbound
           r == Append(q, f)
           n == Len(q)
<1>1. n \in Nat /\ Len(r) = n + 1 /\ r[n + 1] = f /\ \A i \in 1 .. n : r[i] = q[i]
  OBVIOUS
<1>2. r # <<>> /\ (q = <<>> <=> n = 0)
  BY LenOfNone, <1>1 DEF n
<1>3. /\ \A i \in 1 .. n - 1 : Until(q[i]) = q[i + 1].at
      /\ n # 0 => q[1].at = a.consumed /\ Until(q[n]) = a.received
      /\ n = 0 => a.consumed = a.received
  BY <1>2 DEF Unread
<1>4. b.inbound = r
  OBVIOUS
<1> HIDE DEF r, q, n
<1>5. r[1].at = a.consumed
  BY <1>1, <1>3
<1>6. \A i \in 1 .. Len(r) - 1 : Until(r[i]) = r[i + 1].at
  BY <1>1, <1>3
<1> QED
  BY <1>1, <1>2, <1>4, <1>5, <1>6 DEF Unread

(* A read: its credit is the largest yet, and within what was read.        *)
LEMMA ReadKeeps ==
    ASSUME SInv, NEW e \in Ends, NEW s \in held[e], ReadResult(state[e], s) = "chunk",
           Engine(e, ReadChunk(state[e], s)), UNCHANGED wrote
    PROVE  SInv'
<1> DEFINE p == Peer(e)
           st == state[e]
           new == ReadChunk(st, s)
           a == Entry(e, s)
           b == new.entry[s]
           h == Head(a.inbound)
<1>1. p \in Ends /\ Peer(p) = e /\ p # e
  BY Peers
<1>2. TypeOK /\ Local /\ Order /\ Agreement
  BY DEF SInv
<1>3. s \in Numbers /\ Has(e, s) /\ Set(e, new) /\ a.inbound # <<>>
  BY <1>2 DEF TypeOK, Engine, Has, StateType, ReadResult, Entry
<1>4. /\ st \in StateType /\ state'[e] = new /\ state'[p] = state[p]
  BY <1>2, <1>3, SetIs
<1>5. /\ new \in StateType
      /\ SameStreams(st, new) /\ OtherEntries(st, new, s)
      /\ SameSending(a, b)
      /\ b.inbound = Tail(a.inbound) /\ b.received = a.received
      /\ b.consumed = a.consumed + h.size
      /\ b.peer_finished = a.peer_finished /\ b.handle_alive = a.handle_alive
      /\ \/ /\ b.announced = b.consumed + Window
            /\ new.control = Append(st.control, Credit(s, b.announced))
         \/ /\ b.announced = a.announced /\ new.control = st.control
            /\ ~a.peer_finished => b.consumed + Window < a.announced + Window \div 4
  BY <1>3, <1>4, ReadIs DEF Entry
<1> HIDE DEF new
<1>6. /\ Entry(e, s)' = b /\ Entry(p, s)' = Entry(p, s)
      /\ \A c \in Ends : \A t : (Has(c, t)' <=> Has(c, t)) /\ (Known(c, t)' <=> Known(c, t))
  BY <1>1, <1>4, <1>5, Peers DEF Entry, Has, Known, SameStreams
<1>7. TypeOK'
  <2>1. \A t \in Numbers : t \in new.streams /\ new.entry[t].handle_alive
                       <=> t \in state[e].streams /\ state[e].entry[t].handle_alive
    BY <1>5 DEF SameStreams, OtherEntries, Alike, SameReceiving, Entry
  <2>2. UNCHANGED <<held, asked, wire, up, reader, writer, pinged, setting>>
    BY DEF Engine
  <2>3. wrote' \in [Ends -> [Numbers -> Nat]]
    BY <1>2 DEF TypeOK
  <2> QED
    BY <1>2, <1>3, <1>5, <2>1, <2>2, <2>3, TypeKept
<1>8. /\ a.consumed \in Nat /\ a.announced \in Nat /\ a.received \in Nat /\ a.inbound \in Seq(Chunk)
      /\ h \in Elements(a.inbound) /\ Elements(Tail(a.inbound)) \subseteq Elements(a.inbound)
      /\ Tail(a.inbound) \in Seq(Chunk) /\ h \in Chunk
  BY <1>2, <1>3, EntryIn, ElementsOfHead
<1>9. EntryOk(e, s)
  BY <1>2, <1>3 DEF Local
<1>10. h.size \in Nat \ {0} /\ h.at \in Nat
  BY <1>8, <1>9 DEF EntryOk, Sane, Ours, FrameType
<1>11. a.consumed + h.size <= a.received
  <2>1. h.at = a.consumed
    BY <1>3, <1>9 DEF EntryOk, Sane, Unread
  <2>2. Unread(b)
    BY <1>3, <1>5, <1>8, <1>9, UnreadLeaves DEF EntryOk, Sane
  <2>3. CASE b.inbound = <<>>
    <3>1. a.handle_alive
      BY <1>3, <1>9 DEF EntryOk, Sane
    <3>2. b.handle_alive
      BY <1>5, <3>1
    <3>3. b.consumed = b.received
      BY <2>2, <2>3, <3>2 DEF Unread
    <3> QED
      BY <1>5, <1>8, <1>10, <3>3
  <2>4. CASE b.inbound # <<>>
    <3> DEFINE q == b.inbound
    <3>4. q \in Seq(Chunk) /\ q # <<>>
      BY <1>5, <1>8, <2>4
    <3> HIDE DEF q
    <3>1. q \in Seq(Chunk) /\ Len(q) \in Nat \ {0} /\ \A i \in 1 .. Len(q) : q[i] \in Chunk
      BY <3>4, LenOfNone
    <3> DEFINE S == {i \in 0 .. Len(q) : i = 0 \/ b.consumed <= Until(q[i])}
    <3>2. 0 .. Len(q) \subseteq S
      <4>1. \A i \in 1 .. Len(q) : i - 1 \in S => i \in S
        <5> SUFFICES ASSUME NEW i \in 1 .. Len(q), i - 1 \in S PROVE b.consumed <= Until(q[i])
          BY <3>1
        <5>1. q[i].at \in Nat /\ q[i].size \in Nat
          BY <3>1 DEF Chunk
        <5>2. b.consumed <= q[i].at
          <6>1. CASE i = 1
            BY <1>5, <1>8, <1>10, <2>2, <2>4, <6>1 DEF Unread, q
          <6>2. CASE i # 1
            BY <3>1, <6>2, <2>2 DEF Unread, q
          <6> QED
            BY <6>1, <6>2
        <5>3. b.consumed \in Nat
          BY <1>5, <1>8, <1>10
        <5> QED
          BY <5>1, <5>2, <5>3 DEF Until
      <4>2. 0 \in S /\ Len(q) \in Nat
        BY <3>1
      <4> HIDE DEF S
      <4> QED
        BY <4>1, <4>2, InductionTo
    <3>3. b.consumed <= Until(q[Len(q)])
      BY <3>1, <3>2
    <3> QED
      BY <1>5, <2>2, <2>4, <3>3 DEF Unread, q
  <2> QED
    BY <2>3, <2>4
<1>12. /\ b.consumed \in Nat /\ a.announced <= b.announced /\ b.announced <= b.consumed + Window
       /\ (b.peer_finished \/ b.announced > b.consumed)
       /\ b.announced >= Window /\ b.consumed <= b.received
       /\ b.announced \in Nat
  <2>1. /\ a.announced <= a.consumed + Window /\ a.announced >= Window
        /\ Window \in Nat \ {0} /\ b.consumed = a.consumed + h.size /\ b.received = a.received
    BY <1>5, <1>9, StateAssumption DEF EntryOk, Sane
  <2>2. Window \div 4 < Window /\ Window \div 4 \in Nat
    BY <2>1
  <2>3. CASE b.announced = b.consumed + Window
    BY <1>8, <1>10, <1>11, <2>1, <2>3
  <2>4. CASE b.announced = a.announced /\ (~a.peer_finished => b.consumed + Window < a.announced + Window \div 4)
    <3>1. b.consumed \in Nat /\ a.announced <= b.consumed + Window /\ b.consumed <= b.received
      BY <1>8, <1>10, <1>11, <2>1
    <3>2. ~a.peer_finished => b.announced > b.consumed
      BY <1>8, <2>1, <2>2, <2>4, <3>1
    <3> QED
      BY <1>5, <1>8, <2>1, <2>4, <3>1, <3>2
  <2> QED
    BY <1>5, <2>3, <2>4
<1>13. EntryOk(e, s)'
  BY <1>3, <1>5, <1>8, <1>9, UnreadLeaves, <1>12, <1>6 DEF EntryOk, Sane, Complete, SameSending
<1>14. \/ new.control = st.control
       \/ \E x : May(e, x) /\ x.stream = s /\ new.control = Append(st.control, x)
                 /\ x = Credit(s, b.announced)
  BY <1>2, <1>3, HasKnown, <1>12, CreditIn, <1>5 DEF May, Known, Items
<1>15. /\ \A c \in Ends : \A t : Arriving(c, t)' = Arriving(c, t)
       /\ \A t : News(e, t)' = News(e, t)
       /\ Line(e, s)' = Line(e, s) /\ Line(p, s)' = Line(p, s)
       /\ \/ News(p, s)' = News(p, s) /\ b.announced = a.announced
          \/ News(p, s)' = News(p, s) \cup {Credit(s, b.announced)}
  <2>1. (\A c \in Ends : On(c)' = On(c)) /\ Due(e)' = Due(e)
    BY <1>1, <1>4, <1>5, Peers DEF On, Due, Engine
  <2>2. Line(e, s)' = Line(e, s) /\ Line(p, s)' = Line(p, s)
    BY <1>1, <1>5, <1>6 DEF Line, SameSending
  <2>3. CASE new.control = st.control /\ b.announced = a.announced
    BY <1>1, <1>4, <2>3, <2>1, <2>2 DEF Due, Arriving, News, Chain
  <2>4. CASE new.control = Append(st.control, Credit(s, b.announced))
    <3>1. st.control \in Seq(FrameType)
      BY <1>4 DEF StateType
    <3>2. Due(p)' = Due(p) \cup {Credit(s, b.announced)}
      BY <1>4, <2>4, <3>1, QueueGrows
    <3>3. Credit(s, b.announced).stream = s /\ Credit(s, b.announced).type = "credit"
      BY DEF Credit
    <3> QED
      BY <2>1, <2>2, <3>2, <3>3, <1>1 DEF Arriving, News, Chain
  <2> QED
    BY <1>5, <2>3, <2>4
<1>16. Agreed(e, s) /\ Agreed(p, s) /\ Ordered(p, s)
  BY <1>1, <1>2, <1>3 DEF Agreement, Order
<1>17. /\ reader' = reader /\ (Running' => Running)
       /\ \A c \in Ends : (Gone(c, s)' <=> Gone(c, s)) /\ (Live(c, s)' <=> Live(c, s))
  BY <1>1, <1>4, <1>5, <1>6, Peers DEF Engine, Running, SameStreams, SameSending, Gone, Live
<1>18. Ordered(p, s)'
  BY <1>1, <1>5, <1>6, <1>15, <1>16 DEF Ordered, Engine, SameSending
<1>19. /\ \A c \in Ends : (Failing(c, s)' <=> Failing(c, s))
       /\ Limits(e, s)' = Limits(e, s)
       /\ \/ Limits(p, s)' = Limits(p, s) /\ b.announced = a.announced
          \/ Limits(p, s)' = Limits(p, s) \cup {Credit(s, b.announced)}
  BY <1>1, <1>15, Peers DEF Credit, Failing, Limits, GiveUp
<1>20. Agreed(p, s)'
  <2>1. Beside(p, s)
    BY <1>1, <1>5, <1>6, <1>15, <1>17, <1>19 DEF Beside, SameSending
  <2> QED
    BY <1>1, <1>3, <1>16, <2>1, BesideAgrees
<1>21. Agreed(e, s)'
  <2>1. /\ Datas(e, s)' = Datas(e, s)
        /\ (FinOn(e, s)' <=> FinOn(e, s)) /\ (FinDue(e, s)' <=> FinDue(e, s))
    BY <1>15 DEF Datas, FinOn, FinDue
  <2>2. Credits(e, s)'
    <3>1. \A f \in Datas(e, s) : f.at \in Nat /\ f.size \in Nat /\ Until(f) \in Nat
      BY <1>2, <1>3, DatasIn DEF Until
    <3>2. ASSUME reader[e], Live(e, s)
          PROVE  \A f \in Datas(e, s) : a.received <= f.at /\ Until(f) <= b.announced
      BY <1>8, <1>12, <1>16, <3>1, <3>2 DEF Agreed, Credits
    <3>3. Entry(p, s).limit \in Nat
      BY <1>1, <1>2, <1>3, EntryIn
    <3>4. ASSUME ~Gone(e, s)
          PROVE  /\ Entry(p, s).limit <= b.announced
                 /\ \A f \in Limits(p, s)' : f.at <= b.announced
      <4>1. \A f \in Limits(p, s) : f.at \in Nat /\ f.at <= a.announced
        BY <1>1, <1>2, <1>3, <1>16, <3>4, NewsIn DEF Agreed, Credits, Limits
      <4>2. Credit(s, b.announced).at = b.announced
        BY DEF Credit
      <4> QED
        BY <1>8, <1>12, <1>16, <1>19, <3>3, <3>4, <4>1, <4>2 DEF Agreed, Credits
    <3> QED
      BY <1>1, <1>5, <1>6, <1>16, <1>17, <2>1, <3>2, <3>4 DEF Agreed, Credits
  <2>3. Everything(e, s)'
    BY <1>1, <1>5, <1>6, <1>17, <2>1, <1>16 DEF Lasts, Agreed, Everything
  <2>4. Finishes(e, s)'
    BY <1>1, <1>5, <1>6, <1>16, <1>17, <2>1 DEF Agreed, Finishes, SameSending
  <2>5. Told(e, s)'
    BY <1>1, <1>5, <1>6, <1>16, <1>17, <1>19, <2>1 DEF Agreed, Told, SameSending
  <2>6. Given(e, s)'
    BY <1>1, <1>5, <1>6, <1>16, <1>17, <1>19 DEF Credit, Agreed, Given
  <2> QED
    BY <2>2, <2>3, <2>4, <2>5, <2>6 DEF Agreed
<1>22. new.highest = st.highest /\ new.closed = st.closed /\ new.streams = st.streams
  BY <1>5 DEF SameStreams
<1>23. UNCHANGED <<wire, reader, wrote>>
  BY DEF Engine
<1> QED
  BY <1>3, <1>5, <1>7, <1>13, <1>14, <1>18, <1>20, <1>21, <1>22, <1>23, LocalStep

(* Nothing is done where the State stays as it was.                        *)
LEMMA NothingKeeps ==
    ASSUME SInv, NEW e \in Ends, Set(e, state[e]),
           UNCHANGED <<held, wire, up, reader, writer, wrote, pinged, setting>>,
           asked' \subseteq asked
    PROVE  SInv'
<1>1. TypeOK
  BY DEF SInv
<1>2. state' = state
  BY <1>1 DEF Set, TypeOK
<1>3. UNCHANGED <<held, wire, up, reader, writer, wrote, pinged, setting>> /\ asked' \subseteq asked
  OBVIOUS
<1>4. TypeOK' /\ NoProtocolError'
  BY <1>2, <1>3 DEF SInv, TypeOK, NoProtocolError
<1>5. Local' /\ Opens' /\ Order'
  BY <1>2, <1>3 DEF SInv, Local, EndOk, EntryOk, Entry, Has, Known, On, Opens, ToClient, ToServer,
     Chain, Due, Order, Ordered, Arriving, Line
<1>6. Agreement'
  <2> SUFFICES ASSUME NEW d \in Ends, NEW t \in Numbers PROVE Agreed(d, t)'
    BY DEF Agreement
  <2>1. Beside(d, t)
    BY <1>2, <1>3 DEF Beside, Entry, Has, Known, Arriving, Line, On, Failing, Limits, News, Chain,
       Due, Running
  <2> QED
    BY <2>1, BesideAgrees DEF SInv, Agreement
<1> QED
  BY <1>4, <1>5, <1>6 DEF SInv

(* A finish follows all the data of its Stream.                            *)
LEMMA FinishKeeps ==
    ASSUME SInv, NEW e \in Ends, NEW s \in held[e],
           Engine(e, FinishQueued(state[e], s)), UNCHANGED wrote
    PROVE  SInv'
<1> DEFINE p == Peer(e)
           st == state[e]
           new == [Queued(st, s, Frame("finish", s)) EXCEPT !.entry[s].finish_queued = TRUE]
           a == Entry(e, s)
           b == new.entry[s]
           d == Frame("finish", s)
<1>1. p \in Ends /\ Peer(p) = e /\ p # e
  BY Peers
<1>2. TypeOK /\ Local /\ Order /\ Agreement
  BY DEF SInv
<1>3. s \in Numbers /\ Has(e, s)
  BY <1>2 DEF TypeOK, Has, StateType
<1>4. CASE a.finish_queued \/ a.failed
  BY <1>4, NothingKeeps DEF FinishQueued, Entry, Engine
<1>5. CASE ~a.finish_queued /\ ~a.failed
  <2>18. Set(e, new)
    BY <1>3, <1>5 DEF Engine, FinishQueued, Entry, Has
  <2>1. /\ st \in StateType /\ state'[e] = new /\ state'[p] = state[p]
    BY <1>2, <2>18, SetIs
  <2>2. /\ new \in StateType
        /\ SameStreams(st, new) /\ OtherEntries(st, new, s) /\ new.control = st.control
        /\ SameReceiving(a, b)
        /\ b.limit = a.limit /\ b.sent = a.sent
        /\ b.outgoing = Append(a.outgoing, d)
        /\ b.finish_queued /\ b.failed = a.failed
    BY <1>3, <2>1, FinishIs DEF Entry
  <2> HIDE DEF new
  <2>3. /\ Entry(e, s)' = b /\ Entry(p, s)' = Entry(p, s)
        /\ \A c \in Ends : \A t : (Has(c, t)' <=> Has(c, t)) /\ (Known(c, t)' <=> Known(c, t))
    BY <1>1, <2>1, <2>2, Peers DEF Entry, Has, Known, SameStreams
  <2>4. TypeOK'
    <3>1. \A t \in Numbers : t \in new.streams /\ new.entry[t].handle_alive
                         <=> t \in state[e].streams /\ state[e].entry[t].handle_alive
      BY <2>2 DEF SameStreams, OtherEntries, Alike, SameReceiving, Entry
    <3>2. UNCHANGED <<held, asked, wire, up, reader, writer, pinged, setting>>
      BY DEF Engine
    <3>3. wrote' \in [Ends -> [Numbers -> Nat]]
      BY <1>2 DEF TypeOK
    <3> QED
      BY <1>2, <2>18, <2>2, <3>1, <3>2, <3>3, TypeKept
  <2>5. /\ a.outgoing \in Seq(ItemType)
        /\ d \in FrameType /\ d.type = "finish" /\ d.stream = s
    BY <1>2, <1>3, EntryIn, FrameIn DEF OfStream
  <2> HIDE DEF d
  <2>6. Elements(b.outgoing) = Elements(a.outgoing) \cup {d}
    BY <2>2, <2>5, ElementsOfAppend
  <2>7. EntryOk(e, s)'
    <3>1. EntryOk(e, s)
      BY <1>2, <1>3 DEF Local
    <3>2. d \in Ours(s) /\ d.type \in Items
      BY <2>5 DEF Ours, Items
    <3>3. Sane(b, s)
      BY <1>5, <2>2, <2>6, <3>1, <3>2 DEF EntryOk, Sane, Unread, Complete, SameReceiving
    <3> QED
      BY <1>3, <2>2, <2>3, <3>1, <3>3 DEF EntryOk
  <2>8. /\ \A c \in Ends : \A t : Arriving(c, t)' = Arriving(c, t) /\ News(c, t)' = News(c, t)
        /\ Line(e, s)' = Line(e, s) /\ Line(p, s)' = Line(p, s) \cup {d}
    BY <1>1, <2>1, <2>2, Peers, <2>3, <2>6 DEF On, Due, Engine, Arriving, News, Chain, Line
  <2>9. Agreed(e, s) /\ Agreed(p, s) /\ Ordered(p, s)
    BY <1>1, <1>2, <1>3 DEF Agreement, Order
  <2>10. /\ Datas(p, s)' = Datas(p, s) /\ (FinOn(p, s)' <=> FinOn(p, s)) /\ FinDue(p, s)'
         /\ Datas(e, s)' = Datas(e, s) /\ (FinOn(e, s)' <=> FinOn(e, s))
         /\ (FinDue(e, s)' <=> FinDue(e, s))
         /\ \A c \in Ends : (Failing(c, s)' <=> Failing(c, s)) /\ Limits(c, s)' = Limits(c, s)
    BY <1>1, <2>5, <2>8 DEF Datas, FinOn, FinDue, Failing, Limits
  <2>11. ~FinOn(p, s) /\ ~FinDue(p, s) /\ ~Entry(p, s).peer_finished
    BY <1>1, <1>3, <1>5, <2>9 DEF Agreed, Finishes
  <2>12. Ordered(p, s)'
    <3>1. ASSUME NEW f \in Arriving(p, s) \cup Line(p, s) PROVE Before(f, d)
      BY <1>1, <1>2, <1>3, LineIn, <2>11, <2>5 DEF Arriving, FinOn, FinDue, Items, Before
    <3>2. InOrder(Append(a.outgoing, d), s)
      BY <1>1, <3>1, <2>9, <2>5, InOrderJoins DEF Line, Ordered
    <3> QED
      BY <1>1, <2>2, <2>3, <2>8, <2>9, <3>1, <3>2 DEF Ordered, Engine
  <2>13. /\ reader' = reader /\ (Running' => Running)
         /\ \A c \in Ends : (Gone(c, s)' <=> Gone(c, s)) /\ (Live(c, s)' <=> Live(c, s))
    BY <1>1, <2>1, <2>2, <2>3, Peers DEF Engine, Running, SameStreams, Gone, Live
  <2>14. Agreed(p, s)'
    <3>1. Credits(p, s)'
      BY <1>1, <2>2, <2>3, <2>9, <2>10, <2>13 DEF Agreed, Credits
    <3>2. Everything(p, s)'
      BY <1>1, <2>3, <2>10, <2>13, <2>9 DEF Lasts, Agreed, Everything
    <3>3. Finishes(p, s)'
      BY <1>2, <1>3, HasKnown, <1>1, <2>2, <2>3, <2>10, <2>11 DEF Finishes
    <3>4. Told(p, s)'
      BY <1>1, <2>3, <2>9, <2>10, <2>13 DEF Agreed, Told
    <3>5. Given(p, s)'
      BY <1>1, <2>2, <2>3, <2>9, <2>10, <2>13 DEF Agreed, Given
    <3> QED
      BY <3>1, <3>2, <3>3, <3>4, <3>5 DEF Agreed
  <2>15. Agreed(e, s)'
    BY <1>1, <2>2, <2>3, <2>9, <2>10, <2>13 DEF Agreed, Credits, SameReceiving, Lasts, Everything,
       Finishes, Told, Given
  <2>16. new.highest = st.highest /\ new.closed = st.closed /\ new.streams = st.streams
    BY <2>2 DEF SameStreams
  <2>17. UNCHANGED <<wire, reader, wrote>>
    BY DEF Engine
  <2> QED
    BY <1>3, <2>18, <2>2, <2>4, <2>7, <2>12, <2>14, <2>15, <2>16, <2>17, LocalStep
<1> QED
  BY <1>4, <1>5

-----------------------------------------------------------------------------
(* A Stream is given up at an end: it fails there, or leaves the table.    *)

(* For the peer's direction, d's view of what e = Peer(d) gave up.         *)
LEMMA PeerGaveUp ==
    ASSUME TypeOK, Local, NEW d \in Ends, NEW s \in Numbers, NEW e \in Ends, e = Peer(d),
           Agreed(d, s), Ordered(d, s), Known(e, s)', ~Live(e, s)',
           Entry(d, s)' = Entry(d, s),
           Has(d, s)' <=> Has(d, s), Known(d, s)' <=> Known(d, s),
           wrote'[e][s] = wrote[e][s],
           Has(e, s)' => /\ Has(e, s) /\ Entry(e, s)'.limit = Entry(e, s).limit
                         /\ Entry(e, s)'.finish_queued = Entry(e, s).finish_queued,
           ~Has(e, s)' => AsNew(Entry(e, s)'),
           Arriving(d, s)' = Arriving(d, s), Line(d, s)' = {},
           Limits(e, s)' = Limits(e, s),
           reader'[d] => reader[d], Running' => Running,
           Running' /\ Live(d, s) =>
             \/ Failing(d, s)'
             \/ Entry(d, s).finish_queued /\ (FinOn(d, s) \/ Entry(d, s).peer_finished)
    PROVE  Agreed(d, s)'
<1>1. /\ Gone(d, s)' <=> Gone(d, s)
      /\ Live(d, s)' <=> Live(d, s)
  BY DEF Gone, Live
<1>2. Datas(d, s)' \subseteq Datas(d, s) /\ (FinOn(d, s)' <=> FinOn(d, s)) /\ ~FinDue(d, s)'
      /\ \A f \in Datas(d, s) : f \in Datas(d, s)' \/ f \in Line(d, s)
  BY DEF Datas, FinOn, FinDue
<1>3. Entry(d, s).announced >= Window
  BY DEF Local, EntryOk, Sane
<1>4. Credits(d, s)'
  BY <1>3, <1>1, <1>2 DEF Agreed, Credits, AsNew
<1>5. Everything(d, s)'
  <2>1. Entry(d, s).received <= wrote[e][s]
    BY DEF Agreed, Everything
  <2>2. ASSUME reader[d], Live(d, s), NEW f \in Datas(d, s)',
               f.at # Entry(d, s).received
        PROVE  \E g \in Datas(d, s)' : Until(g) = f.at
    BY <1>2, <2>2, DatasIn DEF Agreed, Everything, Datas, Ordered, Before, Until
  <2>3. ASSUME reader[d], Live(d, s), Lasts(d, s)'
        PROVE  wrote[e][s] = Entry(d, s).received \/ \E g \in Datas(d, s)' : Until(g) = wrote[e][s]
    BY <1>2, <2>3 DEF Lasts, Agreed, Everything, FinOn, Ordered, Before, Finishes
  <2> QED
    BY <1>1, <2>1, <2>2, <2>3 DEF Everything
<1>6. Finishes(d, s)'
  BY <1>1, <1>2 DEF Live, Gone, Agreed, Finishes
<1>7. Told(d, s)'
  BY <1>1, <1>2 DEF Told
<1>8. Given(d, s)'
  BY <1>1 DEF Agreed, Given
<1> QED
  BY <1>4, <1>5, <1>6, <1>7, <1>8 DEF Agreed

(* For the direction to the end that gave up.                              *)
LEMMA GaveUp ==
    ASSUME TypeOK, Local, NEW e \in Ends, NEW s \in Numbers, NEW p \in Ends, p = Peer(e),
           Agreed(e, s), Known(e, s)', ~Live(e, s)',
           Entry(p, s)' = Entry(p, s),
           Has(p, s)' <=> Has(p, s), Known(p, s)' <=> Known(p, s),
           wrote'[p][s] = wrote[p][s],
           Has(e, s)' => /\ Has(e, s)
                         /\ Entry(e, s)'.received = Entry(e, s).received
                         /\ Entry(e, s)'.announced = Entry(e, s).announced
                         /\ Entry(e, s)'.peer_finished = Entry(e, s).peer_finished,
           ~Has(e, s)' => AsNew(Entry(e, s)'),
           Arriving(e, s)' = Arriving(e, s), Limits(p, s)' = Limits(p, s),
           Failing(e, s)' => Failing(e, s),
           reader'[e] => reader[e], Running' => Running
    PROVE  Agreed(e, s)'
<1>1. /\ Gone(p, s)' <=> Gone(p, s)
      /\ Live(p, s)' <=> Live(p, s)
      /\ Has(e, s)' => ~Gone(e, s)
      /\ ~Gone(e, s)' => Has(e, s)' /\ Entry(e, s)'.failed
  BY HasKnown DEF Gone, Live
<1>2. Line(e, s)' = Line(e, s)
  BY DEF Line
<1>3. Datas(e, s)' = Datas(e, s) /\ (FinOn(e, s)' <=> FinOn(e, s)) /\ (FinDue(e, s)' <=> FinDue(e, s))
  BY <1>2 DEF Datas, FinOn, FinDue
<1>4. Credits(e, s)'
  BY <1>1, <1>3 DEF Agreed, Credits
<1>5. Everything(e, s)'
  BY EntryIn DEF Agreed, Everything, AsNew
<1>6. Finishes(e, s)'
  BY <1>1, <1>3 DEF Agreed, Finishes, Gone, AsNew
<1>7. Told(e, s)'
  BY <1>1 DEF Agreed, Told
<1>8. Given(e, s)'
  BY <1>1 DEF Agreed, Given
<1> QED
  BY <1>4, <1>5, <1>6, <1>7, <1>8 DEF Agreed

LEMMA InOrderNone == \A s : InOrder(<<>>, s)
BY DEF InOrder

(* A Stream that both ends finished is no news to the peer.                *)
LEMMA CompleteTold ==
    ASSUME Local, NEW e \in Ends, NEW s \in Numbers, NEW p \in Ends, p = Peer(e), e = Peer(p),
           Agreed(e, s), Agreed(p, s), Has(e, s), Running, Live(p, s),
           Complete(Entry(e, s)), ~Entry(e, s).failed, ~FinDue(p, s)
    PROVE  Entry(p, s).finish_queued /\ (FinOn(p, s) \/ Entry(p, s).peer_finished)
BY DEF Live, Complete, Agreed, Finishes, Gone

(* An end gives a Stream up, and says so unless both are done with it.     *)
LEMMA GivingUpKeeps ==
    ASSUME SInv, TypeOK', NEW e \in Ends, NEW s \in Numbers, Has(e, s),
           NEW new \in StateType, Set(e, new),
           new.highest = state[e].highest, new.closed = state[e].closed,
           OtherEntries(state[e], new, s),
           \A t \in Numbers \ {s} : t \in new.streams <=> t \in state[e].streams,
           NEW a, NEW b, a = Entry(e, s), b = new.entry[s],
           \/ /\ s \in new.streams /\ SameReceiving(a, b)
              /\ b.limit = a.limit /\ b.sent = a.sent /\ b.outgoing = <<>>
              /\ b.finish_queued = a.finish_queued /\ b.failed
           \/ s \notin new.streams /\ AsNew(b),
           \/ \E x : /\ May(e, x) /\ x.stream = s /\ x.type \in GiveUp
                     /\ new.control = Append(state[e].control, x)
           \/ /\ new.control = state[e].control
              /\ state[e].closed # "no" \/ a.failed \/ (Complete(a) /\ a.outgoing = <<>>),
           UNCHANGED <<wire, reader, wrote>>
    PROVE  SInv'
<1> DEFINE p == Peer(e)
           st == state[e]
<1>1. p \in Ends /\ Peer(p) = e /\ p # e
  BY Peers
<1>2. TypeOK /\ Local /\ Order /\ Agreement
  BY DEF SInv
<1>3. /\ st \in StateType /\ state'[e] = new /\ state'[p] = state[p]
  BY <1>2, SetIs
<1>4. /\ Entry(e, s)' = b /\ Entry(p, s)' = Entry(p, s)
      /\ (Has(p, s)' <=> Has(p, s)) /\ (Has(e, s)' <=> s \in new.streams)
      /\ \A c \in Ends : Known(c, s)' <=> Known(c, s)
  BY <1>1, <1>3, Peers DEF Entry, Has, Known
<1>5. Known(e, s)
  BY <1>2, HasKnown
<1>6. ~Live(e, s)'
  BY <1>4, <1>5 DEF Live, Gone
<1>7. EntryOk(e, s)'
  BY <1>2, ElementsOfNone, <1>4, <1>5, StateAssumption DEF Local, EntryOk, Sane, Unread, Complete,
     SameReceiving, AsNew
<1>8. /\ \A c \in Ends : On(c)' = On(c)
      /\ Due(e)' = Due(e)
      /\ \/ \E x : x.stream = s /\ x.type \in GiveUp /\ Due(p)' = Due(p) \cup {x}
         \/ /\ Due(p)' = Due(p)
            /\ state[e].closed # "no" \/ a.failed \/ (Complete(a) /\ a.outgoing = <<>>)
  BY <1>1, <1>3, QueueGrows DEF On, Due, StateType
<1>9. /\ \A c \in Ends : Arriving(c, s)' = Arriving(c, s) /\ Limits(c, s)' = Limits(c, s)
      /\ News(e, s)' = News(e, s) /\ News(p, s) \subseteq News(p, s)'
      /\ Line(e, s)' = Line(e, s) /\ Line(p, s)' = {}
      /\ \/ Failing(p, s)'
         \/ state[e].closed # "no" \/ a.failed \/ (Complete(a) /\ a.outgoing = <<>>)
  BY <1>1, <1>4, ElementsOfNone, <1>8, Peers DEF Line, AsNew, Arriving, News, Chain, Limits,
     GiveUp, Failing
<1>10. Agreed(e, s) /\ Agreed(p, s) /\ Ordered(p, s)
  BY <1>1, <1>2 DEF Agreement, Order
<1>11. Running' <=> Running
  BY <1>1, <1>3, Peers DEF Running
<1>12. Agreed(e, s)'
  <2>1. Failing(e, s)' => Failing(e, s)
    BY <1>9 DEF Failing
  <2>2. Has(e, s)' => /\ Entry(e, s)'.received = Entry(e, s).received
                      /\ Entry(e, s)'.announced = Entry(e, s).announced
                      /\ Entry(e, s)'.peer_finished = Entry(e, s).peer_finished
    BY <1>4 DEF SameReceiving
  <2> QED
    BY <1>1, <1>2, <1>4, <1>5, <1>6, <1>9, <1>10, <1>11, <2>1, <2>2, GaveUp
<1>13. Agreed(p, s)'
  <2>1. ASSUME Running', Live(p, s)
        PROVE  \/ Failing(p, s)'
               \/ Entry(p, s).finish_queued /\ (FinOn(p, s) \/ Entry(p, s).peer_finished)
    BY <1>11, <2>1, <1>1, <1>10, <1>9, ElementsOfNone, <1>2, CompleteTold DEF Running, Live,
       Agreed, Told, Failing, FinDue, Line
  <2> QED
    BY <1>1, <1>2, <1>4, <1>5, <1>6, <1>9, <1>10, <1>11, <2>1, PeerGaveUp
<1>14. Ordered(p, s)'
  BY <1>1, <1>4, <1>9, <1>10, InOrderNone DEF AsNew, Ordered
<1>15. \/ new.control = state[e].control
       \/ \E x : May(e, x) /\ x.stream = s /\ new.control = Append(state[e].control, x)
  OBVIOUS
<1>16. s \in state[e].streams
  BY DEF Has
<1>17. wrote'[p] = wrote[p] /\ \A t \in Numbers \ {s} : wrote'[e][t] = wrote[e][t]
  OBVIOUS
<1> QED
  BY <1>7, <1>12, <1>13, <1>14, <1>15, <1>16, <1>17, LocalStep

-----------------------------------------------------------------------------
(* The other steps of those that hold a handle.                            *)

(* A reset does so,                                                        *)
LEMMA ResetKeeps ==
    ASSUME SInv, NEW e \in Ends, NEW s \in held[e], Engine(e, Reset(state[e], s)), UNCHANGED wrote
    PROVE  SInv'
<1> DEFINE st == state[e]
           mid == Failed(st, s)
           new == Reset(st, s)
           a == Entry(e, s)
           x == Frame("reset", s)
<1>1. TypeOK /\ Local
  BY DEF SInv
<1>2. s \in Numbers /\ Has(e, s) /\ Set(e, new) /\ st \in StateType
  BY <1>1 DEF TypeOK, Has, StateType, Engine
<1>3. CASE a.failed
  BY <1>3, NothingKeeps DEF Reset, Entry, Engine
<1>4. CASE ~a.failed
  <2>1. /\ mid \in StateType
        /\ SameStreams(st, mid) /\ OtherEntries(st, mid, s) /\ mid.control = st.control
        /\ SameReceiving(a, mid.entry[s])
        /\ mid.entry[s].limit = a.limit /\ mid.entry[s].sent = a.sent
        /\ mid.entry[s].outgoing = <<>>
        /\ mid.entry[s].finish_queued = a.finish_queued /\ mid.entry[s].failed
    BY <1>2, FailedIs DEF Entry
  <2>2. new = IF st.closed = "no" THEN Control(mid, x) ELSE mid
    BY <1>2, <1>4 DEF Reset, Entry, Has
  <2>3. x \in FrameType /\ x.type = "reset" /\ x.stream = s
    BY <1>2, FrameIn DEF OfStream
  <2>4. May(e, x) /\ x.type \in GiveUp
    BY <1>1, <1>2, HasKnown, <2>3 DEF May, Known, Items, GiveUp
  <2> HIDE DEF mid, new, x
  <2>5. /\ new \in StateType /\ SameStreams(mid, new) /\ new.entry = mid.entry
        /\ \/ new.control = Append(mid.control, x)
           \/ new.control = mid.control /\ st.closed # "no"
    BY <2>2, <2>1, <2>3, ControlIs DEF SameStreams
  <2>6. SameStreams(st, new) /\ OtherEntries(st, new, s) /\ new.entry[s] = mid.entry[s]
    BY <2>1, <2>5 DEF SameStreams, OtherEntries
  <2>7. TypeOK'
    <3>1. \A t \in Numbers : t \in new.streams /\ new.entry[t].handle_alive
                         <=> t \in st.streams /\ st.entry[t].handle_alive
      BY <2>1, <2>6 DEF SameStreams, OtherEntries, Alike, SameReceiving, Entry
    <3>2. UNCHANGED <<held, wire, up, reader, writer, pinged, setting>> /\ asked' \subseteq asked
      BY DEF Engine
    <3>3. wrote' \in [Ends -> [Numbers -> Nat]]
      BY <1>1 DEF TypeOK
    <3> QED
      BY <1>1, <1>2, <2>5, <3>1, <3>2, <3>3, TypeKept
  <2>8. new.highest = st.highest /\ new.closed = st.closed /\ new.streams = st.streams
        /\ s \in new.streams
    BY <1>2, <2>6 DEF SameStreams, Has
  <2>9. UNCHANGED <<wire, reader, wrote>>
    BY DEF Engine
  <2>10. \/ \E y : /\ May(e, y) /\ y.stream = s /\ y.type \in GiveUp
                   /\ new.control = Append(st.control, y)
         \/ /\ new.control = st.control
            /\ st.closed # "no" \/ a.failed \/ (Complete(a) /\ a.outgoing = <<>>)
    BY <2>1, <2>3, <2>4, <2>5
  <2> QED
    BY <1>2, <2>1, <2>5, <2>6, <2>7, <2>8, <2>9, <2>10, GivingUpKeeps
<1> QED
  BY <1>3, <1>4

(* and so does a Server that does not accept what was opened.              *)
LEMMA RefuseKeeps ==
    ASSUME SInv, NEW s \in Numbers, Answer(s, Refused(state["server"], s))
    PROVE  SInv'
<1> DEFINE e == "server"
           st == state[e]
           x == Frame("open_failed", s)
           mid == Control(st, x)
           new == Failed(mid, s)
           a == Entry(e, s)
<1>1. TypeOK /\ Local /\ e \in Ends
  BY DEF SInv, Ends
<1>2. Has(e, s) /\ st \in StateType
  BY <1>1 DEF TypeOK, Has, Answer
<1>3. UNCHANGED <<held, wire, up, reader, writer, wrote, pinged, setting>> /\ asked' \subseteq asked
  BY DEF Answer
<1>4. CASE st.closed # "no"
  BY <1>4, <1>1, <1>3, NothingKeeps DEF Answer, Refused
<1>5. CASE st.closed = "no"
  <2>1. x \in FrameType /\ x.type = "open_failed" /\ x.stream = s
    BY FrameIn DEF OfStream
  <2> HIDE DEF x
  <2>2. /\ mid \in StateType
        /\ SameStreams(st, mid) /\ mid.entry = st.entry /\ mid.control = Append(st.control, x)
    BY <1>2, <2>1, ControlIs
  <2>3. Set(e, new)
    BY <1>2, <1>5, <2>2 DEF Answer, Refused, Has, SameStreams, x
  <2> HIDE DEF mid
  <2>4. /\ new \in StateType
        /\ SameStreams(mid, new) /\ OtherEntries(mid, new, s) /\ new.control = mid.control
        /\ SameReceiving(a, new.entry[s])
        /\ new.entry[s].limit = a.limit /\ new.entry[s].sent = a.sent
        /\ new.entry[s].outgoing = <<>>
        /\ new.entry[s].finish_queued = a.finish_queued /\ new.entry[s].failed
    BY <2>2, FailedIs DEF Entry
  <2> HIDE DEF new
  <2>5. SameStreams(st, new) /\ OtherEntries(st, new, s) /\ new.control = Append(st.control, x)
    BY <2>2, <2>4 DEF SameStreams, OtherEntries
  <2>6. May(e, x) /\ x.type \in GiveUp
    BY <1>1, <1>2, HasKnown, <2>1 DEF May, Known, Items, GiveUp
  <2>7. TypeOK'
    <3>1. \A t \in Numbers : t \in new.streams /\ new.entry[t].handle_alive
                         <=> t \in st.streams /\ st.entry[t].handle_alive
      BY <2>4, <2>5 DEF SameStreams, OtherEntries, Alike, SameReceiving, Entry
    <3>3. wrote' \in [Ends -> [Numbers -> Nat]]
      BY <1>1, <1>3 DEF TypeOK
    <3> QED
      BY <1>1, <1>3, <2>3, <2>4, <3>1, <3>3, TypeKept
  <2>8. new.highest = st.highest /\ new.closed = st.closed /\ new.streams = st.streams
        /\ s \in new.streams
    BY <1>2, <2>5 DEF SameStreams, Has
  <2>9. UNCHANGED <<wire, reader, wrote>>
    BY <1>3
  <2>10. \/ \E y : /\ May(e, y) /\ y.stream = s /\ y.type \in GiveUp
                   /\ new.control = Append(st.control, y)
         \/ /\ new.control = st.control
            /\ st.closed # "no" \/ a.failed \/ (Complete(a) /\ a.outgoing = <<>>)
    BY <2>1, <2>5, <2>6
  <2> QED
    BY <1>1, <1>2, <2>3, <2>4, <2>5, <2>7, <2>8, <2>9, <2>10, GivingUpKeeps
<1> QED
  BY <1>4, <1>5

(* A step that changes nothing the two directions rest on.                 *)
LEMMA AlikeKeeps ==
    ASSUME SInv, TypeOK', NEW e \in Ends, NEW s \in Numbers, Has(e, s),
           NEW new \in StateType, Set(e, new), SameStreams(state[e], new),
           OtherEntries(state[e], new, s),
           NEW a, NEW b, a = Entry(e, s), b = new.entry[s], SameSending(a, b), Sane(b, s),
           b.received = a.received, b.announced = a.announced, b.peer_finished = a.peer_finished,
           \/ new.control = state[e].control
           \/ \E x : /\ May(e, x) /\ x.stream = s /\ x.type \notin GiveUp \cup {"credit"}
                     /\ new.control = Append(state[e].control, x),
           UNCHANGED <<wire, reader, wrote>>
    PROVE  SInv'
<1> DEFINE p == Peer(e)
           st == state[e]
<1>1. p \in Ends /\ Peer(p) = e /\ p # e
  BY Peers
<1>2. TypeOK /\ Local /\ Order /\ Agreement
  BY DEF SInv
<1>3. /\ st \in StateType /\ state'[e] = new /\ state'[p] = state[p]
  BY <1>2, SetIs
<1>4. /\ Entry(e, s)' = b /\ Entry(p, s)' = Entry(p, s)
      /\ \A c \in Ends : (Has(c, s)' <=> Has(c, s)) /\ (Known(c, s)' <=> Known(c, s))
  BY <1>1, <1>3, Peers DEF Entry, Has, Known, SameStreams
<1>5. EntryOk(e, s)'
  BY <1>2, <1>4 DEF Local, EntryOk, SameSending
<1>6. /\ \A c \in Ends : Arriving(c, s)' = Arriving(c, s) /\ News(c, s)' = News(c, s)
      /\ Line(e, s)' = Line(e, s) /\ Line(p, s)' = Line(p, s)
  <2>1. (\A c \in Ends : On(c)' = On(c)) /\ Due(e)' = Due(e)
    BY <1>1, <1>3 DEF On, Due
  <2>2. ASSUME NEW x, x.type \notin GiveUp \cup {"credit"}, new.control = Append(st.control, x)
        PROVE  Due(p)' = Due(p) \cup {x}
    BY <1>3, <2>2, QueueGrows DEF StateType
  <2>3. ASSUME new.control = st.control PROVE Due(p)' = Due(p)
    BY <1>1, <1>3, <2>3 DEF Due
  <2>4. News(p, s)' = News(p, s)
    BY <1>1, <2>1, <2>2, <2>3 DEF News, Chain
  <2>5. News(e, s)' = News(e, s) /\ \A c \in Ends : Arriving(c, s)' = Arriving(c, s)
    BY <1>1, <2>1 DEF News, Chain, Arriving
  <2> QED
    BY <1>1, <1>4, <2>4, <2>5, Peers DEF Line, SameSending
<1>7. Running' => Running
  BY <1>1, <1>3, Peers DEF Running, SameStreams
<1>8. Agreed(e, s) /\ Agreed(p, s) /\ Ordered(p, s)
  BY <1>1, <1>2 DEF Agreement, Order
<1>9. Agreed(e, s)' /\ Agreed(p, s)'
  BY <1>1, <1>4, <1>6, <1>7, <1>8, BesideAgrees DEF Beside, SameSending, Failing, Limits
<1>10. Ordered(p, s)'
  BY <1>1, <1>4, <1>6, <1>8 DEF Ordered, SameSending
<1>11. /\ new.highest = st.highest /\ new.closed = st.closed /\ new.streams = st.streams
       /\ wrote'[p] = wrote[p] /\ \A t \in Numbers \ {s} : wrote'[e][t] = wrote[e][t]
  BY DEF SameStreams
<1>12. \/ new.control = state[e].control
       \/ \E x : May(e, x) /\ x.stream = s /\ new.control = Append(state[e].control, x)
  OBVIOUS
<1> QED
  BY <1>5, <1>9, <1>10, <1>11, <1>12, LocalStep

(* The Server accepts: its answer says nothing of data.                    *)
LEMMA AcceptKeeps ==
    ASSUME SInv, NEW s \in Numbers, Answer(s, Accepted(state["server"], s))
    PROVE  SInv'
<1> DEFINE e == "server"
           st == state[e]
           x == Frame("opened", s)
           new == Control(st, x)
           a == Entry(e, s)
<1>1. TypeOK /\ Local /\ e \in Ends
  BY DEF SInv, Ends
<1>2. Has(e, s) /\ st \in StateType
  BY <1>1 DEF TypeOK, Has, Answer
<1>3. UNCHANGED <<held, wire, up, reader, writer, wrote, pinged, setting>> /\ asked' \subseteq asked
  BY DEF Answer
<1>4. CASE st.closed # "no"
  BY <1>4, <1>1, <1>3, NothingKeeps DEF Answer, Accepted
<1>5. CASE st.closed = "no"
  <2>1. x \in FrameType /\ x.type = "opened" /\ x.stream = s
    BY FrameIn DEF OfStream
  <2>2. Set(e, new)
    BY <1>5 DEF Answer, Accepted
  <2> HIDE DEF x
  <2>3. /\ new \in StateType
        /\ SameStreams(st, new) /\ new.entry = st.entry /\ new.control = Append(st.control, x)
    BY <1>2, <2>1, ControlIs
  <2> HIDE DEF new
  <2>4. OtherEntries(st, new, s) /\ SameSending(a, a) /\ new.entry[s] = a /\ Sane(a, s)
    BY <1>1, <2>3 DEF OtherEntries, Alike, SameSending, SameReceiving, Entry, Local, EntryOk
  <2>5. May(e, x) /\ x.type \notin GiveUp \cup {"credit"}
    BY <1>1, <1>2, HasKnown, <2>1 DEF May, Known, Items, GiveUp
  <2>6. TypeOK'
    BY <2>3, <1>1, <1>3, <2>2, TypeKept DEF SameStreams, TypeOK
  <2>7. \E y : /\ May(e, y) /\ y.stream = s /\ y.type \notin GiveUp \cup {"credit"}
               /\ new.control = Append(st.control, y)
    BY <2>1, <2>3, <2>5
  <2>8. UNCHANGED <<wire, reader, wrote>>
    BY <1>3
  <2> QED
    BY <1>1, <1>2, <2>2, <2>3, <2>4, <2>6, <2>7, <2>8, AlikeKeeps
<1> QED
  BY <1>4, <1>5

(* A holder leaves its Stream: what it gave up it has said.                *)
LEMMA ReleaseKeeps ==
    ASSUME SInv, NEW e \in Ends, NEW s \in Numbers, Release(e, s)
    PROVE  SInv'
<1> DEFINE p == Peer(e)
           st == state[e]
           new == Dropped(st, s)
           a == Entry(e, s)
           b == new.entry[s]
           x == Frame("reset", s)
<1>1. p \in Ends /\ Peer(p) = e /\ p # e /\ \A c \in Ends : c = e \/ c = p
  BY Peers
<1>2. TypeOK /\ Local
  BY DEF SInv
<1>3. Has(e, s) /\ st \in StateType /\ Set(e, new) /\ s \in held[e]
  BY <1>2 DEF TypeOK, Has, Release
<1>4. UNCHANGED <<wire, up, reader, writer, wrote, pinged, setting>>
      /\ held' = [held EXCEPT ![e] = @ \ {s}]
      /\ asked' = IF e = "server" THEN asked \ {s} ELSE asked
  BY DEF Release
<1>5. /\ new \in StateType
      /\ new.highest = st.highest /\ new.closed = st.closed /\ OtherEntries(st, new, s)
      /\ new.control = (IF Cuts(a) /\ st.closed = "no" THEN Append(st.control, x) ELSE st.control)
      /\ Cuts(a) \/ a.outgoing = <<>> => new.streams = st.streams \ {s} /\ AsNew(b)
      /\ ~Cuts(a) /\ a.outgoing # <<>> =>
           /\ new.streams = st.streams
           /\ SameSending(a, b) /\ b.inbound = <<>> /\ ~b.handle_alive
           /\ b.received = a.received /\ b.consumed = a.consumed
           /\ b.announced = a.announced /\ b.peer_finished = a.peer_finished
  BY <1>3, DroppedIs DEF Entry, Has
<1> HIDE DEF new
<1>6. state'[e] = new /\ state'[p] = state[p] /\ state' \in [Ends -> StateType]
  BY <1>2, <1>3, <1>5, SetIs
<1>7. TypeOK'
  <2>1. held[e] = {t \in st.streams : st.entry[t].handle_alive}
        /\ held[p] = {t \in state[p].streams : state[p].entry[t].handle_alive}
        /\ held \in [Ends -> SUBSET Numbers] /\ asked \subseteq held["server"]
    BY <1>1, <1>2 DEF TypeOK
  <2>2. st.streams \subseteq Numbers /\ new.streams \subseteq Numbers
    BY <1>3, <1>5 DEF StateType
  <2>3. held'[e] = held[e] \ {s} /\ held'[p] = held[p] /\ held' \in [Ends -> SUBSET Numbers]
    BY <1>1, <1>4, <2>1
  <2>4. {t \in new.streams : new.entry[t].handle_alive}
          = {t \in st.streams : st.entry[t].handle_alive} \ {s}
    BY <1>5, <2>2 DEF OtherEntries, Alike, SameReceiving
  <2>5. asked' \subseteq held'["server"]
    BY <1>4, <2>1, <2>3, <1>1, Peers
  <2>6. \A c \in Ends : held'[c] = {t \in state'[c].streams : state'[c].entry[t].handle_alive}
    BY <1>1, <1>6, <2>1, <2>3, <2>4
  <2> QED
    BY <1>2, <1>4, <1>6, <2>3, <2>5, <2>6 DEF TypeOK
<1>8. Sane(a, s)
  BY <1>2 DEF Local, EntryOk
<1>9. CASE Cuts(a) \/ a.outgoing = <<>>
  <2>1. x \in FrameType /\ x.type = "reset" /\ x.stream = s
    BY FrameIn DEF OfStream
  <2>2. May(e, x) /\ x.type \in GiveUp
    BY <1>2, <1>3, HasKnown, <2>1 DEF May, Known, Items, GiveUp
  <2> HIDE DEF x
  <2>3. \/ \E y : /\ May(e, y) /\ y.stream = s /\ y.type \in GiveUp
                  /\ new.control = Append(st.control, y)
        \/ /\ new.control = st.control
           /\ st.closed # "no" \/ a.failed \/ (Complete(a) /\ a.outgoing = <<>>)
    BY <1>5, <1>9, <2>1, <2>2 DEF Cuts
  <2>4. new.streams = st.streams \ {s} /\ AsNew(b) /\ s \notin new.streams
    BY <1>5, <1>9
  <2>5. UNCHANGED <<wire, reader, wrote>>
    BY <1>4
  <2> QED
    BY <1>3, <1>5, <1>7, <2>3, <2>4, <2>5, GivingUpKeeps
<1>10. CASE ~Cuts(a) /\ a.outgoing # <<>>
  BY <1>5, <1>10, <1>8, ElementsOfNone, <1>4, <1>3, <1>7, AlikeKeeps DEF SameStreams, Cuts, Sane,
     Unread, SameSending, Complete
<1> QED
  BY <1>9, <1>10

-----------------------------------------------------------------------------
(* Steps that move frames.                                                 *)

(* The invariant's parts, after a step of end e that touches its Stream s. *)
LEMMA StepKeeps ==
    ASSUME SInv, TypeOK', NoProtocolError', NEW e \in Ends, NEW s \in Numbers, Touches(e, s),
           \A d \in Ends : EndOk(d)', EntryOk(e, s)', Opens', Order',
           Agreed(e, s)', Agreed(Peer(e), s)'
    PROVE  SInv'
BY Peers, Elsewhere DEF SInv, Local, Agreement

(* A frame is taken off the transport.                                     *)
LEMMA Takes ==
    ASSUME TypeOK, NEW e \in Ends, wire[e] # <<>>, Taking(e)
    PROVE  LET f == Head(wire[e])  p == Peer(e) IN
           /\ wire' \in [Ends -> Seq(FrameType)] /\ \A d \in Ends : Len(wire'[d]) <= WireCap
           /\ wire'[e] = Tail(wire[e]) /\ wire'[p] = wire[p]
           /\ f \in FrameType /\ f \in On(e) /\ On(e) = {f} \cup On(e)' /\ On(p)' = On(p)
BY Peers, ElementsOfHead, StreamsAssumption DEF TypeOK, Taking, On

(* A frame is put on it.                                                   *)
LEMMA Puts ==
    ASSUME TypeOK, NEW e \in Ends, Carries(Peer(e)), NEW f \in FrameType,
           wire' = [wire EXCEPT ![Peer(e)] = Append(@, f)]
    PROVE  LET p == Peer(e) IN
           /\ wire' \in [Ends -> Seq(FrameType)] /\ \A d \in Ends : Len(wire'[d]) <= WireCap
           /\ wire'[p] = Append(wire[p], f) /\ wire'[e] = wire[e]
           /\ On(p)' = On(p) \cup {f} /\ On(e)' = On(e)
BY Peers, StreamsAssumption, ElementsOfAppend DEF TypeOK, Carries, On

(* The types, after a step of the connection.                              *)
LEMMA TypeGoesOn ==
    ASSUME TypeOK, NEW e \in Ends, NEW new \in StateType, Set(e, new),
           UNCHANGED <<held, asked, wrote, setting>>,
           wire' \in [Ends -> Seq(FrameType)], \A d \in Ends : Len(wire'[d]) <= WireCap,
           up' \in BOOLEAN, reader' \in [Ends -> BOOLEAN], writer' \in [Ends -> BOOLEAN],
           pinged' \in Nat,
           \A t \in Numbers : t \in new.streams /\ new.entry[t].handle_alive
                          <=> t \in state[e].streams /\ state[e].entry[t].handle_alive
    PROVE  TypeOK'
<1>1. Peer(e) \in Ends /\ \A d \in Ends : d = e \/ d = Peer(e)
  BY Peers
<1>2. state'[e] = new /\ state'[Peer(e)] = state[Peer(e)] /\ state' \in [Ends -> StateType]
  BY SetIs
<1>3. \A d \in Ends : held'[d] = {s \in state'[d].streams : state'[d].entry[s].handle_alive}
  <2>1. held[e] = {s \in state[e].streams : state[e].entry[s].handle_alive}
        /\ held[Peer(e)] = {s \in state[Peer(e)].streams : state[Peer(e)].entry[s].handle_alive}
    BY <1>1 DEF TypeOK
  <2>2. state[e].streams \subseteq Numbers /\ new.streams \subseteq Numbers
    BY DEF TypeOK, StateType
  <2>3. {s \in state[e].streams : state[e].entry[s].handle_alive}
          = {s \in new.streams : new.entry[s].handle_alive}
    BY <2>2
  <2> QED
    BY <1>1, <1>2, <2>1, <2>3
<1> QED
  BY <1>2, <1>3 DEF TypeOK

-----------------------------------------------------------------------------
(* Steps that are about no Stream: the connection's own frames, its end,   *)
(* and the frames an end only moves from its queue to the transport.       *)

(* No Stream's data, end, credit or failure is taken from an end that      *)
(* still hears its peer.                                                   *)
Quiet ==
    /\ \A d \in Ends, t \in Numbers : Alike(Entry(d, t), Entry(d, t)')
    /\ \A d \in Ends : state'[d].streams = state[d].streams /\ state'[d].highest = state[d].highest
    /\ wrote' = wrote
    /\ \A d \in Ends, t \in Numbers :
         Arriving(d, t)' \subseteq Arriving(d, t) /\ News(d, t)' \subseteq News(d, t)
    /\ \A d \in Ends : reader'[d] =>
         reader[d] /\ \A t \in Numbers : Arriving(d, t)' = Arriving(d, t)
    /\ Running' =>
         /\ Running
         /\ \A d \in Ends, t \in Numbers :
              Arriving(d, t)' = Arriving(d, t) /\ News(d, t)' = News(d, t)

(* A step that neither adds nor takes a Stream's frames, on agreement      *)
LEMMA QuietAgrees ==
    ASSUME TypeOK, Local, Quiet, NEW d \in Ends, NEW t \in Numbers, Agreed(d, t)
    PROVE  Agreed(d, t)'
<1> DEFINE p == Peer(d)
<1>1. p \in Ends /\ Peer(p) = d
  BY Peers
<1>2. /\ \A e \in Ends : (Has(e, t)' <=> Has(e, t)) /\ (Known(e, t)' <=> Known(e, t))
      /\ Alike(Entry(d, t), Entry(d, t)') /\ Alike(Entry(p, t), Entry(p, t)')
      /\ wrote'[p][t] = wrote[p][t]
  BY <1>1 DEF Quiet, Has, Known
<1>3. /\ Gone(d, t)' <=> Gone(d, t)
      /\ Gone(p, t)' <=> Gone(p, t)
      /\ Live(d, t)' <=> Live(d, t)
      /\ Live(p, t)' <=> Live(p, t)
  BY <1>1, <1>2 DEF Gone, Live, Alike, SameSending
<1>4. Line(d, t)' = Line(d, t)
  BY <1>2 DEF Line, Alike, SameSending
<1>5. /\ Datas(d, t)' \subseteq Datas(d, t) /\ (FinOn(d, t)' => FinOn(d, t))
      /\ (FinDue(d, t)' <=> FinDue(d, t)) /\ (Failing(d, t)' => Failing(d, t))
      /\ Limits(p, t)' \subseteq Limits(p, t)
  BY <1>1, <1>4 DEF Quiet, Datas, FinOn, FinDue, Failing, Limits
<1>6. reader'[d] => reader[d] /\ Datas(d, t)' = Datas(d, t)
  BY <1>4 DEF Quiet, Datas
<1>7. Running' => /\ Running
                  /\ (FinOn(d, t)' <=> FinOn(d, t)) /\ (Failing(d, t)' <=> Failing(d, t))
                  /\ Limits(p, t)' = Limits(p, t)
  BY <1>1 DEF Quiet, FinOn, Failing, Limits
<1>8. Credits(d, t)'
  BY <1>2, <1>3, <1>5, <1>6 DEF Agreed, Credits, Alike, SameSending, SameReceiving
<1>9. Everything(d, t)'
  BY <1>2, <1>3, <1>5, <1>6 DEF Lasts, Alike, SameReceiving, Agreed, Everything
<1>10. Finishes(d, t)'
  BY <1>1, <1>2, <1>3, <1>5, <1>7 DEF Agreed, Finishes, Alike, SameSending, SameReceiving
<1>11. Told(d, t)'
  BY <1>2, <1>3, <1>5, <1>7 DEF Agreed, Told, Alike, SameSending, SameReceiving
<1>12. Given(d, t)'
  BY <1>1, <1>2, <1>3, <1>7 DEF Agreed, Given, Alike, SameSending, SameReceiving
<1> QED
  BY <1>8, <1>9, <1>10, <1>11, <1>12 DEF Agreed

(* What such a step may do to a transport.                                 *)
Moves(d) ==
    \/ wire'[d] = wire[d]
    \/ wire'[d] = <<>>
    \/ wire[d] # <<>> /\ wire'[d] = Tail(wire[d])
    \/ \E x \in FrameType : x.type \notin Items /\ wire'[d] = Append(wire[d], x)

(* and on the order of frames,                                             *)
LEMMA QuietOrder ==
    ASSUME TypeOK, Order, Quiet, \A d \in Ends : Moves(d)
    PROVE  Order'
<1> SUFFICES ASSUME NEW d \in Ends, NEW t \in Numbers PROVE Ordered(d, t)'
  BY DEF Order
<1>1. Ordered(d, t) /\ Moves(d) /\ Peer(d) \in Ends /\ wire[d] \in Seq(FrameType)
  BY Peers DEF Order, TypeOK
<1>2. InOrder(wire[d], t)'
  <2>1. ASSUME NEW x \in FrameType, x.type \notin Items PROVE InOrder(Append(wire[d], x), t)
    BY <1>1, <2>1, InOrderJoins DEF Ordered
  <2>2. wire[d] # <<>> => InOrder(Tail(wire[d]), t)
    BY <1>1, InOrderLeaves DEF Ordered
  <2>3. InOrder(<<>>, t)
    BY InOrderNone
  <2> QED
    BY <1>1, <2>1, <2>2, <2>3 DEF Moves, Ordered
<1>3. Entry(Peer(d), t)'.outgoing = Entry(Peer(d), t).outgoing
  BY <1>1 DEF Quiet, Alike, SameSending
<1>4. Line(d, t)' = Line(d, t) /\ Arriving(d, t)' \subseteq Arriving(d, t)
  BY <1>3 DEF Line, Quiet
<1> QED
  BY <1>1, <1>2, <1>3, <1>4 DEF Ordered

(* A frame of the connection itself.                                       *)
OfConnection(d, x) ==
    /\ x.stream = 0
    /\ x.type = "close" \/ (d = "server" /\ x.type = "ping") \/ (d = "client" /\ x.type = "pong")

(* on what the Client opened,                                              *)
LEMMA OpensKept ==
    ASSUME TypeOK, Opens,
           \A d \in Ends : state'[d].highest = state[d].highest,
           \A d \in Ends : \A f \in Chain(d)' : f \in Chain(d) \/ OfConnection(d, f),
           OpensRise(wire["server"])', OpensRise(state["client"].control)',
           OpensLast(wire["server"], state["client"].control)',
           reader'["server"] => reader["server"]
             /\ \A f \in Chain("server") : f.type = "open" => f \in Chain("server")'
    PROVE  Opens'
<1>1. \A d \in Ends : state[d].highest \in Nat
  BY DEF TypeOK, StateType, Numbers
<1>2. \A d \in Ends : \A t : Known(d, t)' <=> Known(d, t)
  BY DEF Known
<1>3. ToClient'
  BY <1>1, Peers DEF Opens, ToClient, OfConnection
<1>4. ToServer'
  BY <1>1, Peers, <1>2 DEF Opens, ToServer, OfConnection
<1> QED
  BY <1>3, <1>4, Peers DEF Opens

(* and on all of the invariant.                                            *)
LEMMA QuietKeeps ==
    ASSUME SInv, TypeOK', NoProtocolError', Quiet, \A d \in Ends : Moves(d) /\ EndOk(d)', Opens'
    PROVE  SInv'
BY QuietOrder, QuietAgrees, SaneAlike DEF SInv, Agreement, Local, Quiet, Has, Known, EntryOk,
   Alike, SameSending

(* The opens a server has yet to hear of, when it has taken one frame.     *)
LEMMA OpensAfterTaking ==
    ASSUME TypeOK, Opens, wire["server"] # <<>>, wire'["server"] = Tail(wire["server"]),
           state'["client"].control = state["client"].control
    PROVE  /\ OpensRise(wire["server"])' /\ OpensRise(state["client"].control)'
           /\ OpensLast(wire["server"], state["client"].control)'
           /\ \A f \in On("server")' : f.type = "open" => Head(wire["server"]).stream < f.stream
           /\ \A f \in Due("server") : f.type = "open" => Head(wire["server"]).stream < f.stream
BY Peers, RiseLeaves, ElementsOfHead, LastOf DEF TypeOK, Opens, ToServer, On, Due

(* An end closes, and may hear no more.                                    *)
LEMMA CloseKeeps ==
    ASSUME SInv, NEW e \in Ends, NEW reason \in {"asked", "ended"}, CloseFor(e, reason),
           UNCHANGED <<held, asked, wrote, pinged, setting>>, writer' \in [Ends -> BOOLEAN],
           \/ UNCHANGED <<wire, reader>>
           \/ /\ wire[e] # <<>> /\ Head(wire[e]).type = "close" /\ Taking(e)
              /\ reader' = [reader EXCEPT ![e] = FALSE]
           \/ /\ wire' = [wire EXCEPT ![e] = <<>>]
              /\ reader' = [reader EXCEPT ![e] = FALSE]
    PROVE  SInv'
<1> DEFINE p == Peer(e)
           st == state[e]
           new == ClosedFor(st, reason)
<1>1. p \in Ends /\ Peer(p) = e /\ p # e /\ \A d \in Ends : d = e \/ d = p
  BY Peers
<1>2. TypeOK /\ Local /\ Opens /\ NoProtocolError
  BY DEF SInv
<1>3. Set(e, new) /\ up' \in BOOLEAN
  BY <1>2 DEF CloseFor
<1>4. st \in StateType /\ state'[e] = new /\ state'[p] = state[p]
  BY <1>2, <1>3, SetIs
<1>5. /\ new \in StateType
      /\ new.streams = st.streams /\ new.highest = st.highest
      /\ new.entry = st.entry /\ new.control = st.control
      /\ new.closed # "no"
      /\ st.closed # "violated" => new.closed # "violated"
  BY <1>4, ClosedIs
<1> HIDE DEF new
<1>6. /\ wire \in [Ends -> Seq(FrameType)] /\ reader \in [Ends -> BOOLEAN]
      /\ \A d \in Ends : Len(wire[d]) <= WireCap
  BY <1>2 DEF TypeOK
<1>7. /\ wire' \in [Ends -> Seq(FrameType)] /\ reader' \in [Ends -> BOOLEAN]
      /\ \A d \in Ends : Len(wire'[d]) <= WireCap
      /\ wire'[p] = wire[p] /\ reader'[p] = reader[p]
      /\ \/ wire'[e] = wire[e] /\ reader'[e] = reader[e]
         \/ /\ wire[e] # <<>> /\ wire'[e] = Tail(wire[e]) /\ ~reader'[e]
         \/ wire'[e] = <<>> /\ ~reader'[e]
  <2>1. CASE UNCHANGED <<wire, reader>>
    BY <1>6, <2>1
  <2>2. CASE wire[e] # <<>> /\ Taking(e) /\ reader' = [reader EXCEPT ![e] = FALSE]
    BY <1>1, <1>2, <1>6, <2>2, Takes
  <2>3. CASE wire' = [wire EXCEPT ![e] = <<>>] /\ reader' = [reader EXCEPT ![e] = FALSE]
    BY StreamsAssumption, <1>1, <1>6, <2>3
  <2> QED
    BY <2>1, <2>2, <2>3
<1>8. TypeOK'
  <2>1. \A t \in Numbers : t \in new.streams /\ new.entry[t].handle_alive
                       <=> t \in st.streams /\ st.entry[t].handle_alive
    BY <1>5
  <2>2. pinged' \in Nat /\ UNCHANGED <<held, asked, wrote, setting>>
    BY <1>2 DEF TypeOK
  <2> QED
    BY <1>2, <1>3, <1>5, <1>7, <2>1, <2>2, TypeGoesOn
<1>9. NoProtocolError'
  BY <1>1, <1>2, <1>4, <1>5 DEF NoProtocolError
<1>10. /\ On(p)' = On(p) /\ On(e)' \subseteq On(e)
       /\ \A d \in Ends : Due(d)' = Due(d)
       /\ reader'[e] => On(e)' = On(e) /\ reader[e]
  <2>1. wire[e] # <<>> /\ wire'[e] = Tail(wire[e]) => On(e)' \subseteq On(e)
    BY <1>6, ElementsOfHead DEF On
  <2>2. \A d \in Ends : Due(d)' = Due(d)
    BY <1>1, <1>4, <1>5 DEF Due
  <2> QED
    BY <1>7, <2>1, <2>2, ElementsOfNone DEF On
<1>11. Quiet
  BY <1>1, <1>4, <1>5, <1>10, <1>7 DEF Entry, Alike, SameSending, SameReceiving, Arriving, News,
     Chain, Running, Quiet
<1>12. \A d \in Ends : Moves(d)
  BY <1>1, <1>7 DEF Moves
<1>13. \A d \in Ends : EndOk(d)'
  <2>1. EndOk(e) /\ EndOk(p)
    BY <1>1, <1>2 DEF Local
  <2>2. EndOk(e)'
    BY <1>4, <1>5, <1>10, <2>1 DEF EndOk, Known
  <2>3. EndOk(p)'
    BY <1>4, <1>7, <1>10, <2>1 DEF EndOk, Known
  <2> QED
    BY <1>1, <2>2, <2>3
<1>14. Opens'
  <2>1. \A d \in Ends : state'[d].control = state[d].control /\ state'[d].highest = state[d].highest
    BY <1>1, <1>4, <1>5
  <2>2. \A d \in Ends : Chain(d)' \subseteq Chain(d)
    BY <1>1, <1>10 DEF Chain
  <2>3. /\ OpensRise(wire["server"])' /\ OpensRise(state["client"].control)'
        /\ OpensLast(wire["server"], state["client"].control)'
    <3>1. OpensRise(wire["server"]) /\ OpensRise(state["client"].control)
          /\ OpensLast(wire["server"], state["client"].control)
      BY <1>2 DEF Opens, ToServer
    <3>2. CASE wire'["server"] = wire["server"]
      BY <2>1, <3>1, <3>2, Peers
    <3>3. CASE wire["server"] # <<>> /\ wire'["server"] = Tail(wire["server"])
      BY <1>2, <2>1, <3>3, OpensAfterTaking, Peers
    <3>4. CASE wire'["server"] = <<>>
      BY <2>1, <3>1, <3>4, Peers DEF OpensRise, OpensLast
    <3> QED
      BY <1>1, <1>7, <3>2, <3>3, <3>4, Peers
  <2>4. reader'["server"] => reader["server"]
             /\ \A f \in Chain("server") : f.type = "open" => f \in Chain("server")'
    BY <1>1, <1>7, <1>10, Peers DEF Chain
  <2> QED
    BY <1>2, <2>1, <2>2, <2>3, <2>4, OpensKept
<1> QED
  BY <1>8, <1>9, <1>11, <1>12, <1>13, <1>14, QuietKeeps

(* The connection closes at one end.                                       *)
LEMMA ClosingKeeps ==
    ASSUME SInv, NEW e \in Ends,
           \/ Close(e) \/ WriteFails(e) \/ ReaderEnds(e)
           \/ ReceiveLast(e) /\ Head(wire[e]).type = "close"
    PROVE  SInv'
BY CloseKeeps DEF SInv, TypeOK, Close, WriteFails, ReaderEnds, ReceiveLast, Arrives

(* The transport fails, or the writer passes over what has nothing to send.*)
LEMMA PassingKeeps ==
    ASSUME SInv, NEW e \in Ends, Break \/ PassStale(e)
    PROVE  SInv'
<1> DEFINE p == Peer(e)
           st == state[e]
<1>1. p \in Ends /\ Peer(p) = e /\ p # e /\ \A d \in Ends : d = e \/ d = p
  BY Peers
<1>2. TypeOK /\ Local /\ Opens /\ NoProtocolError
  BY DEF SInv
<1>3. st \in StateType /\ st.ready \in Seq(Numbers)
  BY <1>2 DEF TypeOK, StateType
<1>4. \E new \in StateType :
        /\ Set(e, new) /\ SameStreams(st, new) /\ new.control = st.control
        /\ \A t \in Numbers : Alike(st.entry[t], new.entry[t])
  <2>1. CASE Break
    BY <1>2, <2>1, <1>3 DEF Break, Set, TypeOK, SameStreams, Alike, SameSending, SameReceiving
  <2>2. CASE PassStale(e)
    BY <1>3, <2>2, PassedIs DEF PassStale
  <2> QED
    BY <2>1, <2>2
<1>5. PICK new \in StateType :
        /\ Set(e, new) /\ SameStreams(st, new) /\ new.control = st.control
        /\ \A t \in Numbers : Alike(st.entry[t], new.entry[t])
  BY <1>4
<1>6. UNCHANGED <<held, asked, wire, reader, writer, wrote, pinged, setting>> /\ up' \in BOOLEAN
  BY <1>2 DEF Break, PassStale, TypeOK
<1>7. state'[e] = new /\ state'[p] = state[p]
  BY <1>2, <1>5, SetIs
<1>8. TypeOK'
  <2>1. \A t \in Numbers : t \in new.streams /\ new.entry[t].handle_alive
                       <=> t \in st.streams /\ st.entry[t].handle_alive
    BY <1>5 DEF SameStreams, Alike, SameReceiving
  <2>2. /\ wire' \in [Ends -> Seq(FrameType)] /\ reader' \in [Ends -> BOOLEAN]
        /\ \A d \in Ends : Len(wire'[d]) <= WireCap
        /\ writer' \in [Ends -> BOOLEAN] /\ pinged' \in Nat
    BY <1>2, <1>6 DEF TypeOK
  <2> QED
    BY <1>2, <1>5, <1>6, <2>1, <2>2, TypeGoesOn
<1>9. NoProtocolError'
  BY <1>1, <1>2, <1>5, <1>7 DEF NoProtocolError, SameStreams
<1>10. \A d \in Ends : On(d)' = On(d) /\ Due(d)' = Due(d)
  BY <1>1, <1>5, <1>6, <1>7 DEF On, Due
<1>11. Quiet
  BY <1>1, <1>5, <1>7, <1>10, <1>6 DEF Entry, Alike, SameSending, SameReceiving, SameStreams,
     Arriving, News, Chain, Running, Quiet
<1>12. \A d \in Ends : Moves(d)
  BY <1>6 DEF Moves
<1>13. \A d \in Ends : EndOk(d)'
  BY <1>1, <1>2, <1>5, <1>6, <1>7, <1>10 DEF Local, EndOk, Known, SameStreams
<1>14. Opens'
  BY <1>2, <1>5, <1>6, <1>7, OpensSaid DEF SameStreams
<1> QED
  BY <1>8, <1>9, <1>11, <1>12, <1>13, <1>14, QuietKeeps

(* An end puts a frame on the transport that is in no Stream's own queue:  *)
(* the first it has queued, or one of the connection itself.               *)
LEMMA PutsKeeps ==
    ASSUME SInv, NEW e \in Ends, NEW new \in StateType, Set(e, new), NEW x \in FrameType,
           NEW p, p = Peer(e),
           new.streams = state[e].streams, new.highest = state[e].highest,
           new.entry = state[e].entry, new.closed = state[e].closed,
           \/ /\ state[e].control # <<>> /\ x = Head(state[e].control)
              /\ new.control = Tail(state[e].control)
           \/ OfConnection(p, x) /\ new.control = state[e].control,
           Carries(p), wire' = [wire EXCEPT ![p] = Append(@, x)],
           UNCHANGED <<held, asked, up, reader, wrote, setting>>,
           writer' \in [Ends -> BOOLEAN], pinged' \in Nat
    PROVE  SInv'
<1> DEFINE st == state[e]
<1>1. p \in Ends /\ Peer(p) = e /\ p # e /\ \A d \in Ends : d = e \/ d = p
  BY Peers
<1>2. TypeOK /\ Local /\ Opens /\ NoProtocolError
  BY DEF SInv
<1>3. st \in StateType /\ state'[e] = new /\ state'[p] = state[p] /\ st.control \in Seq(FrameType)
  BY <1>2, SetIs DEF StateType
<1>4. /\ wire' \in [Ends -> Seq(FrameType)] /\ \A d \in Ends : Len(wire'[d]) <= WireCap
      /\ wire'[p] = Append(wire[p], x) /\ wire'[e] = wire[e]
      /\ On(p)' = On(p) \cup {x} /\ On(e)' = On(e)
  BY <1>2, Puts
<1>5. TypeOK'
  <2>1. \A t \in Numbers : t \in new.streams /\ new.entry[t].handle_alive
                       <=> t \in st.streams /\ st.entry[t].handle_alive
    OBVIOUS
  <2>2. UNCHANGED <<held, asked, wrote, setting>> /\ up' \in BOOLEAN /\ reader' \in [Ends -> BOOLEAN]
    BY <1>2 DEF TypeOK
  <2> QED
    BY <1>2, <1>4, <2>1, <2>2, TypeGoesOn
<1>6. NoProtocolError'
  BY <1>1, <1>2, <1>3 DEF NoProtocolError
<1>7. /\ Due(e)' = Due(e)
      /\ \/ Due(p) = {x} \cup Due(p)' /\ st.control # <<>> /\ new.control = Tail(st.control)
            /\ x = Head(st.control) /\ x \in Elements(st.control)
         \/ Due(p)' = Due(p) /\ OfConnection(p, x) /\ new.control = st.control
  BY <1>3, ElementsOfHead, <1>1 DEF Due
<1>8. x.type \notin Items
  BY <1>2, <1>7 DEF Local, EndOk, OfConnection, Items
<1>9. /\ Chain(e)' = Chain(e)
      /\ Chain(p)' = Chain(p) \/ (Chain(p)' = Chain(p) \cup {x} /\ OfConnection(p, x))
  BY <1>1, <1>4, <1>7 DEF Chain
<1>10. Quiet
  <2>1. \A d \in Ends, t \in Numbers : Alike(Entry(d, t), Entry(d, t)')
    BY <1>1, <1>3 DEF Entry, Alike, SameSending, SameReceiving
  <2>2. \A d \in Ends : state'[d].streams = state[d].streams /\ state'[d].highest = state[d].highest
    BY <1>1, <1>3
  <2>3. \A d \in Ends, t \in Numbers : Arriving(d, t)' = Arriving(d, t)
    BY <1>1, <1>4, <1>8 DEF Arriving
  <2>4. \A d \in Ends, t \in Numbers : News(d, t)' = News(d, t)
    BY <1>1, <1>9 DEF OfConnection, Numbers, News
  <2>5. Running' => Running
    BY <1>1, <1>3 DEF Running
  <2> QED
    BY <2>1, <2>2, <2>3, <2>4, <2>5 DEF Quiet
<1>11. \A d \in Ends : Moves(d)
  BY <1>1, <1>4, <1>8 DEF Moves
<1>12. \A d \in Ends : EndOk(d)'
  BY <1>1, <1>2, <1>3, <1>7, ElementsOfHead, <1>4, <1>8 DEF Local, EndOk, Known, Items
<1>13. Opens'
  <2>1. \A d \in Ends : state'[d].highest = state[d].highest
    BY <1>1, <1>3
  <2>2. \A d \in Ends : \A f \in Chain(d)' : f \in Chain(d) \/ OfConnection(d, f)
    BY <1>1, <1>9
  <2>3. OpensRise(wire["server"]) /\ OpensRise(state["client"].control)
        /\ OpensLast(wire["server"], state["client"].control)
    BY <1>2 DEF Opens, ToServer
  <2>4. /\ OpensRise(wire["server"])' /\ OpensRise(state["client"].control)'
        /\ OpensLast(wire["server"], state["client"].control)'
    <3>1. CASE e = "server"
      BY <1>3, <1>4, <3>1, Peers, <2>3
    <3>2. CASE e = "client"
      <4> DEFINE q == wire["server"]
                 r == st.control
      <4>1. p = "server" /\ wire'["server"] = Append(q, x) /\ state'["client"].control = new.control
            /\ q \in Seq(FrameType) /\ r \in Seq(FrameType)
        BY <1>2, <1>3, <1>4, <3>2, Peers DEF TypeOK
      <4>2. Elements(Append(q, x)) = Elements(q) \cup {x}
        BY <4>1, ElementsOfAppend
      <4>3. \A f \in Elements(q), g \in Elements(r) : g.type = "open" => f.stream < g.stream
        BY <2>3, <3>2, LastOf
      <4>4. CASE r # <<>> /\ new.control = Tail(r) /\ x = Head(r) /\ x \in Elements(r)
        <5>1. /\ OpensRise(Tail(r))
              /\ \A f \in Elements(Tail(r)) : f.type = "open" => x.stream < f.stream
          BY <2>3, <3>2, <4>1, <4>4, RiseLeaves
        <5>2. OpensRise(Append(q, x))
          BY <2>3, <4>1, <4>3, <4>4, RiseJoins
        <5>3. Elements(Tail(r)) \subseteq Elements(r)
          BY <4>1, <4>4, ElementsOfHead
        <5>4. OpensLast(Append(q, x), Tail(r))
          BY <4>2, <4>3, <5>1, <5>3, LastOf
        <5> QED
          BY <4>1, <4>4, <5>1, <5>2, <5>4
      <4>5. CASE OfConnection(p, x) /\ new.control = r
        <5>1. x.type # "open" /\ x.stream = 0
          BY <4>5 DEF OfConnection
        <5>2. OpensRise(Append(q, x))
          BY <2>3, <4>1, <5>1, RiseJoins
        <5>3. \A g \in Elements(r) : g.type = "open" => 0 < g.stream
          <6>1. state["server"].highest \in Nat
            <7>1. state["server"] \in StateType
              BY <1>2, Peers DEF TypeOK
            <7>2. \A s \in StateType : s.highest \in Nat
              BY StateAssumption DEF StateType, Numbers
            <7> QED
              BY <7>1, <7>2
          <6>2. \A g \in Elements(r) : g \in FrameType /\ g \in Chain("server")
            BY <3>2, <4>1, ElementsIn, Peers DEF Chain, Due
          <6>3. \A g \in Elements(r) : g.type = "open" => g.stream > state["server"].highest
            BY <1>2, <6>2 DEF Opens, ToServer
          <6> QED
            BY <6>1, <6>2, <6>3 DEF FrameType, Numbers
        <5>4. OpensLast(Append(q, x), r)
          BY <4>2, <4>3, <5>1, <5>3, LastOf
        <5> QED
          BY <2>3, <3>2, <4>1, <4>5, <5>2, <5>4
      <4> QED
        BY <1>7, <4>4, <4>5
    <3> QED
      BY <3>1, <3>2 DEF Ends
  <2>5. reader'["server"] => reader["server"]
             /\ \A f \in Chain("server") : f.type = "open" => f \in Chain("server")'
    BY <1>1, <1>9, Peers
  <2> QED
    BY <1>2, <2>1, <2>2, <2>4, <2>5, OpensKept
<1> QED
  BY <1>5, <1>6, <1>10, <1>11, <1>12, <1>13, QuietKeeps

(* The writer sends the first of the control frames,                       *)
LEMMA WriteControlKeeps ==
    ASSUME SInv, NEW e \in Ends, WriteControl(e)
    PROVE  SInv'
<1> DEFINE st == state[e]
           x == Head(st.control)
           new == [st EXCEPT !.control = Tail(@)]
<1>1. TypeOK
  BY DEF SInv
<1>2. st \in StateType /\ st.control \in Seq(FrameType) /\ st.control # <<>>
  BY <1>1 DEF TypeOK, StateType, WriteControl
<1>3. x \in FrameType /\ Tail(st.control) \in Seq(FrameType)
  BY <1>2, ElementsOfHead
<1>4. /\ new \in StateType
      /\ new.streams = st.streams /\ new.highest = st.highest
      /\ new.entry = st.entry /\ new.closed = st.closed /\ new.control = Tail(st.control)
  BY <1>2, <1>3 DEF StateType
<1>5. /\ Set(e, new) /\ Carries(Peer(e)) /\ wire' = [wire EXCEPT ![Peer(e)] = Append(@, x)]
      /\ UNCHANGED <<held, asked, up, reader, wrote, setting>>
      /\ writer' \in [Ends -> BOOLEAN] /\ pinged' \in Nat
  BY <1>1 DEF WriteControl, Writes, TypeOK
<1> HIDE DEF new
<1> QED
  BY <1>2, <1>3, <1>4, <1>5, PutsKeeps

(* the Client its ping,                                                    *)
LEMMA PingKeeps ==
    ASSUME SInv, Ping
    PROVE  SInv'
<1> DEFINE e == "client"
           st == state[e]
           x == Frame("ping", 0)
<1>1. TypeOK /\ e \in Ends /\ Peer(e) = "server"
  BY Peers DEF SInv
<1>2. st \in StateType
  BY <1>1 DEF TypeOK
<1>3. x \in FrameType /\ OfConnection("server", x)
  BY FrameIn DEF OfConnection
<1>4. /\ Set(e, st) /\ Carries(Peer(e)) /\ wire' = [wire EXCEPT ![Peer(e)] = Append(@, x)]
      /\ UNCHANGED <<held, asked, up, reader, wrote, setting>>
      /\ writer' \in [Ends -> BOOLEAN] /\ pinged' \in Nat
  BY <1>1 DEF Ping, Writes, TypeOK
<1> HIDE DEF x
<1> QED
  BY <1>1, <1>2, <1>3, <1>4, PutsKeeps

(* an end its Close.                                                       *)
LEMMA WriteCloseKeeps ==
    ASSUME SInv, NEW e \in Ends, WriteClose(e)
    PROVE  SInv'
<1> DEFINE st == state[e]
           x == Frame("close", 0)
<1>1. TypeOK /\ Peer(e) \in Ends
  BY Peers DEF SInv
<1>2. st \in StateType /\ Set(e, st)
  BY <1>1 DEF TypeOK, WriteClose, Set
<1>3. x \in FrameType /\ OfConnection(Peer(e), x)
  BY FrameIn DEF OfConnection
<1>4. /\ UNCHANGED <<state, held, asked, up, reader, wrote, setting, pinged>>
      /\ writer' \in [Ends -> BOOLEAN] /\ pinged' \in Nat
  BY <1>1 DEF WriteClose, TypeOK
<1>5. CASE Carries(Peer(e))
  BY <1>5, <1>1, <1>2, <1>3, <1>4, PutsKeeps DEF WriteClose
<1>6. CASE ~Carries(Peer(e))
  <2>1. wire' = wire
    BY <1>6 DEF WriteClose
  <2>2. TypeOK' /\ NoProtocolError'
    BY <1>4, <2>1 DEF SInv, TypeOK, NoProtocolError
  <2>3. Local' /\ Opens' /\ Order'
    BY <1>4, <2>1 DEF SInv, Local, EndOk, EntryOk, Entry, Has, Known, On, Opens, ToClient, ToServer,
       Chain, Due, Order, Ordered, Arriving, Line
  <2>4. Agreement'
    <3> SUFFICES ASSUME NEW d \in Ends, NEW t \in Numbers PROVE Agreed(d, t)'
      BY DEF Agreement
    <3>1. Beside(d, t)
      BY <1>4, <2>1 DEF Beside, Entry, Has, Known, Arriving, Line, On, Failing, Limits, News, Chain,
         Due, Running
    <3> QED
      BY <3>1, BesideAgrees DEF SInv, Agreement
  <2> QED
    BY <2>2, <2>3, <2>4 DEF SInv
<1> QED
  BY <1>5, <1>6

-----------------------------------------------------------------------------
(* The writer sends a Stream's next item.                                  *)

(* An entry nothing was done with is sane.                                 *)
LEMMA AsNewIsSane ==
    ASSUME NEW b, NEW s, AsNew(b)
    PROVE  Sane(b, s)
BY ElementsOfNone, StateAssumption DEF AsNew, Unread, Sane

(* The writer sends the first of a Stream's own queue, or a part of it.    *)
LEMMA WriteItemKeeps ==
    ASSUME SInv, NEW e \in Ends, NEW s \in Numbers, NEW mid \in StateType, NEW a, a = Entry(e, s),
           s \in state[e].streams, a.outgoing # <<>>, state[e].control = <<>>,
           SameStreams(state[e], mid), OtherEntries(state[e], mid, s),
           mid.control = state[e].control,
           SameReceiving(a, mid.entry[s]),
           mid.entry[s].limit = a.limit, mid.entry[s].sent = a.sent,
           mid.entry[s].outgoing = Tail(a.outgoing),
           mid.entry[s].finish_queued = a.finish_queued, mid.entry[s].failed = a.failed,
           Set(e, RemovedIfFinished(mid, s)), Carries(Peer(e)),
           wire' = [wire EXCEPT ![Peer(e)] = Append(@, Head(a.outgoing))],
           UNCHANGED <<held, asked, up, reader, writer, wrote, setting, pinged>>
    PROVE  SInv'
<1> DEFINE p == Peer(e)
           st == state[e]
           h == Head(a.outgoing)
           new == RemovedIfFinished(mid, s)
           b == new.entry[s]
<1>1. p \in Ends /\ Peer(p) = e /\ p # e /\ \A d \in Ends : d = e \/ d = p
  BY Peers
<1>2. TypeOK /\ Local /\ Opens /\ Order /\ Agreement /\ NoProtocolError
  BY DEF SInv
<1>3. st \in StateType /\ Set(e, new)
  BY <1>2 DEF TypeOK
<1>4. a = st.entry[s]
  BY DEF Entry
<1>5. /\ new \in StateType
      /\ new.highest = mid.highest /\ new.closed = mid.closed /\ new.control = mid.control
      /\ OtherEntries(mid, new, s)
      /\ Leaves(mid, s) => new.streams = mid.streams \ {s} /\ AsNew(b)
      /\ ~Leaves(mid, s) => new = mid
  BY RemovedIs
<1> HIDE DEF new
<1>6. /\ new \in StateType
      /\ new.highest = st.highest /\ new.closed = st.closed /\ new.control = st.control
      /\ OtherEntries(st, new, s)
      /\ \/ /\ new.streams = st.streams \ {s} /\ AsNew(b)
            /\ ~a.handle_alive /\ Tail(a.outgoing) = <<>>
         \/ /\ new.streams = st.streams
            /\ SameReceiving(a, b)
            /\ b.limit = a.limit /\ b.sent = a.sent /\ b.outgoing = Tail(a.outgoing)
            /\ b.finish_queued = a.finish_queued /\ b.failed = a.failed
            /\ a.handle_alive \/ Tail(a.outgoing) # <<>>
  <2>2. Leaves(mid, s) <=> ~a.handle_alive /\ Tail(a.outgoing) = <<>>
    BY DEF Leaves, SameStreams, SameReceiving
  <2>3. OtherEntries(st, new, s)
    BY <1>5 DEF OtherEntries, Alike, SameSending, SameReceiving
  <2>4. CASE Leaves(mid, s)
    BY <1>5, <2>2, <2>3, <2>4 DEF SameStreams
  <2>5. CASE ~Leaves(mid, s)
    BY <1>5, <2>2, <2>3, <2>5 DEF SameStreams
  <2> QED
    BY <2>4, <2>5
<1>7. state'[e] = new /\ state'[p] = state[p]
  BY <1>2, <1>3, SetIs
<1>8. a.outgoing \in Seq(ItemType) /\ a.outgoing # <<>> /\ a \in EntryType
  BY <1>2, <1>4, EntryIn
<1>9. /\ Elements(a.outgoing) = {h} \cup Elements(Tail(a.outgoing))
      /\ Tail(a.outgoing) \in Seq(ItemType) /\ h \in Elements(a.outgoing)
  BY <1>8, ElementsOfHead
<1>10. Line(p, s) = {h} \cup Elements(Tail(a.outgoing)) /\ h \in Line(p, s)
  BY <1>1, <1>9 DEF Line
<1>11. h \in FrameType /\ h.type \in Items /\ h.stream = s /\ (h.type = "data" => h.size > 0)
  BY <1>1, <1>2, <1>4, <1>10, LineIn
<1> HIDE DEF h
<1>12. /\ UNCHANGED <<held, asked, up, reader, writer, wrote, setting, pinged>>
       /\ Carries(p) /\ wire' = [wire EXCEPT ![p] = Append(@, h)]
  BY DEF h
<1>13. /\ wire' \in [Ends -> Seq(FrameType)] /\ \A d \in Ends : Len(wire'[d]) <= WireCap
       /\ wire'[p] = Append(wire[p], h) /\ wire'[e] = wire[e]
       /\ On(p)' = On(p) \cup {h} /\ On(e)' = On(e)
  BY <1>2, <1>11, <1>12, Puts
<1>14. EntryOk(e, s) /\ Has(e, s) /\ Known(e, s) /\ ~a.failed
  <2>1. EntryOk(e, s) /\ Has(e, s)
    BY <1>2, <1>4 DEF Local, Has
  <2>2. ~a.failed
    BY <1>4, <2>1 DEF EntryOk, Sane
  <2> QED
    BY <1>2, <2>1, <2>2, HasKnown
<1>15. Agreed(e, s) /\ Agreed(p, s) /\ Ordered(p, s)
  BY <1>1, <1>2, <1>4 DEF Agreement, Order
<1>16. ~Entry(p, s).peer_finished
  BY <1>10, <1>11, <1>15 DEF Datas, FinDue, Items, Agreed, Finishes
<1>17. TypeOK'
  <2>1. \A t \in Numbers : t \in new.streams /\ new.entry[t].handle_alive
                       <=> t \in st.streams /\ st.entry[t].handle_alive
    <3>1. \A t \in Numbers \ {s} : new.entry[t].handle_alive = st.entry[t].handle_alive
      BY <1>6 DEF OtherEntries, Alike, SameReceiving
    <3>2. s \in new.streams /\ new.entry[s].handle_alive
                       <=> s \in st.streams /\ st.entry[s].handle_alive
      BY <1>4, <1>6 DEF SameReceiving, Entry
    <3>3. new.streams \ {s} = st.streams \ {s}
      BY <1>6
    <3> QED
      BY <3>1, <3>2, <3>3
  <2>2. up' \in BOOLEAN /\ reader' \in [Ends -> BOOLEAN] /\ writer' \in [Ends -> BOOLEAN]
        /\ pinged' \in Nat
    BY <1>2, <1>12 DEF TypeOK
  <2> QED
    BY <1>2, <1>3, <1>6, <1>12, <1>13, <2>1, <2>2, TypeGoesOn
<1>18. NoProtocolError'
  BY <1>1, <1>2, <1>6, <1>7 DEF NoProtocolError
<1>19. \A d \in Ends : Due(d)' = Due(d)
  BY <1>1, <1>6, <1>7 DEF Due
<1>20. /\ \A d \in Ends, t \in Numbers : News(d, t)' = News(d, t)
       /\ \A t \in Numbers : Arriving(e, t)' = Arriving(e, t)
       /\ \A t \in Numbers \ {s} : Arriving(p, t)' = Arriving(p, t)
       /\ Arriving(p, s)' = Arriving(p, s) \cup {h}
  BY <1>11, <1>13, <1>19, <1>1 DEF Items, GiveUp, News, Chain, Arriving
<1>21. /\ Entry(e, s)' = b /\ Entry(p, s)' = Entry(p, s)
       /\ (Has(p, s)' <=> Has(p, s)) /\ (Has(e, s)' <=> s \in new.streams)
       /\ \A c \in Ends : \A t : Known(c, t)' <=> Known(c, t)
  BY <1>1, <1>6, <1>7 DEF Entry, Has, Known
<1>22. Elements(b.outgoing) = Elements(Tail(a.outgoing))
       /\ (Tail(a.outgoing) = <<>> => b.outgoing = <<>>)
       /\ (b.outgoing = Tail(a.outgoing))
  BY <1>6 DEF AsNew
<1>23. /\ Line(p, s) = {h} \cup Line(p, s)' /\ Line(e, s)' = Line(e, s)
  BY <1>1, <1>10, <1>21, <1>22 DEF Line
<1>24. /\ Datas(p, s)' = Datas(p, s)
       /\ FinOn(p, s) \/ h.type = "finish" => FinOn(p, s)'
       /\ FinOn(p, s)' \/ FinDue(p, s)' <=> FinOn(p, s) \/ FinDue(p, s)
       /\ FinDue(p, s) => FinDue(p, s)' \/ h.type = "finish"
  BY <1>20, <1>23 DEF Datas, FinOn, FinDue
<1>25. Running' <=> Running
  BY <1>1, <1>6, <1>7, Peers DEF Running
<1>26. Touches(e, s)
  BY <1>6, <1>7, <1>12, <1>21, <1>1, <1>20, <1>25 DEF Untouched, OtherEntries, Entry, Has, Touches
<1>27. \A d \in Ends : EndOk(d)'
  BY <1>1, <1>2, <1>6, <1>7, <1>12, <1>13, <1>11 DEF Local, EndOk, Known
<1>28. Order'
  <2>1. ASSUME NEW d \in Ends, NEW t \in Numbers, ~(d = p /\ t = s) PROVE Ordered(d, t)'
    <3>1. Entry(Peer(d), t)'.outgoing = Entry(Peer(d), t).outgoing
      BY <1>1, <1>7, <1>26, <2>1 DEF Touches, Untouched, Alike, SameSending, Entry
    <3>2. Arriving(d, t)' = Arriving(d, t) /\ Line(d, t)' = Line(d, t)
      BY <1>1, <1>20, <2>1, <3>1 DEF Line
    <3>3. Ordered(d, t)
      BY <1>2 DEF Order
    <3>4. InOrder(wire[d], t)'
      BY <1>13, <3>3, <1>1, <1>2, <1>11, <2>1, InOrderJoins DEF Ordered, TypeOK
    <3> QED
      BY <3>1, <3>2, <3>3, <3>4 DEF Ordered
  <2>2. Ordered(p, s)'
    <3>1. InOrder(Append(wire[p], h), s)
      BY <1>1, <1>2, <1>15, <1>10, InOrderJoins DEF TypeOK, Ordered, Arriving, On
    <3>2. /\ InOrder(Tail(a.outgoing), s)
          /\ \A f \in Elements(Tail(a.outgoing)) : Before(h, f)
      <4>1. InOrder(a.outgoing, s)
        BY <1>1, <1>15 DEF Ordered
      <4>2. /\ InOrder(Tail(a.outgoing), s)
            /\ h.stream = s /\ h.type \in Items =>
                 \A f \in Elements(Tail(a.outgoing)) :
                    f.stream = s /\ f.type \in Items => Before(h, f)
        BY <1>8, <4>1, InOrderLeaves DEF h
      <4>3. \A f \in Elements(Tail(a.outgoing)) : f.stream = s /\ f.type \in Items
        BY <1>1, <1>2, <1>4, <1>10, LineIn
      <4> QED
        BY <1>11, <4>2, <4>3
    <3>3. Line(p, s)' = Elements(Tail(a.outgoing))
      BY <1>1, <1>21, <1>22 DEF Line
    <3> QED
      BY <1>1, <1>13, <1>15, <1>20, <1>21, <1>22, <1>23, <3>1, <3>2, <3>3 DEF Ordered
  <2> QED
    BY <2>1, <2>2 DEF Order
<1>29. Opens'
  <2>1. \A d \in Ends : state'[d].highest = state[d].highest /\ state'[d].control = state[d].control
    BY <1>1, <1>6, <1>7
  <2>2. Chain(e)' = Chain(e) /\ Chain(p)' = Chain(p) \cup {h}
    BY <1>1, <1>13, <1>19 DEF Chain
  <2>3. h.type \notin {"open", "ping", "pong", "opened", "open_failed"} /\ h.stream <= st.highest
    BY <1>11, <1>14 DEF Items, Known
  <2>4. ToClient'
    BY <1>1, <1>2, <2>1, <2>2, <2>3, Peers DEF Opens, ToClient
  <2>5. OpensRise(wire["server"])' /\ OpensRise(state["client"].control)'
        /\ OpensLast(wire["server"], state["client"].control)'
    <3>1. OpensRise(wire["server"]) /\ OpensRise(state["client"].control)
          /\ OpensLast(wire["server"], state["client"].control)
      BY <1>2 DEF Opens, ToServer
    <3>2. CASE e = "server"
      BY <1>7, <1>13, <3>2, Peers, <3>1
    <3>3. CASE e = "client"
      <4>1. /\ wire'["server"] = Append(wire["server"], h) /\ state'["client"].control = <<>>
            /\ wire["server"] \in Seq(FrameType)
        BY <1>2, <1>6, <1>7, <1>13, <3>3, Peers DEF TypeOK
      <4>2. OpensRise(Append(wire["server"], h))
        BY <2>3, <3>1, <4>1, RiseJoins
      <4>3. OpensRise(<<>>) /\ OpensLast(Append(wire["server"], h), <<>>)
        BY ElementsOfNone, LastOf DEF OpensRise
      <4> QED
        BY <4>1, <4>2, <4>3
    <3> QED
      BY <3>2, <3>3 DEF Ends
  <2>6. ToServer'
    <3>1. \A c \in Ends : \A t : Known(c, t)' <=> Known(c, t)
      BY <1>21
    <3>2. \A f \in Chain("server")' :
            /\ f.type \notin {"pong", "opened", "open_failed"}
            /\ f.stream <= state'["client"].highest
            /\ f.type = "open" => f.stream > state'["server"].highest
      BY <1>1, <1>2, <2>1, <2>2, <2>3, Peers DEF Opens, ToServer
    <3>3. reader'["server"] =>
            \A t \in Numbers : Known("client", t)' /\ ~Known("server", t)' =>
              \E f \in Chain("server")' : f.type = "open" /\ f.stream = t
      BY <1>1, <1>2, <1>12, <2>2, <3>1, Peers DEF Opens, ToServer
    <3> QED
      BY <2>5, <3>2, <3>3 DEF ToServer
  <2> QED
    BY <1>2, <2>1, <2>4, <2>6, Peers DEF Opens
<1>30. a.handle_alive \/ (a.finish_queued /\ a.peer_finished)
  BY <1>14 DEF EntryOk, Sane, Complete
<1>31. /\ Gone(p, s)' <=> Gone(p, s)
       /\ Live(p, s)' <=> Live(p, s)
       /\ Live(e, s) /\ ~Gone(e, s)
  BY <1>1, <1>14, <1>21 DEF Gone, Live
<1>32. /\ \A c \in Ends : Failing(c, s)' <=> Failing(c, s)
       /\ \A c \in Ends : Limits(c, s)' = Limits(c, s)
  BY <1>4, <1>20 DEF Failing, Limits
<1>33. Running /\ Live(p, s) /\ ~a.handle_alive /\ Tail(a.outgoing) = <<>> =>
         Entry(p, s).finish_queued /\ FinOn(p, s)'
  <2> SUFFICES ASSUME Running, Live(p, s), ~a.handle_alive, Tail(a.outgoing) = <<>>
               PROVE  Entry(p, s).finish_queued /\ FinOn(p, s)'
    OBVIOUS
  <2>1. a.finish_queued /\ a.peer_finished
    BY <1>30
  <2>2. Known(p, s) /\ (Has(p, s) => Entry(p, s).finish_queued)
    BY <1>1, <1>15, <2>1 DEF Agreed, Finishes
  <2>3. ~Gone(p, s) /\ Has(p, s)
    BY <2>2 DEF Live, Gone
  <2>4. FinOn(p, s) \/ FinDue(p, s)
    BY <1>1, <1>14, <1>15, <1>16, <2>1, <2>3 DEF Agreed, Finishes
  <2>5. ~FinDue(p, s)'
    BY <1>1, <1>21, <1>22, ElementsOfNone DEF FinDue, Line
  <2> QED
    BY <1>24, <2>2, <2>3, <2>4, <2>5
<1>34. Agreed(p, s)'
  <2>1. Entry(p, s).announced >= Window
    BY <1>1, <1>2, <1>4 DEF Local, EntryOk, Sane
  <2>2. b.limit = a.limit \/ b.limit = Window
    BY <1>6 DEF AsNew
  <2>3. Credits(p, s)'
    BY <1>1, <1>12, <1>15, <1>21, <1>24, <1>31, <1>32, <2>1, <2>2 DEF Agreed, Credits
  <2>4. Everything(p, s)'
    BY <1>1, <1>31, <1>12, <1>15, <1>21, <1>24 DEF Lasts, Agreed, Everything
  <2>5. Finishes(p, s)'
    <3>1. Has(e, s)' => b.finish_queued = a.finish_queued
      BY <1>6, <1>21
    <3>2. FinOn(p, s)' \/ FinDue(p, s)' \/ Entry(p, s)'.peer_finished =>
            Known(e, s)' /\ (Has(e, s)' => Entry(e, s)'.finish_queued)
      BY <1>1, <1>14, <1>15, <1>16, <1>21, <1>24, <3>1 DEF Agreed, Finishes
    <3>3. ~Entry(p, s)'.peer_finished
      BY <1>16, <1>21
    <3>4. Running' /\ ~Gone(p, s)' /\ Has(e, s)' /\ Entry(e, s)'.finish_queued => FinOn(p, s)' \/ FinDue(p, s)'
      BY <1>1, <1>14, <1>15, <1>16, <1>21, <1>24, <1>25, <1>31, <3>1 DEF Agreed, Finishes
    <3> QED
      BY <1>1, <3>2, <3>3, <3>4 DEF Finishes
  <2>6. Told(p, s)'
    <3>1. ~Failing(p, s)
      BY <1>1, <1>15, <1>31 DEF Agreed, Told
    <3>2. ASSUME Running', Live(p, s)', ~Live(e, s)'
          PROVE  Entry(p, s)'.finish_queued /\ FinOn(p, s)'
      BY <1>6, <1>14, <1>21, <3>2, <1>4, <1>25, <1>31, <1>33 DEF Gone, Live
    <3> QED
      BY <1>1, <1>32, <3>1, <3>2 DEF Told
  <2>7. Given(p, s)'
    BY <1>6, <1>14, <1>21, <1>1, <1>15, <1>25, <1>31, <1>32 DEF Agreed, Given
  <2> QED
    BY <2>3, <2>4, <2>5, <2>6, <2>7 DEF Agreed
<1>35. Agreed(e, s)'
  <2>1. CASE s \in new.streams
    <3>1. SameReceiving(a, b) /\ b.failed = a.failed /\ b.finish_queued = a.finish_queued
          /\ (\A c \in Ends : Has(c, s)' <=> Has(c, s))
      BY <1>1, <1>6, <1>14, <1>21, <2>1
    <3>2. Beside(e, s)
      BY <1>1, <1>4, <1>12, <1>20, <1>21, <1>23, <1>25, <1>32, <3>1 DEF Beside, SameReceiving
    <3> QED
      BY <1>4, <1>15, <3>2, BesideAgrees
  <2>2. CASE s \notin new.streams
    <3>1. AsNew(Entry(e, s)') /\ ~Has(e, s)' /\ Known(e, s)' /\ ~Live(e, s)'
      BY <1>6, <1>14, <1>21, <2>2 DEF Live, Gone
    <3>2. Arriving(e, s)' = Arriving(e, s) /\ Limits(p, s)' = Limits(p, s)
          /\ (Failing(e, s)' => Failing(e, s))
      BY <1>1, <1>4, <1>20, <1>32
    <3>3. reader'[e] => reader[e]
      BY <1>12
    <3>4. wrote'[p][s] = wrote[p][s]
      BY <1>12
    <3> QED
      BY <1>1, <1>2, <1>4, <1>15, <1>21, <1>25, <3>1, <3>2, <3>3, <3>4, GaveUp
  <2> QED
    BY <2>1, <2>2
<1>36. EntryOk(e, s)'
  <2>1. CASE s \in new.streams
    <3>1. SameReceiving(a, b) /\ b.failed = a.failed /\ b.finish_queued = a.finish_queued
          /\ b.limit = a.limit /\ b.sent = a.sent
      BY <1>6, <2>1
    <3>2. \A f \in Elements(b.outgoing) : f \in Ours(s) /\ f.type \in Items
      BY <1>4, <1>9, <1>14, <1>22 DEF EntryOk, Sane
    <3>3. Sane(b, s)
      BY <1>14, <3>1, <3>2 DEF EntryOk, Sane, Unread, SameReceiving, Complete
    <3> QED
      BY <1>4, <1>12, <1>14, <1>21, <2>1, <3>1, <3>3 DEF EntryOk
  <2>2. CASE s \notin new.streams
    BY <1>6, <2>2, <1>12, <1>14, <1>21, AsNewIsSane DEF EntryOk
  <2> QED
    BY <2>1, <2>2
<1> QED
  BY <1>4, <1>17, <1>18, <1>26, <1>27, <1>28, <1>29, <1>34, <1>35, <1>36, StepKeeps

(* The data the writer sends is of the Stream whose turn it is.            *)
LEMMA WriteDataKeeps ==
    ASSUME SInv, NEW e \in Ends, WriteData(e)
    PROVE  SInv'
<1> DEFINE st == state[e]
           s == st.ready[Turn(st)]
           a == Entry(e, s)
<1>1. st \in StateType /\ Waiting(st) # {} /\ st.control = <<>>
  BY DEF SInv, TypeOK, WriteData
<1>2. /\ Set(e, TookData(st)) /\ Carries(Peer(e))
      /\ wire' = [wire EXCEPT ![Peer(e)] = Append(@, NextData(st))]
      /\ UNCHANGED <<held, asked, up, reader, writer, wrote, setting, pinged>>
  BY DEF WriteData, Writes
<1>3. /\ s \in Numbers /\ s \in st.streams /\ a.outgoing # <<>> /\ NextData(st) = Head(a.outgoing)
      /\ \E mid \in StateType :
           /\ TookData(st) = RemovedIfFinished(mid, s)
           /\ SameStreams(st, mid) /\ OtherEntries(st, mid, s) /\ mid.control = st.control
           /\ SameReceiving(a, mid.entry[s])
           /\ mid.entry[s].limit = a.limit /\ mid.entry[s].sent = a.sent
           /\ mid.entry[s].outgoing = Tail(a.outgoing)
           /\ mid.entry[s].finish_queued = a.finish_queued
           /\ mid.entry[s].failed = a.failed
  BY <1>1, TookIs DEF Entry
<1> HIDE DEF s
<1>4. PICK mid \in StateType :
        /\ TookData(st) = RemovedIfFinished(mid, s)
        /\ SameStreams(st, mid) /\ OtherEntries(st, mid, s) /\ mid.control = st.control
        /\ SameReceiving(a, mid.entry[s])
        /\ mid.entry[s].limit = a.limit /\ mid.entry[s].sent = a.sent
        /\ mid.entry[s].outgoing = Tail(a.outgoing)
        /\ mid.entry[s].finish_queued = a.finish_queued
        /\ mid.entry[s].failed = a.failed
  BY <1>3
<1>5. Set(e, RemovedIfFinished(mid, s))
      /\ wire' = [wire EXCEPT ![Peer(e)] = Append(@, Head(a.outgoing))]
  BY <1>2, <1>3, <1>4
<1> QED
  BY <1>1, <1>2, <1>3, <1>4, <1>5, WriteItemKeeps

-----------------------------------------------------------------------------
(* The reader takes a frame.                                               *)

(* Neither end ever sends what the other must take for a violation.        *)
LEMMA NoViolation ==
    ASSUME SInv, NEW e \in Ends, Arrives(e)
    PROVE  ~Violates(e, Head(wire[e]))
<1> DEFINE f == Head(wire[e])
<1>1. TypeOK /\ Local /\ Opens /\ Agreement
  BY DEF SInv
<1>2. /\ wire[e] \in Seq(FrameType) /\ wire[e] # <<>> /\ reader[e] /\ state[e] \in StateType
      /\ state["server"].highest \in Nat /\ state["client"].highest \in Nat
  <2>1. /\ wire[e] \in Seq(FrameType) /\ wire[e] # <<>> /\ reader[e] /\ state[e] \in StateType
        /\ state["server"] \in StateType /\ state["client"] \in StateType
    BY <1>1, Peers DEF TypeOK, Arrives
  <2>2. \A st \in StateType : st.highest \in Nat
    BY StateAssumption DEF StateType, Numbers
  <2> QED
    BY <2>1, <2>2
<1>3. f \in FrameType /\ f \in Chain(e) /\ f \in On(e)
  BY <1>2, ElementsOfHead DEF Chain, On
<1> HIDE DEF f
<1>4. /\ f.stream \in Numbers \cup {0}
      /\ f.type \in OfStream \cup {"open", "ping", "pong", "close"}
  BY <1>3 DEF FrameType
<1>5. e = "client" => f.type \notin {"open", "ping"} /\ f.stream <= state["server"].highest
  BY <1>1, <1>3 DEF Opens, ToClient
<1>6. e = "server" => /\ f.type \notin {"pong", "opened", "open_failed"}
                      /\ f.stream <= state["client"].highest
                      /\ f.type = "open" => f.stream > state["server"].highest
  BY <1>1, <1>3 DEF Opens, ToServer
<1>7. ASSUME f.type # "open", NeverOpened(state[e], f) PROVE FALSE
  <2>1. CASE e = "client"
    BY <1>1, <1>2, <1>4, <1>5, <1>7, <2>1 DEF NeverOpened, Opens, Numbers
  <2>2. CASE e = "server"
    <3>1. f.stream \in Numbers /\ Known("client", f.stream) /\ ~Known("server", f.stream)
      BY <1>2, <1>4, <1>6, <1>7, <2>2 DEF NeverOpened, Numbers, Known
    <3>2. PICK g \in Chain("server") : g.type = "open" /\ g.stream = f.stream
      BY <1>1, <1>2, <2>2, <3>1 DEF Opens, ToServer
    <3>3. /\ OpensRise(wire["server"]) /\ OpensLast(wire["server"], state["client"].control)
      BY <1>1 DEF Opens, ToServer
    <3>4. /\ Elements(wire["server"]) = {f} \cup Elements(Tail(wire["server"]))
          /\ f \in Elements(wire["server"])
      BY <1>2, <2>2, ElementsOfHead DEF f
    <3>5. \A x \in Elements(Tail(wire["server"])) : x.type = "open" => f.stream < x.stream
      BY <1>2, <2>2, <3>3, RiseLeaves DEF f
    <3>6. \A x \in Due("server") : x.type = "open" => f.stream < x.stream
      BY <3>3, <3>4, LastOf, Peers DEF Due
    <3>7. g \in Elements(Tail(wire["server"])) \/ g \in Due("server")
      BY <1>7, <3>2, <3>4 DEF Chain, On
    <3>8. f.stream < g.stream
      BY <3>2, <3>5, <3>6, <3>7
    <3> QED
      BY <3>1, <3>2, <3>8 DEF Numbers
  <2> QED
    BY <2>1, <2>2 DEF Ends
<1>8. ASSUME f.type = "data", BeyondCredit(state[e], f) PROVE FALSE
  <2> DEFINE s == f.stream
  <2>1. s \in Numbers /\ Has(e, s) /\ ~Entry(e, s).failed
        /\ Entry(e, s).received + f.size > Entry(e, s).announced
    BY <1>2, <1>8 DEF BeyondCredit, StateType, Has, Entry
  <2>2. Live(e, s)
    BY <1>1, <2>1, HasKnown DEF Live
  <2>3. f \in Datas(e, s)
    BY <1>3, <1>8 DEF Datas, Arriving, Items
  <2>4. Entry(e, s).received <= f.at /\ Until(f) <= Entry(e, s).announced
    BY <1>1, <1>2, <2>1, <2>2, <2>3 DEF Agreement, Agreed, Credits
  <2>5. f.at \in Nat /\ f.size \in Nat /\ Entry(e, s).received \in Nat
        /\ Entry(e, s).announced \in Nat
    BY <1>1, <2>1, <2>3, DatasIn, EntryIn
  <2> QED
    BY <2>1, <2>4, <2>5 DEF Until
<1>9. ~Violates(e, f)
  BY <1>2, <1>4, <1>5, <1>6, Peers, <1>7, <1>8 DEF Violates, Ends, Numbers, OfStream
<1> QED
  BY <1>9 DEF f

(* A Close, or what cannot be read, ends the connection.                   *)
LEMMA ReceiveLastKeeps ==
    ASSUME SInv, NEW e \in Ends, ReceiveLast(e)
    PROVE  SInv'
BY NoViolation, ClosingKeeps DEF ReceiveLast

(* What is left on its way of Stream s when its frame f is taken.          *)
LEMMA FrameTaken ==
    ASSUME TypeOK, Local, Order, NEW e \in Ends, wire[e] # <<>>, Taking(e),
           NEW f, f = Head(wire[e]), state'[Peer(e)].control = state[Peer(e)].control
    PROVE  LET s == f.stream  p == Peer(e) IN
           /\ \A t : Arriving(p, t)' = Arriving(p, t)
           /\ \A t : Arriving(e, t)' \subseteq Arriving(e, t) /\ News(e, t)' \subseteq News(e, t)
           /\ \A t : t # s => Arriving(e, t)' = Arriving(e, t) /\ News(e, t)' = News(e, t)
           /\ Arriving(e, s) \subseteq Arriving(e, s)' \cup {f}
           /\ News(e, s) \subseteq News(e, s)' \cup {f}
           /\ f.type \notin Items => Arriving(e, s)' = Arriving(e, s)
           /\ f.type \in Items => f \in Arriving(e, s)
           /\ f.type \notin GiveUp \cup {"credit"} => News(e, s)' = News(e, s)
           /\ s \in Numbers /\ f.type \in Items =>
                \A g \in Arriving(e, s)' \cup Line(e, s) : Before(f, g)
<1> DEFINE s == f.stream
           p == Peer(e)
<1>1. p \in Ends /\ wire[e] \in Seq(FrameType)
  BY Peers DEF TypeOK
<1>2. /\ f \in FrameType /\ f \in On(e) /\ On(e) = {f} \cup On(e)' /\ On(p)' = On(p)
      /\ wire'[e] = Tail(wire[e])
  BY Takes
<1>3. Due(e)' = Due(e)
  BY DEF Due
<1>4. Chain(e) = {f} \cup Chain(e)'
  BY <1>2, <1>3 DEF Chain
<1>5. ASSUME s \in Numbers, f.type \in Items, NEW g \in Arriving(e, s)' \cup Line(e, s)
      PROVE  Before(f, g)
  BY <1>5, <1>2, <1>1, InOrderLeaves DEF Order, Arriving, Ordered, On
<1>6. /\ \A t : Arriving(p, t)' = Arriving(p, t)
      /\ \A t : Arriving(e, t)' \subseteq Arriving(e, t)
      /\ \A t : t # s => Arriving(e, t)' = Arriving(e, t)
      /\ Arriving(e, s) \subseteq Arriving(e, s)' \cup {f}
      /\ f.type \notin Items => Arriving(e, s)' = Arriving(e, s)
      /\ f.type \in Items => f \in Arriving(e, s)
  BY <1>2 DEF Arriving
<1>7. /\ \A t : News(e, t)' \subseteq News(e, t)
      /\ \A t : t # s => News(e, t)' = News(e, t)
      /\ News(e, s) \subseteq News(e, s)' \cup {f}
      /\ f.type \notin GiveUp \cup {"credit"} => News(e, s)' = News(e, s)
  BY <1>4 DEF News
<1> QED
  BY <1>5, <1>6, <1>7

(* The parts of the invariant that do not depend on what the frame says.   *)
LEMMA ReceiveStep ==
    ASSUME SInv, TypeOK', NEW e \in Ends, NEW s \in Numbers, NEW f, f = Head(wire[e]),
           wire[e] # <<>>, Taking(e), f.stream = s, f.type # "open",
           NEW new \in StateType, Set(e, new),
           new.highest = state[e].highest, new.closed = state[e].closed,
           new.control = state[e].control, OtherEntries(state[e], new, s),
           \A t \in Numbers \ {s} : t \in new.streams <=> t \in state[e].streams,
           s \in new.streams => s \in state[e].streams,
           new.entry[s].outgoing = Entry(e, s).outgoing \/ new.entry[s].outgoing = <<>>,
           UNCHANGED <<reader, wrote>>,
           EntryOk(e, s)', Agreed(e, s)', Agreed(Peer(e), s)'
    PROVE  SInv'
<1> DEFINE p == Peer(e)
           st == state[e]
<1>1. p \in Ends /\ Peer(p) = e /\ p # e /\ \A d \in Ends : d = e \/ d = p
  BY Peers
<1>2. TypeOK /\ Local /\ Opens /\ Order /\ NoProtocolError
  BY DEF SInv
<1>3. /\ st \in StateType /\ state'[e] = new /\ state'[p] = state[p]
  BY <1>2, SetIs
<1>4. /\ f \in FrameType /\ On(e) = {f} \cup On(e)' /\ On(p)' = On(p)
      /\ wire'[e] = Tail(wire[e]) /\ wire'[p] = wire[p] /\ wire[e] \in Seq(FrameType)
  BY <1>2, Takes DEF TypeOK
<1>5. /\ \A t : Arriving(p, t)' = Arriving(p, t)
      /\ \A t : Arriving(e, t)' \subseteq Arriving(e, t)
      /\ \A t : t # s => Arriving(e, t)' = Arriving(e, t) /\ News(e, t)' = News(e, t)
  BY <1>2, <1>3, FrameTaken
<1>6. \A d \in Ends : Due(d)' = Due(d)
  BY <1>1, <1>3 DEF Due
<1>7. \A t : News(p, t)' = News(p, t)
  BY <1>1, <1>4, <1>6 DEF News, Chain
<1>8. Touches(e, s)
  BY <1>3, <1>1, <1>5, <1>7 DEF Untouched, OtherEntries, Entry, Has, Known, Running, Touches
<1>9. \A d \in Ends : EndOk(d)'
  BY <1>1, <1>2, <1>3, <1>4 DEF Local, StateType, EndOk, Known
<1>10. Opens'
  BY <1>1, <1>3, <1>4, <1>6, <1>2, OpensAfterTaking, Peers, OpensKept DEF Chain, Opens, ToServer,
     Ends
<1>11. Order'
  BY <1>2, <1>1, <1>3, ElementsOfNone, InOrderNone, <1>5, <1>4, InOrderLeaves DEF Order, Entry,
     OtherEntries, Alike, SameSending, Line, Ordered
<1>12. NoProtocolError'
  BY <1>1, <1>2, <1>3 DEF NoProtocolError
<1> QED
  BY <1>8, <1>9, <1>10, <1>11, <1>12, StepKeeps

(* End e reads frame f of Stream s.                                        *)
Gets(e, s, f) ==
    /\ f = Head(wire[e]) /\ f.stream = s /\ f.type \in OfStream
    /\ Arrives(e) /\ ~Violates(e, f) /\ Taking(e)
    /\ UNCHANGED <<held, asked, up, reader, writer, wrote, pinged, setting>>

(* What an end makes of a frame concerns that frame's Stream.              *)
LEMMA FrameRead ==
    ASSUME SInv, NEW e \in Ends, NEW s \in Numbers, NEW f, Gets(e, s, f), NEW p, p = Peer(e),
           NEW new \in StateType, Set(e, new),
           new.highest = state[e].highest, new.closed = state[e].closed,
           new.control = state[e].control
    PROVE  /\ p \in Ends /\ Peer(p) = e /\ p # e /\ \A d \in Ends : d = e \/ d = p
           /\ state[e] \in StateType /\ state'[e] = new /\ state'[p] = state[p]
           /\ wire[e] # <<>> /\ Taking(e) /\ f = Head(wire[e]) /\ f.stream = s /\ reader[e]
           /\ f \in FrameType /\ f.type # "open"
           /\ UNCHANGED <<reader, wrote>>
           /\ Known(e, s) /\ Known(p, s) /\ Known(e, s)' /\ Known(p, s)' /\ (Running' <=> Running)
           /\ Entry(p, s)' = Entry(p, s) /\ (Has(p, s)' <=> Has(p, s)) /\ Line(e, s)' = Line(e, s)
           /\ Arriving(p, s)' = Arriving(p, s) /\ News(p, s)' = News(p, s)
           /\ Arriving(e, s)' \subseteq Arriving(e, s) /\ News(e, s)' \subseteq News(e, s)
           /\ Arriving(e, s) \subseteq Arriving(e, s)' \cup {f}
           /\ News(e, s) \subseteq News(e, s)' \cup {f}
           /\ f.type \notin Items => Arriving(e, s)' = Arriving(e, s)
           /\ f.type \in Items => f \in Arriving(e, s)
           /\ f.type \in GiveUp \cup {"credit"} => f \in News(e, s)
           /\ f.type \notin GiveUp \cup {"credit"} => News(e, s)' = News(e, s)
           /\ f.type \in Items => \A g \in Arriving(e, s)' \cup Line(e, s) : Before(f, g)
<1>1. p \in Ends /\ Peer(p) = e /\ p # e /\ \A d \in Ends : d = e \/ d = p
  BY Peers
<1>2. TypeOK /\ Local /\ Opens /\ Order
  BY DEF SInv
<1>3. state[e] \in StateType /\ state'[e] = new /\ state'[p] = state[p]
  BY <1>2, SetIs
<1>4. /\ wire[e] # <<>> /\ Taking(e) /\ f = Head(wire[e]) /\ f.stream = s /\ reader[e]
      /\ UNCHANGED <<reader, wrote>> /\ f.type \in OfStream
  BY DEF Gets, Arrives
<1>5. /\ f \in FrameType /\ f \in On(e) /\ On(e) = {f} \cup On(e)' /\ On(p)' = On(p)
  BY <1>1, <1>2, <1>4, Takes
<1>6. f.type # "open"
  BY <1>4 DEF OfStream
<1>7. \A d \in Ends : Due(d)' = Due(d)
  BY <1>1, <1>3 DEF Due
<1>8. News(p, s)' = News(p, s)
  BY <1>1, <1>5, <1>7 DEF News, Chain
<1>9. Known(e, s)
  BY <1>4, <1>2, <1>3 DEF Gets, Violates, NeverOpened, OfStream, Known, StateType, Numbers
<1>10. Known(p, s)
  BY <1>5, <1>2, <1>4, Peers DEF Chain, Opens, ToClient, Known, ToServer, Ends
<1>11. Known(e, s)' /\ Known(p, s)' /\ (Running' <=> Running)
  BY <1>1, <1>3, <1>9, <1>10 DEF Known, Running
<1>12. Entry(p, s)' = Entry(p, s) /\ (Has(p, s)' <=> Has(p, s)) /\ Line(e, s)' = Line(e, s)
  BY <1>1, <1>3 DEF Entry, Has, Line
<1>13. /\ Arriving(p, s)' = Arriving(p, s)
       /\ Arriving(e, s)' \subseteq Arriving(e, s) /\ News(e, s)' \subseteq News(e, s)
       /\ Arriving(e, s) \subseteq Arriving(e, s)' \cup {f}
       /\ News(e, s) \subseteq News(e, s)' \cup {f}
       /\ f.type \notin Items => Arriving(e, s)' = Arriving(e, s)
       /\ f.type \in Items => f \in Arriving(e, s)
       /\ f.type \notin GiveUp \cup {"credit"} => News(e, s)' = News(e, s)
       /\ f.type \in Items => \A g \in Arriving(e, s)' \cup Line(e, s) : Before(f, g)
  <2>1. state'[Peer(e)].control = state[Peer(e)].control
    BY <1>3
  <2>2. LET q == Peer(e) IN
        /\ \A t : Arriving(q, t)' = Arriving(q, t)
        /\ \A t : Arriving(e, t)' \subseteq Arriving(e, t) /\ News(e, t)' \subseteq News(e, t)
        /\ Arriving(e, f.stream) \subseteq Arriving(e, f.stream)' \cup {f}
        /\ News(e, f.stream) \subseteq News(e, f.stream)' \cup {f}
        /\ f.type \notin Items => Arriving(e, f.stream)' = Arriving(e, f.stream)
        /\ f.type \in Items => f \in Arriving(e, f.stream)
        /\ f.type \notin GiveUp \cup {"credit"} => News(e, f.stream)' = News(e, f.stream)
        /\ f.stream \in Numbers /\ f.type \in Items =>
             \A g \in Arriving(e, f.stream)' \cup Line(e, f.stream) : Before(f, g)
    BY <1>2, <1>4, <2>1, FrameTaken
  <2> QED
    BY <1>4, <2>2
<1>14. f.type \in GiveUp \cup {"credit"} => f \in News(e, s)
  BY <1>4, <1>5 DEF News, Chain
<1> QED
  BY <1>1, <1>3, <1>4, <1>5, <1>6, <1>8, <1>9, <1>10, <1>11, <1>12, <1>13, <1>14

(* The types, after a frame is read.                                       *)
LEMMA TypeAfterFrame ==
    ASSUME TypeOK, NEW e \in Ends, NEW s, NEW f, Gets(e, s, f), NEW new \in StateType, Set(e, new),
           \A t \in Numbers : t \in new.streams /\ new.entry[t].handle_alive
                          <=> t \in state[e].streams /\ state[e].entry[t].handle_alive
    PROVE  TypeOK'
BY Takes, TypeGoesOn DEF Gets, Arrives, TypeOK

(* A frame of a Stream that is gone, or data of one that failed.           *)
LEMMA IgnoredKeeps ==
    ASSUME SInv, NEW e \in Ends, NEW s \in Numbers, NEW f, Gets(e, s, f), Set(e, state[e]),
           ~Live(e, s), Has(e, s) => f.type = "data"
    PROVE  SInv'
<1> DEFINE p == Peer(e)
           new == state[e]
<1>1. TypeOK /\ Local /\ Agreement /\ new \in StateType /\ p \in Ends
  BY SetIs DEF SInv
<1>2. TypeOK'
  BY <1>1, TypeAfterFrame
<1>3. /\ p \in Ends /\ Peer(p) = e /\ p # e
      /\ state[e] \in StateType /\ state'[e] = state[e] /\ state'[p] = state[p]
      /\ wire[e] # <<>> /\ Taking(e) /\ f = Head(wire[e]) /\ f.stream = s
      /\ f.type # "open"
      /\ UNCHANGED <<reader, wrote>>
      /\ Known(e, s) /\ (Running' <=> Running) /\ Line(e, s)' = Line(e, s)
      /\ Arriving(p, s)' = Arriving(p, s) /\ News(p, s)' = News(p, s)
      /\ Arriving(e, s)' \subseteq Arriving(e, s) /\ News(e, s)' \subseteq News(e, s)
      /\ Arriving(e, s) \subseteq Arriving(e, s)' \cup {f}
      /\ f.type \notin GiveUp \cup {"credit"} => News(e, s)' = News(e, s)
  BY <1>1, FrameRead
<1>4. \A d \in Ends : Entry(d, s)' = Entry(d, s) /\ (Has(d, s)' <=> Has(d, s))
                   /\ (Known(d, s)' <=> Known(d, s))
  BY <1>3, Peers DEF Entry, Has, Known
<1>5. /\ \A d \in Ends : (Gone(d, s)' <=> Gone(d, s)) /\ (Live(d, s)' <=> Live(d, s))
      /\ Line(p, s)' = Line(p, s)
  BY <1>3, <1>4 DEF Gone, Live, Line
<1>6. /\ Datas(e, s)' \subseteq Datas(e, s) /\ (FinOn(e, s)' => FinOn(e, s))
      /\ (FinDue(e, s)' <=> FinDue(e, s)) /\ (Failing(e, s)' => Failing(e, s))
      /\ Limits(e, s)' \subseteq Limits(e, s) /\ Limits(p, s)' = Limits(p, s)
      /\ Datas(p, s)' = Datas(p, s) /\ (FinOn(p, s)' <=> FinOn(p, s))
      /\ (FinDue(p, s)' <=> FinDue(p, s)) /\ (Failing(p, s)' <=> Failing(p, s))
  BY <1>3, <1>5 DEF Datas, FinOn, FinDue, Failing, Limits
<1>7. Has(e, s) => (FinOn(e, s)' <=> FinOn(e, s)) /\ Limits(e, s)' = Limits(e, s)
  BY <1>3, <1>6 DEF FinOn, Limits, GiveUp
<1>8. ~Gone(e, s) => Has(e, s)
  BY <1>3 DEF Gone
<1>9. Agreed(e, s) /\ Agreed(p, s)
  BY <1>1 DEF Agreement
<1>10. Agreed(e, s)'
  BY <1>3, <1>4, <1>5, <1>6, <1>9, <1>7, <1>8 DEF Agreed, Credits, Everything, Finishes, Told,
     Given
<1>11. Agreed(p, s)'
  BY <1>3, <1>4, <1>5, <1>6, <1>9, <1>7 DEF Agreed, Credits, Lasts, Everything, Finishes, Told,
     Given
<1>12. EntryOk(e, s)'
  BY <1>1, <1>3, <1>4 DEF Local, EntryOk
<1>13. OtherEntries(new, new, s)
  BY DEF OtherEntries, Alike, SameSending, SameReceiving
<1>14. Set(e, new) /\ UNCHANGED <<reader, wrote>>
  BY <1>3
<1>15. new.entry[s].outgoing = Entry(e, s).outgoing
  BY DEF Entry
<1> HIDE DEF new
<1> QED
  BY <1>1, <1>2, <1>3, <1>10, <1>11, <1>12, <1>13, <1>14, <1>15, ReceiveStep DEF new

(* Data: the next in order, within the credit, and unless the holder has   *)
(* gone it joins what there is to read.                                    *)
LEMMA DataJoinsKeeps ==
    ASSUME SInv, TypeOK', NEW e \in Ends, NEW s \in Numbers, NEW f, Gets(e, s, f), f.type = "data",
           Has(e, s), Live(e, s), NEW new \in StateType, Set(e, new),
           SameStreams(state[e], new), OtherEntries(state[e], new, s),
           new.control = state[e].control,
           NEW a, NEW b, a = Entry(e, s), b = new.entry[s], SameSending(a, b),
           ~a.peer_finished, ~b.peer_finished,
           b.inbound = (IF a.handle_alive THEN Append(a.inbound, f) ELSE a.inbound),
           b.received = a.received + f.size, b.consumed = a.consumed,
           b.announced = a.announced, b.handle_alive = a.handle_alive
    PROVE  SInv'
<1> DEFINE p == Peer(e)
<1>1. TypeOK /\ Local /\ Agreement /\ new.highest = state[e].highest
      /\ new.closed = state[e].closed /\ new.streams = state[e].streams
  BY DEF SInv, SameStreams
<1>2. Agreed(e, s) /\ Agreed(p, s) /\ Sane(a, s) /\ p \in Ends
  BY <1>1, Peers DEF Agreement, Local, EntryOk
<1>3. /\ p \in Ends /\ Peer(p) = e /\ p # e /\ \A d \in Ends : d = e \/ d = p
      /\ state[e] \in StateType /\ state'[e] = new /\ state'[p] = state[p]
      /\ wire[e] # <<>> /\ Taking(e) /\ f = Head(wire[e]) /\ f.stream = s /\ reader[e]
      /\ f \in FrameType /\ f.type # "open"
      /\ UNCHANGED <<reader, wrote>>
      /\ Known(e, s) /\ Known(p, s) /\ Known(e, s)' /\ Known(p, s)' /\ (Running' <=> Running)
      /\ Entry(p, s)' = Entry(p, s) /\ (Has(p, s)' <=> Has(p, s)) /\ Line(e, s)' = Line(e, s)
      /\ Arriving(p, s)' = Arriving(p, s) /\ News(p, s)' = News(p, s)
      /\ Arriving(e, s)' \subseteq Arriving(e, s)
      /\ Arriving(e, s) \subseteq Arriving(e, s)' \cup {f}
      /\ f \in Arriving(e, s) /\ News(e, s)' = News(e, s)
      /\ \A g \in Arriving(e, s)' \cup Line(e, s) : Before(f, g)
  BY <1>1, FrameRead DEF Items, GiveUp
<1>4. /\ f.at \in Nat /\ f.size \in Nat \ {0} /\ a.received \in Nat /\ a.announced \in Nat
      /\ a.consumed \in Nat /\ a.inbound \in Seq(Chunk) /\ wrote[p][s] \in Nat
      /\ f \in Datas(e, s)
  BY <1>3, <1>1, EntryIn, <1>2, DatasIn DEF Datas
<1>5. a.received <= f.at /\ Until(f) <= a.announced /\ Until(f) <= wrote[p][s]
  BY <1>2, <1>3, <1>4 DEF Agreed, Credits
<1>6. \A g \in Datas(e, s) : g = f \/ (g \in Datas(e, s)' /\ Until(f) <= g.at)
  BY <1>3 DEF Datas, Before
<1>7. \A g \in Datas(e, s)' : g \in Datas(e, s) /\ Until(f) <= g.at /\ g # f
  BY <1>3, <1>4 DEF Datas, Before, Until
<1>8. f.at = a.received
  <2>1. f.at = a.received \/ \E g \in Datas(e, s) : Until(g) = f.at
    BY <1>2, <1>3, <1>4 DEF Agreed, Everything
  <2>2. ASSUME NEW g \in Datas(e, s), Until(g) = f.at PROVE FALSE
    BY <1>1, DatasIn, <1>4, <1>6, <2>2 DEF Until
  <2> QED
    BY <2>1, <2>2
<1>9. a.handle_alive /\ ~a.failed
  BY <1>2 DEF Sane, Complete, Live
<1>10. Entry(e, s)' = b /\ (Has(e, s)' <=> Has(e, s)) /\ ~Gone(e, s)' /\ ~Gone(e, s) /\ Live(e, s)'
       /\ ~b.failed /\ b.limit = a.limit /\ b.finish_queued = a.finish_queued
       /\ b.outgoing = a.outgoing /\ b.sent = a.sent
  BY <1>1, <1>3, <1>9 DEF Entry, Has, Gone, Live, SameSending
<1>11. b.received = Until(f)
  BY <1>4, <1>8 DEF Until
<1>12. Sane(b, s)
  <2>1. f \in Chunk /\ f \in Ours(s)
    BY <1>3, <1>4 DEF FrameType, Chunk, Ours
  <2>2. b.inbound = Append(a.inbound, f)
    BY <1>9
  <2>3. Unread(b)
    BY <1>2, <1>4, <1>8, <1>9, <1>11, <2>1, <2>2, UnreadJoins DEF Sane
  <2>4. Elements(b.inbound) = Elements(a.inbound) \cup {f}
    BY <1>4, <2>2, ElementsOfAppend
  <2>5. b.consumed <= b.received
    BY <1>2, <1>4 DEF Sane
  <2> QED
    BY <1>2, <1>9, <1>10, <2>1, <2>3, <2>4, <2>5 DEF Sane
<1>13. EntryOk(e, s)'
  BY <1>1, <1>3, <1>10, <1>12 DEF EntryOk, Local
<1>14. (FinOn(e, s)' <=> FinOn(e, s)) /\ (FinDue(e, s)' <=> FinDue(e, s))
       /\ (Live(p, s)' <=> Live(p, s)) /\ (Failing(e, s)' <=> Failing(e, s))
       /\ Limits(p, s)' = Limits(p, s) /\ Limits(e, s)' = Limits(e, s)
       /\ (Failing(p, s)' <=> Failing(p, s)) /\ Line(p, s)' = Line(p, s)
  BY <1>3, <1>10 DEF FinOn, FinDue, Live, Gone, Failing, Limits, Line
<1>15. Agreed(e, s)'
  <2>1. Credits(e, s)'
    BY <1>2, <1>3, <1>7, <1>10, <1>11, <1>14 DEF Agreed, Credits
  <2>2. Everything(e, s)'
    <3>1. b.received <= wrote[p][s]
      BY <1>5, <1>11
    <3>2. ASSUME NEW g \in Datas(e, s)'
          PROVE  g.at = b.received \/ \E h \in Datas(e, s)' : Until(h) = g.at
      BY <1>7, <1>2, <1>3, <1>4, <1>8, <1>6, <1>11 DEF Agreed, Everything, Until
    <3>3. ASSUME Lasts(e, s)'
          PROVE  wrote[p][s] = b.received \/ \E h \in Datas(e, s)' : Until(h) = wrote[p][s]
      <4>1. Lasts(e, s)
        BY <1>3, <1>10, <1>14, <3>3 DEF Lasts
      <4>2. wrote[p][s] = a.received \/ \E h \in Datas(e, s) : Until(h) = wrote[p][s]
        BY <1>2, <1>3, <4>1 DEF Agreed, Everything
      <4>3. wrote[p][s] # a.received
        BY <1>4, <1>5, <1>8 DEF Until
      <4>4. PICK h \in Datas(e, s) : Until(h) = wrote[p][s]
        BY <4>2, <4>3
      <4> QED
        BY <1>6, <1>11, <4>4
    <3> QED
      BY <1>3, <1>10, <3>1, <3>2, <3>3 DEF Everything
  <2>3. Finishes(e, s)'
    BY <1>2, <1>3, <1>10, <1>14 DEF Agreed, Finishes
  <2>4. Told(e, s)'
    BY <1>2, <1>3, <1>10, <1>14 DEF Agreed, Told
  <2>5. Given(e, s)'
    BY <1>2, <1>3, <1>10, <1>14 DEF Agreed, Given
  <2> QED
    BY <2>1, <2>2, <2>3, <2>4, <2>5 DEF Agreed
<1>16. Agreed(p, s)'
  BY <1>3, <1>10, <1>9, <1>14, <1>2, BesideAgrees DEF SameSending, Beside
<1>17. new.entry[s].outgoing = Entry(e, s).outgoing
  BY <1>10
<1> QED
  BY <1>1, <1>3, <1>13, <1>15, <1>16, <1>17, ReceiveStep

(* Data is received in the order it was written, within the window.        *)
LEMMA DataKeeps ==
    ASSUME SInv, NEW e \in Ends, NEW s \in Numbers, NEW f, Gets(e, s, f), f.type = "data",
           Has(e, s), Live(e, s), Set(e, DataReceived(state[e], f))
    PROVE  SInv'
<1>1. TypeOK /\ Local /\ Agreement /\ state[e] \in StateType
  BY SetIs DEF SInv
<1>2. Arrives(e) /\ Taking(e) /\ f = Head(wire[e]) /\ f.stream = s
  BY DEF Gets
<1>3. f \in FrameType /\ f \in On(e)
  BY <1>1, <1>2, Takes DEF Arrives
<1>4. f \in Datas(e, s)
  BY <1>2, <1>3 DEF Datas, Arriving, Items
<1>5. ~Entry(e, s).peer_finished /\ ~Entry(e, s).failed
  BY <1>1, <1>4 DEF Agreement, Agreed, Finishes, Live
<1> DEFINE new == DataReceived(state[e], f)
           a == Entry(e, s)
           b == new.entry[s]
<1>6. /\ new \in StateType
      /\ SameStreams(state[e], new) /\ OtherEntries(state[e], new, s) /\ new.control = state[e].control
      /\ SameSending(a, b)
      /\ b.inbound = (IF a.handle_alive THEN Append(a.inbound, f) ELSE a.inbound)
      /\ b.received = a.received + f.size /\ b.consumed = a.consumed
      /\ b.announced = a.announced /\ b.peer_finished = a.peer_finished
      /\ b.handle_alive = a.handle_alive
  BY <1>1, <1>2, <1>3, <1>5, DataIs DEF Entry
<1>7. Set(e, new)
  OBVIOUS
<1> HIDE DEF new
<1>8. \A t \in Numbers : t \in new.streams /\ new.entry[t].handle_alive
                    <=> t \in state[e].streams /\ state[e].entry[t].handle_alive
  BY <1>6 DEF OtherEntries, Alike, SameReceiving, SameStreams, Entry
<1>9. TypeOK'
  BY <1>1, <1>6, <1>7, <1>8, TypeAfterFrame
<1>10. ~b.peer_finished
  BY <1>5, <1>6
<1> HIDE DEF b
<1> QED
  BY <1>5, <1>6, <1>7, <1>9, <1>10, DataJoinsKeeps DEF b

(* Credit: the larger limit, never more than what the peer announced.      *)
LEMMA CreditKeeps ==
    ASSUME SInv, TypeOK', NEW e \in Ends, NEW s \in Numbers, NEW f, Gets(e, s, f),
           f.type = "credit", Has(e, s), NEW new \in StateType, Set(e, new),
           SameStreams(state[e], new), OtherEntries(state[e], new, s),
           new.control = state[e].control,
           NEW a, NEW b, a = Entry(e, s), b = new.entry[s], SameReceiving(a, b),
           b.limit = Larger(a.limit, f.at), b.sent = a.sent, b.outgoing = a.outgoing,
           b.finish_queued = a.finish_queued, b.failed = a.failed
    PROVE  SInv'
<1> DEFINE p == Peer(e)
<1>1. TypeOK /\ Local /\ Agreement /\ new.highest = state[e].highest
      /\ new.closed = state[e].closed /\ new.streams = state[e].streams
  BY DEF SInv, SameStreams
<1>2. Agreed(e, s) /\ Agreed(p, s) /\ EntryOk(e, s) /\ p \in Ends
  BY <1>1, Peers DEF Agreement, Local
<1>3. /\ p \in Ends /\ Peer(p) = e /\ p # e /\ \A d \in Ends : d = e \/ d = p
      /\ state[e] \in StateType /\ state'[e] = new /\ state'[p] = state[p]
      /\ wire[e] # <<>> /\ Taking(e) /\ f = Head(wire[e]) /\ f.stream = s
      /\ f \in FrameType /\ f.type # "open"
      /\ UNCHANGED <<reader, wrote>>
      /\ Known(e, s) /\ Known(p, s) /\ Known(e, s)' /\ Known(p, s)' /\ (Running' <=> Running)
      /\ Entry(p, s)' = Entry(p, s) /\ (Has(p, s)' <=> Has(p, s)) /\ Line(e, s)' = Line(e, s)
      /\ Arriving(p, s)' = Arriving(p, s) /\ News(p, s)' = News(p, s)
      /\ Arriving(e, s)' = Arriving(e, s) /\ News(e, s)' \subseteq News(e, s)
      /\ News(e, s) \subseteq News(e, s)' \cup {f} /\ f \in News(e, s)
  BY <1>1, FrameRead DEF Items, GiveUp
<1>4. Entry(e, s)' = b /\ (Has(e, s)' <=> Has(e, s)) /\ Line(p, s)' = Line(p, s)
  BY <1>1, <1>3 DEF Entry, Has, Line
<1>5. a.limit \in Nat /\ f.at \in Nat /\ a.sent \in Nat /\ Entry(p, s).announced \in Nat
  BY <1>1, EntryIn, <1>2, <1>3 DEF FrameType
<1>6. EntryOk(e, s)'
  <2>1. b.sent <= b.limit
    BY <1>2, <1>5 DEF EntryOk, Sane, Larger
  <2>2. Sane(b, s)
    BY <1>2, <2>1 DEF EntryOk, Sane, Unread, Complete, SameReceiving
  <2> QED
    BY <1>2, <1>3, <1>4, <2>2 DEF EntryOk
<1>7. /\ f \in Limits(e, s) /\ Limits(e, s)' \subseteq Limits(e, s)
      /\ Limits(e, s) \subseteq Limits(e, s)' \cup {f} /\ Limits(p, s)' = Limits(p, s)
      /\ (Failing(e, s)' <=> Failing(e, s)) /\ (Failing(p, s)' <=> Failing(p, s))
  BY <1>3 DEF Limits, Failing, GiveUp
<1>8. Agreed(e, s)'
  BY <1>3, <1>4, <1>7, <1>2, BesideAgrees DEF Beside, SameReceiving
<1>9. \A d \in Ends : (Gone(d, s)' <=> Gone(d, s)) /\ (Live(d, s)' <=> Live(d, s))
  BY <1>3, <1>4 DEF Gone, Live
<1>10. /\ Datas(p, s)' = Datas(p, s) /\ (FinOn(p, s)' <=> FinOn(p, s))
       /\ (FinDue(p, s)' <=> FinDue(p, s))
  BY <1>3, <1>4 DEF Datas, FinOn, FinDue
<1>11. Agreed(p, s)'
  BY <1>2, <1>3, <1>7, <1>4, <1>9, <1>10, <1>5 DEF Agreed, Credits, Larger, Lasts, Everything,
     Finishes, Told, Given
<1>12. new.entry[s].outgoing = Entry(e, s).outgoing
  OBVIOUS
<1> QED
  BY <1>1, <1>3, <1>6, <1>8, <1>11, <1>12, ReceiveStep

(* Opened: nothing the invariant speaks of.                                *)
LEMMA OpenedKeeps ==
    ASSUME SInv, TypeOK', NEW e \in Ends, NEW s \in Numbers, NEW f, Gets(e, s, f),
           f.type = "opened", Has(e, s), NEW new \in StateType, Set(e, new),
           SameStreams(state[e], new), OtherEntries(state[e], new, s),
           new.control = state[e].control,
           NEW a, NEW b, a = Entry(e, s), b = new.entry[s], Alike(a, b)
    PROVE  SInv'
<1> DEFINE p == Peer(e)
<1>1. TypeOK /\ Local /\ Agreement /\ new.highest = state[e].highest
      /\ new.closed = state[e].closed /\ new.streams = state[e].streams
  BY DEF SInv, SameStreams
<1>2. Agreed(e, s) /\ Agreed(p, s) /\ EntryOk(e, s) /\ p \in Ends
  BY <1>1, Peers DEF Agreement, Local
<1>3. /\ p \in Ends /\ Peer(p) = e /\ p # e /\ \A d \in Ends : d = e \/ d = p
      /\ state[e] \in StateType /\ state'[e] = new /\ state'[p] = state[p]
      /\ wire[e] # <<>> /\ Taking(e) /\ f = Head(wire[e]) /\ f.stream = s
      /\ f.type # "open"
      /\ UNCHANGED <<reader, wrote>>
      /\ Known(e, s) /\ Known(p, s) /\ Known(e, s)' /\ Known(p, s)' /\ (Running' <=> Running)
      /\ Entry(p, s)' = Entry(p, s) /\ (Has(p, s)' <=> Has(p, s)) /\ Line(e, s)' = Line(e, s)
      /\ Arriving(p, s)' = Arriving(p, s) /\ News(p, s)' = News(p, s)
      /\ Arriving(e, s)' = Arriving(e, s) /\ News(e, s)' = News(e, s)
  BY <1>1, FrameRead DEF Items, GiveUp
<1>4. Entry(e, s)' = b /\ (Has(e, s)' <=> Has(e, s)) /\ Line(p, s)' = Line(p, s)
  BY <1>1, <1>3 DEF Entry, Has, Line, Alike, SameSending
<1>5. EntryOk(e, s)'
  BY <1>2, SaneAlike, <1>3, <1>4 DEF EntryOk, Alike, SameSending
<1>6. \A d \in Ends : /\ (Has(d, s)' <=> Has(d, s)) /\ (Known(d, s)' <=> Known(d, s))
                      /\ Limits(d, s)' = Limits(d, s) /\ (Failing(d, s)' <=> Failing(d, s))
  BY <1>3, <1>4 DEF Limits, Failing
<1>7. Agreed(e, s)'
  BY <1>3, <1>4, <1>6, <1>2, BesideAgrees DEF Beside, Alike, SameReceiving, SameSending
<1>8. Agreed(p, s)'
  BY <1>3, <1>4, <1>6, <1>2, BesideAgrees DEF Beside, Alike, SameReceiving, SameSending
<1>9. new.entry[s].outgoing = Entry(e, s).outgoing
  BY DEF Alike, SameSending
<1> QED
  BY <1>1, <1>3, <1>5, <1>7, <1>8, <1>9, ReceiveStep

(* Finish: nothing of the Stream is behind it, so all of it was received.  *)
LEMMA EndKeeps ==
    ASSUME SInv, TypeOK', NEW e \in Ends, NEW s \in Numbers, NEW f, Gets(e, s, f),
           f.type = "finish", Has(e, s), NEW new \in StateType, Set(e, new),
           SameStreams(state[e], new), OtherEntries(state[e], new, s),
           new.control = state[e].control,
           NEW a, NEW b, a = Entry(e, s), b = new.entry[s], SameSending(a, b),
           b.inbound = a.inbound, b.received = a.received, b.consumed = a.consumed,
           b.announced = a.announced, b.peer_finished, b.handle_alive = a.handle_alive
    PROVE  SInv'
<1> DEFINE p == Peer(e)
<1>1. TypeOK /\ Local /\ Agreement /\ new.highest = state[e].highest
      /\ new.closed = state[e].closed /\ new.streams = state[e].streams
  BY DEF SInv, SameStreams
<1>2. Agreed(e, s) /\ Agreed(p, s) /\ EntryOk(e, s) /\ p \in Ends
  BY <1>1, Peers DEF Agreement, Local
<1>3. /\ p \in Ends /\ Peer(p) = e /\ p # e /\ \A d \in Ends : d = e \/ d = p
      /\ state[e] \in StateType /\ state'[e] = new /\ state'[p] = state[p]
      /\ wire[e] # <<>> /\ Taking(e) /\ f = Head(wire[e]) /\ f.stream = s /\ reader[e]
      /\ f.type # "open"
      /\ UNCHANGED <<reader, wrote>>
      /\ Known(e, s) /\ Known(p, s) /\ Known(e, s)' /\ Known(p, s)' /\ (Running' <=> Running)
      /\ Entry(p, s)' = Entry(p, s) /\ (Has(p, s)' <=> Has(p, s)) /\ Line(e, s)' = Line(e, s)
      /\ Arriving(p, s)' = Arriving(p, s) /\ News(p, s)' = News(p, s)
      /\ Arriving(e, s) \subseteq Arriving(e, s)' \cup {f} /\ f \in Arriving(e, s)
      /\ News(e, s)' = News(e, s)
      /\ \A g \in Arriving(e, s)' \cup Line(e, s) : Before(f, g)
  BY <1>1, FrameRead DEF Items, GiveUp
<1>4. Entry(e, s)' = b /\ (Has(e, s)' <=> Has(e, s)) /\ Line(p, s)' = Line(p, s)
  BY <1>1, <1>3 DEF Entry, Has, Line, SameSending
<1>5. Arriving(e, s)' = {} /\ Line(e, s) = {} /\ FinOn(e, s)
  BY <1>3 DEF Before, FinOn
<1>6. Datas(e, s) = {} /\ Datas(e, s)' = {} /\ ~FinOn(e, s)' /\ ~FinDue(e, s)'
  BY <1>3, <1>5 DEF Datas, FinOn, FinDue
<1>7. EntryOk(e, s)'
  <2>1. Sane(b, s)
    BY <1>2 DEF EntryOk, Sane, Unread, Complete, SameSending
  <2> QED
    BY <1>2, <1>3, <1>4, <2>1 DEF EntryOk, SameSending
<1>8. \A d \in Ends : /\ (Has(d, s)' <=> Has(d, s)) /\ (Known(d, s)' <=> Known(d, s))
                      /\ Limits(d, s)' = Limits(d, s) /\ (Failing(d, s)' <=> Failing(d, s))
  BY <1>3, <1>4 DEF Limits, Failing
<1>9. \A d \in Ends : (Gone(d, s)' <=> Gone(d, s)) /\ (Live(d, s)' <=> Live(d, s))
  BY <1>3, <1>4, <1>8 DEF Gone, Live, SameSending
<1>10. Agreed(e, s)'
  BY <1>2, <1>3, <1>4, <1>6, <1>8, <1>9, <1>5 DEF Agreed, Credits, Everything, Lasts, Live, Gone,
     SameSending, Finishes, Told, Given
<1>11. Agreed(p, s)'
  BY <1>3, <1>4, <1>8, <1>2, BesideAgrees DEF Beside, SameSending
<1>12. new.entry[s].outgoing = Entry(e, s).outgoing
  BY DEF SameSending
<1> QED
  BY <1>1, <1>3, <1>7, <1>10, <1>11, <1>12, ReceiveStep

(* A failure: the peer has given the Stream up, and this end fails it too. *)
LEMMA FailureKeeps ==
    ASSUME SInv, TypeOK', NEW e \in Ends, NEW s \in Numbers, NEW f, Gets(e, s, f),
           f.type \in GiveUp, Has(e, s), NEW new \in StateType, Set(e, new),
           new.highest = state[e].highest, new.closed = state[e].closed,
           new.control = state[e].control, OtherEntries(state[e], new, s),
           \A t \in Numbers \ {s} : t \in new.streams <=> t \in state[e].streams,
           NEW a, NEW b, a = Entry(e, s), b = new.entry[s],
           \/ /\ s \in new.streams /\ SameReceiving(a, b)
              /\ b.limit = a.limit /\ b.sent = a.sent /\ b.outgoing = <<>>
              /\ b.finish_queued = a.finish_queued /\ b.failed
           \/ s \notin new.streams /\ AsNew(b)
    PROVE  SInv'
<1> DEFINE p == Peer(e)
<1>1. TypeOK /\ Local /\ Agreement /\ Order
  BY DEF SInv
<1>2. Agreed(e, s) /\ Agreed(p, s) /\ EntryOk(e, s) /\ p \in Ends /\ Ordered(p, s)
  BY <1>1, Peers DEF Agreement, Local, Order
<1>3. /\ p \in Ends /\ Peer(p) = e /\ p # e /\ \A d \in Ends : d = e \/ d = p
      /\ state[e] \in StateType /\ state'[e] = new /\ state'[p] = state[p]
      /\ wire[e] # <<>> /\ Taking(e) /\ f = Head(wire[e]) /\ f.stream = s
      /\ f.type # "open"
      /\ UNCHANGED <<reader, wrote>>
      /\ Known(e, s) /\ Known(p, s) /\ Known(e, s)' /\ Known(p, s)' /\ (Running' <=> Running)
      /\ Entry(p, s)' = Entry(p, s) /\ (Has(p, s)' <=> Has(p, s)) /\ Line(e, s)' = Line(e, s)
      /\ Arriving(p, s)' = Arriving(p, s) /\ News(p, s)' = News(p, s)
      /\ Arriving(e, s)' = Arriving(e, s) /\ News(e, s)' \subseteq News(e, s)
      /\ News(e, s) \subseteq News(e, s)' \cup {f} /\ f \in News(e, s)
  BY <1>1, FrameRead DEF Items, GiveUp
<1>4. Entry(e, s)' = b /\ (Has(e, s)' <=> s \in new.streams)
  BY <1>3 DEF Entry, Has
<1>5. ~Live(e, s)' /\ ~Live(p, s)
  BY <1>3, <1>2, <1>4 DEF Failing, Agreed, Told, Live, Gone
<1>6. EntryOk(e, s)'
  <2>1. CASE s \in new.streams
    BY <2>1, ElementsOfNone, <1>2, <1>3, <1>4 DEF AsNew, EntryOk, Sane, Unread, Complete,
       SameReceiving
  <2>2. CASE s \notin new.streams
    BY <2>2, AsNewIsSane, <1>3, <1>4 DEF EntryOk
  <2> QED
    BY <2>1, <2>2
<1>7. Line(p, s)' = {}
  BY <1>3, <1>4, ElementsOfNone DEF AsNew, Line
<1>8. Limits(e, s)' = Limits(e, s) /\ Limits(p, s)' = Limits(p, s)
      /\ (Failing(e, s)' => Failing(e, s))
  BY <1>3 DEF Limits, Failing, GiveUp
<1>9. Agreed(e, s)'
  BY <1>4, <1>3, <1>1, <1>2, <1>5, <1>8, GaveUp DEF SameReceiving
<1>10. Agreed(p, s)'
  BY <1>4, <1>3, <1>1, <1>2, <1>5, <1>7, <1>8, PeerGaveUp
<1>11. new.entry[s].outgoing = Entry(e, s).outgoing \/ new.entry[s].outgoing = <<>>
  BY DEF AsNew
<1>12. s \in new.streams => s \in state[e].streams
  BY DEF Has
<1> QED
  BY <1>3, <1>6, <1>9, <1>10, <1>11, <1>12, ReceiveStep

(* A frame of a Stream in the table.                                       *)
LEMMA FrameKeeps ==
    ASSUME SInv, NEW e \in Ends, NEW s \in Numbers, NEW f, Gets(e, s, f), Has(e, s),
           Set(e, Received(state[e], f))
    PROVE  SInv'
<1> DEFINE st == state[e]
           new == Received(st, f)
           a == Entry(e, s)
           b == new.entry[s]
<1>1. TypeOK /\ Local /\ st \in StateType
  BY SetIs DEF SInv
<1>2. Arrives(e) /\ Taking(e) /\ f = Head(wire[e]) /\ f.stream = s /\ f.type \in OfStream
      /\ f.stream \in Numbers
  BY DEF Gets
<1>3. f \in FrameType
  BY <1>1, <1>2, Takes DEF Arrives
<1>4. Known(e, s) /\ ~Gone(e, s) /\ s \in st.streams
  BY <1>1, HasKnown DEF Has
<1>10. Set(e, new)
  OBVIOUS
<1>5. CASE f.type = "data"
  BY <1>2, <1>4, <1>5, IgnoredKeeps, DataKeeps DEF Received, DataReceived, Entry, Live
<1>6. CASE f.type = "credit"
  <2>1. new = CreditReceived(st, f)
    BY <1>2, <1>4, <1>6 DEF Received
  <2>2. /\ new \in StateType
        /\ SameStreams(st, new) /\ OtherEntries(st, new, s) /\ new.control = st.control
        /\ SameReceiving(a, b)
        /\ b.limit = Larger(a.limit, f.at) /\ b.sent = a.sent /\ b.outgoing = a.outgoing
        /\ b.finish_queued = a.finish_queued /\ b.failed = a.failed
    <3> DEFINE c == CreditReceived(st, f)
    <3>1. /\ c \in StateType
          /\ SameStreams(st, c) /\ OtherEntries(st, c, s) /\ c.control = st.control
          /\ SameReceiving(st.entry[s], c.entry[s])
          /\ c.entry[s].limit = Larger(st.entry[s].limit, f.at)
          /\ c.entry[s].sent = st.entry[s].sent /\ c.entry[s].outgoing = st.entry[s].outgoing
          /\ c.entry[s].finish_queued = st.entry[s].finish_queued
          /\ c.entry[s].failed = st.entry[s].failed
      BY <1>1, <1>2, <1>3, CreditIs
    <3> HIDE DEF c
    <3>2. new = c
      BY <2>1 DEF c
    <3> QED
      BY <3>1, <3>2 DEF Entry
  <2>3. \A t \in Numbers : t \in new.streams /\ new.entry[t].handle_alive
                       <=> t \in st.streams /\ st.entry[t].handle_alive
    BY <2>2 DEF OtherEntries, Alike, SameReceiving, SameStreams, Entry
  <2> HIDE DEF new
  <2>4. TypeOK'
    BY <1>1, <1>10, <2>2, <2>3, TypeAfterFrame
  <2> HIDE DEF b
  <2> QED
    BY <1>6, <1>10, <2>2, <2>4, CreditKeeps DEF b
<1>7. CASE f.type = "opened"
  <2>1. new = OpenedReceived(st, f)
    BY <1>2, <1>4, <1>7 DEF Received
  <2>2. /\ new \in StateType
        /\ SameStreams(st, new) /\ OtherEntries(st, new, s) /\ new.control = st.control
        /\ Alike(a, b)
    BY <1>1, <1>2, <1>3, <2>1, OpenedIs DEF Entry
  <2>3. \A t \in Numbers : t \in new.streams /\ new.entry[t].handle_alive
                       <=> t \in st.streams /\ st.entry[t].handle_alive
    BY <2>2 DEF OtherEntries, Alike, SameReceiving, SameStreams, Entry
  <2> HIDE DEF new
  <2>4. TypeOK'
    BY <1>1, <1>10, <2>2, <2>3, TypeAfterFrame
  <2> HIDE DEF b
  <2> QED
    BY <1>7, <1>10, <2>2, <2>4, OpenedKeeps DEF b
<1>8. CASE f.type = "finish"
  <2>1. new = FinishReceived(st, f)
    BY <1>2, <1>4, <1>8 DEF Received
  <2>2. /\ new \in StateType
        /\ SameStreams(st, new) /\ OtherEntries(st, new, s) /\ new.control = st.control
        /\ SameSending(a, b)
        /\ b.inbound = a.inbound /\ b.received = a.received /\ b.consumed = a.consumed
        /\ b.announced = a.announced /\ b.peer_finished /\ b.handle_alive = a.handle_alive
    <3> DEFINE c == FinishReceived(st, f)
    <3>1. /\ c \in StateType
          /\ SameStreams(st, c) /\ OtherEntries(st, c, s) /\ c.control = st.control
          /\ SameSending(st.entry[s], c.entry[s])
          /\ c.entry[s].inbound = st.entry[s].inbound /\ c.entry[s].received = st.entry[s].received
          /\ c.entry[s].consumed = st.entry[s].consumed
          /\ c.entry[s].announced = st.entry[s].announced /\ c.entry[s].peer_finished
          /\ c.entry[s].handle_alive = st.entry[s].handle_alive
      BY <1>1, <1>2, <1>3, EndIs
    <3> HIDE DEF c
    <3>2. new = c
      BY <2>1 DEF c
    <3> QED
      BY <3>1, <3>2 DEF Entry
  <2>3. \A t \in Numbers : t \in new.streams /\ new.entry[t].handle_alive
                       <=> t \in st.streams /\ st.entry[t].handle_alive
    BY <2>2 DEF OtherEntries, Alike, SameReceiving, SameStreams, Entry
  <2> HIDE DEF new
  <2>4. TypeOK'
    BY <1>1, <1>10, <2>2, <2>3, TypeAfterFrame
  <2> HIDE DEF b
  <2> QED
    BY <1>8, <1>10, <2>2, <2>4, EndKeeps DEF b
<1>9. CASE f.type \in GiveUp
  <2> DEFINE mid == Failed(st, s)
             c == mid.entry[s]
  <2>1. new = RemovedIfFinished(mid, s)
    BY <1>2, <1>4, <1>9 DEF Received, ResetReceived, GiveUp
  <2>2. /\ mid \in StateType
        /\ SameStreams(st, mid) /\ OtherEntries(st, mid, s) /\ mid.control = st.control
        /\ SameReceiving(a, c)
        /\ c.limit = a.limit /\ c.sent = a.sent /\ c.outgoing = <<>>
        /\ c.finish_queued = a.finish_queued /\ c.failed
    BY <1>1, FailedIs DEF Entry
  <2> HIDE DEF mid
  <2>3. /\ new \in StateType
        /\ new.highest = mid.highest /\ new.closed = mid.closed /\ new.control = mid.control
        /\ OtherEntries(mid, new, s)
        /\ Leaves(mid, s) => new.streams = mid.streams \ {s} /\ AsNew(new.entry[s])
        /\ ~Leaves(mid, s) => new = mid
    BY <2>1, <2>2, RemovedIs
  <2> HIDE DEF new
  <2>4. new.highest = st.highest /\ new.closed = st.closed /\ new.control = st.control
    BY <2>2, <2>3 DEF SameStreams
  <2>5. OtherEntries(st, new, s)
    BY <2>2, <2>3 DEF OtherEntries, Alike, SameReceiving, SameSending
  <2>6. \A t \in Numbers \ {s} : t \in new.streams <=> t \in st.streams
    BY <2>2, <2>3 DEF SameStreams
  <2>7. \/ /\ s \in new.streams /\ SameReceiving(a, b)
           /\ b.limit = a.limit /\ b.sent = a.sent /\ b.outgoing = <<>>
           /\ b.finish_queued = a.finish_queued /\ b.failed
        \/ s \notin new.streams /\ AsNew(b) /\ ~a.handle_alive
    BY <2>2, <2>3, <1>4 DEF Leaves, SameReceiving, SameStreams
  <2>8. \A t \in Numbers : t \in new.streams /\ new.entry[t].handle_alive
                       <=> t \in st.streams /\ st.entry[t].handle_alive
    BY <1>4, <2>7, <2>5, <2>6 DEF SameReceiving, OtherEntries, Alike, Entry
  <2>9. TypeOK'
    BY <1>1, <1>10, <2>3, <2>8, TypeAfterFrame
  <2> HIDE DEF b
  <2> QED
    BY <1>9, <1>10, <2>3, <2>4, <2>5, <2>6, <2>7, <2>9, FailureKeeps DEF b
<1> QED
  BY <1>2, <1>5, <1>6, <1>7, <1>8, <1>9 DEF OfStream, GiveUp


(* Frames that say nothing of a Stream the connection can have.            *)
LEMMA OtherFrameKeeps ==
    ASSUME SInv, NEW e \in Ends, NEW new \in StateType, Set(e, new), NEW f, f = Head(wire[e]),
           Arrives(e), Taking(e), f.stream = 0 \/ f.type \in {"ping", "pong"}, f.type # "open",
           new.streams = state[e].streams, new.entry = state[e].entry,
           new.highest = state[e].highest, new.closed = state[e].closed,
           \/ new.control = state[e].control
           \/ /\ e = "server"
              /\ \E x \in FrameType : /\ OfConnection("client", x)
                                      /\ new.control = Append(state[e].control, x),
           UNCHANGED <<held, asked, up, reader, writer, wrote, pinged, setting>>
    PROVE  SInv'
<1> DEFINE p == Peer(e)
           st == state[e]
<1>1. p \in Ends /\ Peer(p) = e /\ p # e /\ \A d \in Ends : d = e \/ d = p
  BY Peers
<1>2. TypeOK /\ Local /\ Opens /\ NoProtocolError
  BY DEF SInv
<1>3. /\ st \in StateType /\ state'[e] = new /\ state'[p] = state[p]
      /\ st.control \in Seq(FrameType)
  BY <1>2, SetIs DEF StateType
<1>4. /\ wire' \in [Ends -> Seq(FrameType)] /\ \A d \in Ends : Len(wire'[d]) <= WireCap
      /\ wire'[e] = Tail(wire[e]) /\ wire'[p] = wire[p] /\ wire[e] # <<>>
      /\ On(e) = {f} \cup On(e)' /\ On(p)' = On(p)
  BY <1>2, Takes DEF Arrives
<1>5. TypeOK'
  <2>1. \A t \in Numbers : t \in new.streams /\ new.entry[t].handle_alive
                       <=> t \in st.streams /\ st.entry[t].handle_alive
    OBVIOUS
  <2>2. /\ UNCHANGED <<held, asked, wrote, setting>> /\ up' \in BOOLEAN
        /\ reader' \in [Ends -> BOOLEAN] /\ writer' \in [Ends -> BOOLEAN] /\ pinged' \in Nat
    BY <1>2 DEF TypeOK
  <2> QED
    BY <1>2, <1>4, <2>1, <2>2, TypeGoesOn
<1>6. NoProtocolError'
  BY <1>1, <1>2, <1>3 DEF NoProtocolError
<1>7. /\ Due(e)' = Due(e)
      /\ \/ Due(p)' = Due(p)
         \/ \E x : OfConnection(p, x) /\ Due(p)' = Due(p) \cup {x}
  <2>1. Due(e)' = Due(e)
    BY <1>1, <1>3 DEF Due
  <2>2. CASE new.control = st.control
    BY <1>1, <1>3, <2>1, <2>2 DEF Due
  <2>3. CASE /\ e = "server"
             /\ \E x \in FrameType : /\ OfConnection("client", x)
                                     /\ new.control = Append(st.control, x)
    <3>1. PICK x \in FrameType : OfConnection("client", x) /\ new.control = Append(st.control, x)
      BY <2>3
    <3>2. Due(Peer(e))' = Due(Peer(e)) \cup {x}
      BY <1>3, <3>1, QueueGrows
    <3>3. OfConnection(p, x)
      BY <2>3, <3>1, Peers
    <3> QED
      BY <2>1, <3>2, <3>3
  <2> QED
    BY <2>2, <2>3
<1>8. /\ Chain(e) = {f} \cup Chain(e)'
      /\ \/ Chain(p)' = Chain(p)
         \/ \E x : OfConnection(p, x) /\ Chain(p)' = Chain(p) \cup {x}
  BY <1>4, <1>7 DEF Chain
<1>9. Quiet
  <2>1. \A d \in Ends, t \in Numbers : Alike(Entry(d, t), Entry(d, t)')
    BY <1>1, <1>3 DEF Entry, Alike, SameSending, SameReceiving
  <2>2. \A d \in Ends : state'[d].streams = state[d].streams /\ state'[d].highest = state[d].highest
    BY <1>1, <1>3
  <2>3. \A t \in Numbers : f.stream = t => f.type \notin Items \cup GiveUp \cup {"credit"}
    BY DEF Numbers, Items, GiveUp
  <2>4. \A t \in Numbers : Arriving(e, t)' = Arriving(e, t) /\ Arriving(p, t)' = Arriving(p, t)
    BY <1>4, <2>3 DEF Arriving
  <2>6. \A t \in Numbers : News(e, t)' = News(e, t)
    BY <1>8, <2>3 DEF News
  <2>7. \A t \in Numbers : News(p, t)' = News(p, t)
    BY <1>8 DEF News, OfConnection, Numbers
  <2>8. Running' => Running
    BY <1>1, <1>3 DEF Running
  <2>9. \A d \in Ends, t \in Numbers : Arriving(d, t)' = Arriving(d, t) /\ News(d, t)' = News(d, t)
    BY <1>1, <2>4, <2>6, <2>7
  <2> QED
    BY <2>1, <2>2, <2>8, <2>9 DEF Quiet
<1>10. \A d \in Ends : Moves(d)
  BY <1>1, <1>4 DEF Moves
<1>11. \A d \in Ends : EndOk(d)'
  BY <1>1, <1>2, <1>3, <1>7, <1>4 DEF Local, Due, OfConnection, Items, EndOk, Known
<1>12. Opens'
  <2>1. \A d \in Ends : state'[d].highest = state[d].highest
    BY <1>1, <1>3
  <2>2. \A d \in Ends : \A x \in Chain(d)' : x \in Chain(d) \/ OfConnection(d, x)
    BY <1>1, <1>8
  <2>3. \A d \in Ends : \A x \in Chain(d) : x.type = "open" => x \in Chain(d)'
    BY <1>1, <1>8
  <2>4. /\ OpensRise(wire["server"])' /\ OpensRise(state["client"].control)'
        /\ OpensLast(wire["server"], state["client"].control)'
    BY <1>2, <1>3, <1>4, OpensAfterTaking, Peers DEF Opens, ToServer, Ends
  <2> QED
    BY <1>2, <2>1, <2>2, <2>3, <2>4, OpensKept, Peers
<1> QED
  BY <1>5, <1>6, <1>9, <1>10, <1>11, <1>12, QuietKeeps

(* A ping and its answer say nothing of a Stream.                          *)
LEMMA PongKeeps ==
    ASSUME SInv, NEW e \in Ends, ReceivePing(e)
    PROVE  SInv'
<1> DEFINE x == Frame("pong", 0)
           st == state[e]
           new == IF Head(wire[e]).type = "ping" THEN Control(st, x) ELSE st
<1>1. TypeOK /\ st \in StateType
  BY DEF SInv, TypeOK
<1>2. PICK f : f = Head(wire[e])
  OBVIOUS
<1>3. /\ Arrives(e) /\ f.type \in {"ping", "pong"} /\ ~Violates(e, f) /\ Taking(e) /\ Set(e, new)
      /\ UNCHANGED <<held, asked, up, reader, writer, wrote, pinged, setting>>
  BY <1>2 DEF ReceivePing
<1>4. x \in FrameType /\ OfConnection("client", x)
  BY FrameIn DEF OfConnection
<1>5. /\ new \in StateType
      /\ new.streams = st.streams /\ new.entry = st.entry
      /\ new.highest = st.highest /\ new.closed = st.closed
      /\ new.control = st.control \/ (f.type = "ping" /\ new.control = Append(st.control, x))
  BY <1>2, <1>1, <1>4, ControlIs DEF SameStreams
<1>6. f.type = "ping" => e = "server"
  BY <1>3 DEF Violates, Ends
<1> HIDE DEF new, x
<1> QED
  BY <1>2, <1>3, <1>4, <1>5, <1>6, OtherFrameKeeps

(* An end reads a frame.                                                   *)
LEMMA ReceiveKeeps ==
    ASSUME SInv, NEW e \in Ends, Receive(e)
    PROVE  SInv'
<1>1. TypeOK /\ state[e] \in StateType
  BY DEF SInv, TypeOK
<1>2. PICK f : f = Head(wire[e])
  OBVIOUS
<1>3. /\ Arrives(e) /\ f.type \in OfStream /\ ~Violates(e, f) /\ Taking(e)
      /\ Set(e, Received(state[e], f))
      /\ UNCHANGED <<held, asked, up, reader, writer, wrote, pinged, setting>>
  BY <1>2 DEF Receive
<1>4. f \in FrameType /\ f.type # "open"
  BY <1>1, <1>2, <1>3, Takes DEF Arrives, OfStream
<1>5. CASE f.stream = 0
  BY <1>1, <1>5, <1>3, <1>2, <1>4, OtherFrameKeeps DEF StateType, Numbers, Received
<1>6. CASE f.stream # 0
  <2>1. PICK s \in Numbers : s = f.stream
    BY <1>4, <1>6 DEF FrameType
  <2>2. Gets(e, s, f)
    BY <1>2, <1>3, <2>1 DEF Gets
  <2>3. CASE s \in state[e].streams
    BY <1>3, <2>2, <2>3, FrameKeeps DEF Has
  <2>4. CASE s \notin state[e].streams
    BY <2>1, <2>4, <1>3, <1>1, <2>2, IgnoredKeeps DEF Received, Violates, NeverOpened, OfStream,
       Known, StateType, Numbers, Live, Gone, Has
  <2> QED
    BY <2>3, <2>4
<1> QED
  BY <1>5, <1>6

-----------------------------------------------------------------------------
(* A Stream begins: at the Client with its Open, at the Server when that   *)
(* arrives.                                                                *)

(* Neither end has said or heard anything of it.                           *)
LEMMA JoinAgrees ==
    ASSUME TypeOK, Local, Agreement, NEW e \in Ends, NEW s \in Numbers, NEW p, p = Peer(e),
           ~Known(e, s), Known(e, s)', Has(e, s)',
           \A d \in Ends : /\ Entry(d, s)' = Entry(d, s)
                           /\ Arriving(d, s)' = Arriving(d, s) /\ News(d, s)' = News(d, s),
           Has(p, s)' <=> Has(p, s), Known(p, s)' <=> Known(p, s),
           UNCHANGED <<wrote, reader>>, Running' <=> Running
    PROVE  EntryOk(e, s)' /\ Agreed(e, s)' /\ Agreed(p, s)'
<1>1. p \in Ends /\ Peer(p) = e /\ Peer(e) = p
  BY Peers
<1>2. EntryOk(e, s) /\ EntryOk(p, s) /\ Agreed(e, s) /\ Agreed(p, s)
  BY <1>1 DEF Local, Agreement
<1>3. ~Has(e, s)
  BY HasKnown
<1>4. AsNew(Entry(e, s)) /\ wrote[e][s] = 0
  BY <1>2, <1>3 DEF EntryOk
<1>5. EntryOk(e, s)'
  BY <1>2, <1>4 DEF EntryOk, AsNew
<1>6. /\ ~Gone(e, s) /\ ~Gone(e, s)' /\ Live(e, s) /\ Live(e, s)'
      /\ (Gone(p, s)' <=> Gone(p, s)) /\ (Live(p, s)' <=> Live(p, s))
  BY <1>1, <1>4 DEF Gone, Live, AsNew
<1>7. /\ \A d \in Ends : /\ Datas(d, s)' = Datas(d, s) /\ (FinOn(d, s)' <=> FinOn(d, s))
                         /\ (FinDue(d, s)' <=> FinDue(d, s))
                         /\ Limits(d, s)' = Limits(d, s) /\ (Failing(d, s)' <=> Failing(d, s))
  BY Peers DEF Datas, FinOn, FinDue, Line, Limits, Failing
<1>8. \A d \in {e, p} : (Lasts(d, s)' <=> Lasts(d, s)) /\ Credits(d, s)' /\ Everything(d, s)'
                        /\ Told(d, s)'
  BY <1>1, <1>2, <1>6, <1>7 DEF Lasts, Agreed, Credits, Everything, Told
<1>9. Agreed(e, s)'
  BY <1>1, <1>2, <1>6, <1>7, <1>8 DEF Agreed, Finishes, Given
<1>10. Agreed(p, s)'
  <2>1. Finishes(p, s)'
    BY <1>1, <1>2, <1>4, <1>6, <1>7 DEF Agreed, Finishes, AsNew
  <2>2. Entry(p, s).announced = Window
    <3>1. Entry(p, s).received <= 0
      BY <1>1, <1>2, <1>4 DEF Agreed, Everything
    <3>2. /\ Entry(p, s).consumed <= Entry(p, s).received
          /\ Entry(p, s).announced >= Window
          /\ Entry(p, s).announced <= Entry(p, s).consumed + Window
      BY <1>2 DEF EntryOk, Sane
    <3>3. /\ Entry(p, s).received \in Nat /\ Entry(p, s).consumed \in Nat
          /\ Entry(p, s).announced \in Nat /\ Window \in Nat
      BY <1>1, EntryIn, StateAssumption
    <3> QED
      BY <3>1, <3>2, <3>3
  <2>3. Given(p, s)'
    BY <1>1, <1>4, <2>2 DEF Given, AsNew
  <2> QED
    BY <1>8, <2>1, <2>3 DEF Agreed
<1> QED
  BY <1>5, <1>9, <1>10

(* The Client opens a Stream: its Open is the last of them.                *)
LEMMA OpenKeeps ==
    ASSUME SInv, Open
    PROVE  SInv'
<1> DEFINE st == state["client"]
<1>1. TypeOK /\ Local /\ Opens /\ Order /\ NoProtocolError /\ Agreement
  BY DEF SInv
<1>2. "client" \in Ends /\ "server" \in Ends /\ Peer("client") = "server"
      /\ Peer("server") = "client" /\ \A d \in Ends : d = "client" \/ d = "server"
  BY Peers DEF Ends
<1>3. st \in StateType /\ state["server"] \in StateType
      /\ st.highest \in Nat /\ state["server"].highest \in Nat /\ st.control \in Seq(FrameType)
  <2>1. st \in StateType /\ state["server"] \in StateType
    BY <1>1, <1>2 DEF TypeOK
  <2>2. \A c \in StateType : c.highest \in Nat /\ c.control \in Seq(FrameType)
    BY StateAssumption DEF StateType, Numbers
  <2> QED
    BY <2>1, <2>2
<1>4. PICK s : s = st.highest + 1
  OBVIOUS
<1>5. s \in Numbers
  <2>1. setting.opens \in Numbers \cup {0} /\ s <= setting.opens
    BY <1>1, <1>4, StreamsAssumption DEF Open, TypeOK
  <2> QED
    BY <1>3, <1>4, <2>1, StateAssumption DEF Numbers
<1> DEFINE x == Frame("open", s)
           mid == Inserted(st, s)
           new == Control(mid, x)
<1>6. x \in FrameType /\ x.type = "open" /\ x.stream = s
  BY <1>5, FrameIn
<1>7. /\ new \in StateType
      /\ new.streams = st.streams \cup {s} /\ new.highest = s /\ new.closed = st.closed
      /\ new.entry = st.entry /\ new.control = Append(st.control, x)
  <2>1. /\ mid \in StateType
        /\ mid.streams = st.streams \cup {s} /\ mid.highest = s /\ mid.closed = st.closed
        /\ mid.entry = st.entry /\ mid.control = st.control
    BY <1>3, <1>5, InsertedIs
  <2> HIDE DEF mid, x
  <2>2. /\ new \in StateType /\ SameStreams(mid, new) /\ new.entry = mid.entry
        /\ new.control = Append(mid.control, x)
    BY <1>6, <2>1, ControlIs
  <2> HIDE DEF new
  <2> QED
    BY <2>1, <2>2 DEF SameStreams
<1>8. /\ Set("client", new) /\ held' = [held EXCEPT !["client"] = @ \cup {s}]
      /\ UNCHANGED <<asked, wire, up, reader, writer, wrote, pinged, setting>>
  BY <1>4 DEF Open
<1> HIDE DEF new, mid, x
<1>9. state'["client"] = new /\ state'["server"] = state["server"] /\ state' \in [Ends -> StateType]
  BY <1>1, <1>2, <1>7, <1>8, SetIs
<1>10. ~Known("client", s) /\ ~Has("client", s)
  BY <1>3, <1>4, <1>1, <1>2, HasKnown DEF Known
<1>11. TypeOK'
  <2>1. held \in [Ends -> SUBSET Numbers] /\ asked \subseteq held["server"]
        /\ \A d \in Ends : held[d] = {t \in state[d].streams : state[d].entry[t].handle_alive}
    BY <1>1 DEF TypeOK
  <2>2. held' \in [Ends -> SUBSET Numbers] /\ asked' \subseteq held'["server"]
        /\ held'["client"] = held["client"] \cup {s} /\ held'["server"] = held["server"]
    BY <1>2, <1>5, <1>8, <2>1
  <2>3. st.entry[s].handle_alive
    BY <1>1, <1>2, <1>5, <1>10 DEF Local, EntryOk, AsNew, Entry
  <2>4. \A d \in Ends : held'[d] = {t \in state'[d].streams : state'[d].entry[t].handle_alive}
    BY <1>2, <1>7, <2>1, <2>2, <2>3, <1>9
  <2>5. /\ wire' \in [Ends -> Seq(FrameType)] /\ \A d \in Ends : Len(wire'[d]) <= WireCap
        /\ up' \in BOOLEAN /\ reader' \in [Ends -> BOOLEAN] /\ writer' \in [Ends -> BOOLEAN]
        /\ wrote' \in [Ends -> [Numbers -> Nat]] /\ pinged' \in Nat /\ setting' \in Settings
    BY <1>1, <1>8 DEF TypeOK
  <2> QED
    BY <1>9, <2>2, <2>4, <2>5 DEF TypeOK
<1>12. NoProtocolError'
  BY <1>1, <1>2, <1>7, <1>9 DEF NoProtocolError
<1>13. /\ \A d \in Ends : On(d)' = On(d)
       /\ Due("client")' = Due("client") /\ Due("server")' = Due("server") \cup {x}
       /\ Chain("client")' = Chain("client") /\ Chain("server")' = Chain("server") \cup {x}
  <2>1. (\A d \in Ends : On(d)' = On(d)) /\ Due("client")' = Due("client")
    BY <1>2, <1>8, <1>9 DEF On, Due
  <2>2. Due("server")' = Due("server") \cup {x}
    <3>1. /\ state["client"].control \in Seq(FrameType)
          /\ state'["client"].control = Append(state["client"].control, x)
      BY <1>3, <1>7, <1>9
    <3>2. Due(Peer("client"))' = Due(Peer("client")) \cup {x}
      BY <1>2, <3>1, QueueGrows
    <3> QED
      BY <1>2, <3>2
  <2> QED
    BY <1>2, <2>1, <2>2 DEF Chain
<1>14. \A d \in Ends, t \in Numbers :
         /\ Entry(d, t)' = Entry(d, t) /\ Arriving(d, t)' = Arriving(d, t)
         /\ News(d, t)' = News(d, t) /\ Line(d, t)' = Line(d, t)
  BY <1>2, <1>7, <1>9, <1>13, <1>6, Peers DEF Entry, Arriving, GiveUp, News, Line
<1>15. \A t \in Numbers : /\ Has("server", t)' <=> Has("server", t)
                          /\ Known("server", t)' <=> Known("server", t)
  BY <1>9 DEF Has, Known
<1>16. Known("client", s)' /\ Has("client", s)'
  BY <1>3, <1>4, <1>7, <1>9 DEF Known, Has
<1>17. Running' <=> Running
  BY <1>2, <1>7, <1>9 DEF Running
<1>18. EntryOk("client", s)' /\ Agreed("client", s)' /\ Agreed("server", s)'
  BY <1>1, <1>2, <1>5, <1>8, <1>10, <1>14, <1>15, <1>16, <1>17, JoinAgrees
<1>19. Touches("client", s)
  BY <1>7, <1>9, <1>3, <1>4, <1>2, <1>8, <1>14, <1>17 DEF Has, Numbers, Known, Untouched, Alike,
     SameSending, SameReceiving, Touches
<1>20. \A d \in Ends : EndOk(d)'
  <2>1. EndOk("client") /\ EndOk("server")
    BY <1>1, <1>2 DEF Local
  <2>2. EndOk("client")'
    <3>1. \A g \in Elements(new.control) : g.type \notin Items
      BY <1>2, <1>3, <1>6, <1>7, <2>1, ElementsOfAppend DEF EndOk, Items
    <3>2. \A t \in new.streams : t <= new.highest
      BY <1>3, <1>4, <1>7, <2>1 DEF EndOk, Known, StateType, Numbers
    <3> QED
      BY <1>2, <1>7, <1>8, <1>9, <1>13, <2>1, <3>1, <3>2 DEF EndOk, Known
  <2>3. EndOk("server")'
    BY <1>2, <1>8, <1>9, <1>13, <2>1 DEF EndOk, Known
  <2> QED
    BY <1>2, <2>2, <2>3
<1>21. Opens'
  <2>1. state["server"].highest <= st.highest /\ ToClient /\ ToServer
    BY <1>1 DEF Opens
  <2>2. state'["server"].highest <= state'["client"].highest
    BY <1>3, <1>4, <1>7, <1>9, <2>1
  <2>3. ToClient'
    BY <1>9, <1>13, <2>1 DEF ToClient
  <2>4. \A g \in Chain("server") : g \in FrameType /\ g.stream <= st.highest /\ g.stream < s
    <3>1. \A g \in Chain("server") : g \in FrameType /\ g.stream <= st.highest
      BY <1>1, <1>2, <1>3, <2>1, ElementsIn DEF ToServer, Chain, On, Due, TypeOK
    <3> QED
      BY <1>3, <1>4, <3>1 DEF FrameType, Numbers
  <2>5. ToServer'
    <3>1. ASSUME NEW g \in Chain("server")'
          PROVE  /\ g.type \notin {"pong", "opened", "open_failed"}
                 /\ g.stream <= new.highest
                 /\ g.type = "open" => g.stream > state["server"].highest
      <4>1. CASE g \in Chain("server")
        <5>1. g.stream <= s
          BY <1>3, <1>4, <2>4, <4>1 DEF FrameType, Numbers
        <5> QED
          BY <1>7, <2>1, <4>1, <5>1 DEF ToServer
      <4>2. CASE g = x
        BY <1>3, <1>4, <1>6, <1>7, <2>1, <4>2
      <4> QED
        BY <1>13, <4>1, <4>2
    <3>2. OpensRise(new.control)
      BY <1>2, <1>6, <2>4, <1>3, <1>7, <2>1, RiseJoins DEF Chain, Due, ToServer
    <3>3. OpensLast(wire["server"], new.control)
      BY <1>3, <1>7, ElementsOfAppend, <1>6, <2>4, <2>1, LastOf DEF Chain, On, ToServer
    <3>4. ASSUME reader["server"], NEW t \in Numbers, t <= new.highest, ~Known("server", t)
          PROVE  \E g \in Chain("server")' : g.type = "open" /\ g.stream = t
      BY <1>6, <1>13, <1>3, <1>4, <1>7, <3>4, <2>1 DEF Known, Numbers, ToServer
    <3>5. OpensRise(wire["server"])
      BY <2>1 DEF ToServer
    <3>6. wire'["server"] = wire["server"] /\ reader'["server"] = reader["server"]
      BY <1>8
    <3> QED
      BY <1>9, <1>15, <3>1, <3>2, <3>3, <3>4, <3>5, <3>6 DEF ToServer, Known
  <2> QED
    BY <2>2, <2>3, <2>5 DEF Opens
<1>22. Order'
  BY <1>1, <1>8, <1>14, Peers DEF Order, Ordered
<1> QED
  BY <1>2, <1>5, <1>11, <1>12, <1>18, <1>19, <1>20, <1>21, <1>22, StepKeeps

(* The Server takes an Open: the next number, never one it has seen.       *)
LEMMA ArrivesNext ==
    ASSUME SInv, Arrives("server"), NEW s, s = Head(wire["server"]).stream,
           Head(wire["server"]).type = "open"
    PROVE  /\ s \in Numbers /\ s = state["server"].highest + 1
           /\ s <= state["client"].highest
<1> DEFINE high == state["server"].highest
<1>1. TypeOK /\ Opens
  BY DEF SInv
<1>2. /\ wire["server"] \in Seq(FrameType) /\ wire["server"] # <<>> /\ reader["server"]
      /\ state["client"] \in StateType /\ state["server"] \in StateType
  BY <1>1, Peers DEF TypeOK, Arrives
<1>3. \A c \in StateType : c.highest \in Nat /\ (c.highest # 0 => c.highest \in Numbers)
  BY StateAssumption DEF StateType, Numbers
<1>4. high \in Nat /\ state["client"].highest \in Nat
  BY <1>2, <1>3
<1>5. PICK f : f = Head(wire["server"])
  OBVIOUS
<1>6. f \in FrameType /\ f \in Chain("server") /\ f.stream = s /\ f.type = "open"
      /\ Elements(wire["server"]) = {f} \cup Elements(Tail(wire["server"]))
      /\ f \in Elements(wire["server"])
  BY <1>2, <1>5, ElementsOfHead DEF Chain, On
<1>7. s > high /\ s <= state["client"].highest
  BY <1>1, <1>6 DEF Opens, ToServer
<1>8. s \in Numbers
  BY <1>4, <1>6, <1>7 DEF FrameType, Numbers
<1>9. PICK t : t = high + 1
  OBVIOUS
<1>10. t \in Numbers /\ Known("client", t) /\ ~Known("server", t) /\ t <= s
  BY <1>4, <1>7, <1>8, <1>9, StateAssumption DEF Numbers, Known
<1>11. PICK g \in Chain("server") : g.type = "open" /\ g.stream = t
  BY <1>1, <1>2, <1>10 DEF Opens, ToServer
<1>12. /\ OpensRise(wire["server"]) /\ OpensLast(wire["server"], state["client"].control)
  BY <1>1 DEF Opens, ToServer
<1>13. \A x \in Elements(Tail(wire["server"])) : x.type = "open" => s < x.stream
  BY <1>2, <1>5, <1>6, <1>12, RiseLeaves
<1>14. \A x \in Due("server") : x.type = "open" => s < x.stream
  BY <1>6, <1>12, LastOf, Peers DEF Due
<1>15. g = f \/ s < g.stream
  BY <1>6, <1>11, <1>13, <1>14 DEF Chain, On
<1> QED
  BY <1>6, <1>7, <1>8, <1>9, <1>10, <1>11, <1>15 DEF Numbers

(* The Server hears of it, and has it or says that it does not.            *)
LEMMA ReceiveOpenKeeps ==
    ASSUME SInv, ReceiveOpen
    PROVE  SInv'
<1> DEFINE st == state["server"]
<1>1. TypeOK /\ Local /\ Opens /\ Order /\ NoProtocolError /\ Agreement
  BY DEF SInv
<1>2. "client" \in Ends /\ "server" \in Ends /\ Peer("client") = "server"
      /\ Peer("server") = "client" /\ (\A d \in Ends : d = "client" \/ d = "server")
      /\ "client" # "server"
  BY Peers DEF Ends
<1>3. st \in StateType /\ state["client"] \in StateType
      /\ st.highest \in Nat /\ state["client"].highest \in Nat /\ st.control \in Seq(FrameType)
  <2>1. st \in StateType /\ state["client"] \in StateType
    BY <1>1, <1>2 DEF TypeOK
  <2>2. \A c \in StateType : c.highest \in Nat /\ c.control \in Seq(FrameType)
    BY StateAssumption DEF StateType, Numbers
  <2> QED
    BY <2>1, <2>2
<1>4. PICK f : f = Head(wire["server"])
  OBVIOUS
<1>5. PICK s : s = f.stream
  OBVIOUS
<1>6. /\ Arrives("server") /\ f.type = "open" /\ Taking("server")
      /\ IF Full(st)
         THEN /\ Set("server", Control([st EXCEPT !.highest = s], Frame("open_failed", s)))
              /\ UNCHANGED <<held, asked>>
         ELSE /\ Set("server", Inserted(st, s))
              /\ held' = [held EXCEPT !["server"] = @ \cup {s}]
              /\ asked' = asked \cup {s}
      /\ UNCHANGED <<up, reader, writer, wrote, pinged, setting>>
  BY <1>4, <1>5 DEF ReceiveOpen
<1>7. s \in Numbers /\ s = st.highest + 1 /\ s <= state["client"].highest
  BY <1>4, <1>5, <1>6, ArrivesNext
<1> DEFINE x == Frame("open_failed", s)
           mid == [st EXCEPT !.highest = s]
           new == IF Full(st) THEN Control(mid, x) ELSE Inserted(st, s)
<1>8. x \in FrameType /\ x.type = "open_failed" /\ x.stream = s
  BY <1>7, FrameIn DEF OfStream
<1> HIDE DEF x
<1>9. /\ new \in StateType /\ new.highest = s /\ new.closed = st.closed /\ new.entry = st.entry
      /\ Full(st) => new.streams = st.streams /\ new.control = Append(st.control, x)
      /\ ~Full(st) => new.streams = st.streams \cup {s} /\ new.control = st.control
  <2>1. CASE Full(st)
    <3>1. /\ mid \in StateType /\ mid.highest = s /\ mid.closed = st.closed
          /\ mid.entry = st.entry /\ mid.streams = st.streams /\ mid.control = st.control
      BY <1>3, <1>7 DEF StateType
    <3>2. new = Control(mid, x)
      BY <2>1
    <3> HIDE DEF mid, new
    <3>3. /\ new \in StateType /\ SameStreams(mid, new) /\ new.entry = mid.entry
          /\ new.control = Append(mid.control, x)
      BY <1>8, <3>1, <3>2, ControlIs
    <3> QED
      BY <2>1, <3>1, <3>3 DEF SameStreams
  <2>2. CASE ~Full(st)
    BY <2>2, <1>3, <1>7, InsertedIs
  <2> QED
    BY <2>1, <2>2
<1>10. Set("server", new)
  BY <1>6 DEF x
<1> HIDE DEF new, mid
<1>11. state'["server"] = new /\ state'["client"] = state["client"] /\ state' \in [Ends -> StateType]
  BY <1>1, <1>2, <1>9, <1>10, SetIs
<1>12. ~Known("server", s) /\ ~Has("server", s) /\ Known("client", s)
  BY <1>3, <1>7, <1>1, <1>2, HasKnown DEF Known
<1>13. AsNew(Entry("server", s)) /\ wrote["server"][s] = 0
  BY <1>1, <1>2, <1>7, <1>12 DEF Local, EntryOk
<1>14. /\ wire' \in [Ends -> Seq(FrameType)] /\ \A d \in Ends : Len(wire'[d]) <= WireCap
       /\ wire'["server"] = Tail(wire["server"]) /\ wire'["client"] = wire["client"]
       /\ wire["server"] # <<>> /\ f \in FrameType
       /\ On("server") = {f} \cup On("server")' /\ On("client")' = On("client")
  BY <1>1, <1>2, <1>4, <1>6, Takes DEF Arrives
<1>15. TypeOK'
  <2>1. held \in [Ends -> SUBSET Numbers] /\ asked \subseteq held["server"]
        /\ \A d \in Ends : held[d] = {t \in state[d].streams : state[d].entry[t].handle_alive}
    BY <1>1 DEF TypeOK
  <2>2. st.entry[s].handle_alive
    BY <1>13 DEF AsNew, Entry
  <2>3. /\ held' \in [Ends -> SUBSET Numbers] /\ asked' \subseteq held'["server"]
        /\ held'["client"] = held["client"]
        /\ held'["server"] = {t \in new.streams : new.entry[t].handle_alive}
    BY <1>2, <1>6, <1>9, <2>1, <1>7, <2>2
  <2>4. \A d \in Ends : held'[d] = {t \in state'[d].streams : state'[d].entry[t].handle_alive}
    BY <1>2, <1>11, <2>1, <2>3
  <2>5. /\ up' \in BOOLEAN /\ reader' \in [Ends -> BOOLEAN] /\ writer' \in [Ends -> BOOLEAN]
        /\ wrote' \in [Ends -> [Numbers -> Nat]] /\ pinged' \in Nat /\ setting' \in Settings
    BY <1>1, <1>6 DEF TypeOK
  <2> QED
    BY <1>11, <1>14, <2>3, <2>4, <2>5 DEF TypeOK
<1>16. NoProtocolError'
  BY <1>1, <1>2, <1>9, <1>11 DEF NoProtocolError
<1>17. /\ Due("server")' = Due("server")
       /\ Full(st) => Due("client")' = Due("client") \cup {x}
       /\ ~Full(st) => Due("client")' = Due("client")
  <2>1. Due("server")' = Due("server")
    BY <1>2, <1>11 DEF Due
  <2>2. CASE Full(st)
    <3>1. /\ state["server"].control \in Seq(FrameType)
          /\ state'["server"].control = Append(state["server"].control, x)
      BY <1>3, <1>9, <1>11, <2>2
    <3>2. Due(Peer("server"))' = Due(Peer("server")) \cup {x}
      BY <1>2, <3>1, QueueGrows
    <3> QED
      BY <1>2, <2>1, <2>2, <3>2
  <2>3. CASE ~Full(st)
    BY <1>2, <1>9, <1>11, <2>1, <2>3 DEF Due
  <2> QED
    BY <2>2, <2>3
<1>18. /\ Chain("server") = {f} \cup Chain("server")'
       /\ Full(st) => Chain("client")' = Chain("client") \cup {x}
       /\ ~Full(st) => Chain("client")' = Chain("client")
  BY <1>14, <1>17 DEF Chain
<1>19. \A d \in Ends, t \in Numbers :
         Entry(d, t)' = Entry(d, t) /\ Arriving(d, t)' = Arriving(d, t) /\ Line(d, t)' = Line(d, t)
  <2>1. \A d \in Ends, t \in Numbers : Entry(d, t)' = Entry(d, t)
    BY <1>2, <1>9, <1>11 DEF Entry
  <2>2. \A d \in Ends, t \in Numbers : Arriving(d, t)' = Arriving(d, t)
    BY <1>2, <1>6, <1>14 DEF Arriving, Items
  <2>3. \A d \in Ends, t \in Numbers : Line(d, t)' = Line(d, t)
    BY <2>1, Peers DEF Line
  <2> QED
    BY <2>1, <2>2, <2>3
<1>20. /\ \A t \in Numbers : News("server", t)' = News("server", t)
       /\ \A t \in Numbers \ {s} : News("client", t)' = News("client", t)
       /\ ~Full(st) => News("client", s)' = News("client", s)
       /\ Full(st) => News("client", s)' = News("client", s) \cup {x}
  BY <1>6, <1>8, <1>18 DEF GiveUp, News
<1>21. \A t \in Numbers : /\ Has("client", t)' <=> Has("client", t)
                          /\ Known("client", t)' <=> Known("client", t)
  BY <1>11 DEF Has, Known
<1>22. Known("server", s)' /\ (Has("server", s)' <=> ~Full(st))
  BY <1>3, <1>7, <1>9, <1>11, <1>12 DEF Known, Has
<1>23. (Running' <=> Running) /\ UNCHANGED <<wrote, reader>>
  BY <1>2, <1>6, <1>9, <1>11 DEF Running
<1>24. EntryOk("server", s)' /\ Agreed("server", s)' /\ Agreed("client", s)'
  <2>1. CASE ~Full(st)
    <3>1. \A d \in Ends : /\ Entry(d, s)' = Entry(d, s)
                          /\ Arriving(d, s)' = Arriving(d, s) /\ News(d, s)' = News(d, s)
      BY <1>2, <1>7, <1>19, <1>20, <2>1
    <3> QED
      BY <1>1, <1>2, <1>7, <1>12, <1>21, <1>22, <1>23, <2>1, <3>1, JoinAgrees
  <2>2. CASE Full(st)
    <3>1. ~Has("server", s)' /\ ~Live("server", s)' /\ AsNew(Entry("server", s)')
      BY <1>2, <1>7, <1>13, <1>19, <1>22, <2>2 DEF Live, Gone
    <3>2. Agreed("server", s) /\ Agreed("client", s) /\ Ordered("client", s)
          /\ EntryOk("server", s)
      BY <1>1, <1>2, <1>7 DEF Agreement, Order, Local
    <3>3. EntryOk("server", s)'
      BY <1>2, <1>7, <1>19, <1>22, <2>2, <3>1, <3>2 DEF EntryOk
    <3>4. /\ Limits("client", s)' = Limits("client", s) /\ Limits("server", s)' = Limits("server", s)
          /\ (Failing("server", s)' => Failing("server", s)) /\ Failing("client", s)'
      BY <1>7, <1>8, <1>20, <2>2 DEF GiveUp, Limits, Failing
    <3>5. /\ \A d \in Ends : Entry(d, s)' = Entry(d, s) /\ Arriving(d, s)' = Arriving(d, s)
          /\ Has("client", s)' <=> Has("client", s)
          /\ Known("client", s)' <=> Known("client", s)
          /\ wrote'["client"][s] = wrote["client"][s] /\ wrote'["server"][s] = wrote["server"][s]
          /\ reader' = reader
      BY <1>7, <1>19, <1>21, <1>23
    <3>6. Agreed("server", s)'
      BY <1>1, <1>2, <1>7, <1>22, <1>23, <3>1, <3>2, <3>4, <3>5, GaveUp
    <3>7. Line("client", s)' = {}
      BY <1>2, <1>7, <1>13, <1>19, ElementsOfNone DEF Line, AsNew
    <3>8. Agreed("client", s)'
      BY <1>1, <1>2, <1>7, <1>22, <1>23, <3>1, <3>2, <3>4, <3>5, <3>7, PeerGaveUp
    <3> QED
      BY <3>3, <3>6, <3>8
  <2> QED
    BY <2>1, <2>2
<1>25. Touches("server", s)
  <2>1. \A t \in Numbers \ {s} : Untouched("server", t)
    BY <1>3, <1>7, <1>9, <1>11, <1>2, <1>6, <1>19 DEF Has, Known, Numbers, Untouched, Alike,
       SameSending, SameReceiving
  <2>2. \A t \in Numbers \ {s}, d \in Ends :
          Arriving(d, t)' = Arriving(d, t) /\ News(d, t)' = News(d, t)
    BY <1>2, <1>19, <1>20
  <2> QED
    BY <1>2, <1>11, <1>23, <2>1, <2>2 DEF Touches
<1>26. \A d \in Ends : EndOk(d)'
  <2>1. EndOk("client") /\ EndOk("server")
    BY <1>1, <1>2 DEF Local
  <2>2. EndOk("server")'
    <3>1. \A g \in Elements(new.control) : g.type \notin Items
      <4>1. CASE Full(st)
        <5>1. Elements(Append(st.control, x)) = Elements(st.control) \cup {x}
          BY <1>3, ElementsOfAppend
        <5>2. x.type \notin Items
          BY <1>8 DEF Items
        <5> QED
          BY <1>9, <2>1, <4>1, <5>1, <5>2 DEF EndOk
      <4>2. CASE ~Full(st)
        BY <1>9, <2>1, <4>2 DEF EndOk
      <4> QED
        BY <4>1, <4>2
    <3>2. \A t \in new.streams : t <= new.highest
      BY <1>3, <1>7, <1>9, <2>1 DEF EndOk, Known, StateType, Numbers
    <3> QED
      BY <1>2, <1>9, <1>11, <1>14, <1>23, <2>1, <3>1, <3>2 DEF EndOk, Known
  <2>3. EndOk("client")'
    BY <1>2, <1>11, <1>14, <1>23, <2>1 DEF EndOk, Known
  <2> QED
    BY <1>2, <2>2, <2>3
<1>27. Opens'
  <2>1. st.highest <= state["client"].highest /\ ToClient /\ ToServer
    BY <1>1 DEF Opens
  <2>2. state'["server"].highest <= state'["client"].highest
    BY <1>7, <1>9, <1>11
  <2>3. ToClient'
    <3>1. \A g \in Chain("client") : g \in FrameType
      BY <1>1, <1>2, <1>3, ElementsIn DEF Chain, On, Due, TypeOK
    <3>2. ASSUME NEW g \in Chain("client")
          PROVE  g.type \notin {"open", "ping"} /\ g.stream <= s
      BY <1>3, <1>7, <2>1, <3>1, <3>2 DEF ToClient, FrameType, Numbers
    <3>3. x.type \notin {"open", "ping"} /\ x.stream <= s
      BY <1>7, <1>8 DEF Numbers
    <3> QED
      BY <1>9, <1>11, <1>18, <3>2, <3>3 DEF ToClient
  <2>4. ToServer'
    <3>1. /\ OpensRise(wire["server"])' /\ OpensRise(state["client"].control)'
          /\ OpensLast(wire["server"], state["client"].control)'
          /\ \A g \in On("server")' : g.type = "open" => s < g.stream
          /\ \A g \in Due("server") : g.type = "open" => s < g.stream
      BY <1>1, <1>4, <1>5, <1>11, <1>14, OpensAfterTaking
    <3>2. \A g \in Chain("server")' :
            /\ g \in Chain("server")
            /\ g.type = "open" => g.stream > s
      BY <1>17, <1>18, <3>1 DEF Chain
    <3>3. ASSUME reader["server"], NEW t \in Numbers, Known("client", t), ~(t <= s)
          PROVE  \E g \in Chain("server")' : g.type = "open" /\ g.stream = t
      BY <1>3, <1>7, <3>3, <2>1, <1>5, <1>18 DEF Known, Numbers, ToServer
    <3> QED
      BY <1>9, <1>11, <1>21, <1>23, <2>1, <3>1, <3>2, <3>3 DEF ToServer, Known
  <2> QED
    BY <2>2, <2>3, <2>4 DEF Opens
<1>28. Order'
  <2> SUFFICES ASSUME NEW d \in Ends, NEW t \in Numbers PROVE Ordered(d, t)'
    BY DEF Order
  <2>1. Ordered(d, t)
    BY <1>1 DEF Order
  <2>2. InOrder(wire[d], t)'
    <3>1. CASE d = "server"
      <4>1. wire["server"] \in Seq(FrameType)
        BY <1>1, <1>2 DEF TypeOK
      <4>2. InOrder(Tail(wire["server"]), t)
        BY <1>14, <2>1, <3>1, <4>1, InOrderLeaves DEF Ordered
      <4> QED
        BY <1>14, <3>1, <4>2
    <3>2. CASE d = "client"
      BY <1>14, <2>1, <3>2 DEF Ordered
    <3> QED
      BY <1>2, <3>1, <3>2
  <2> QED
    BY <1>19, <2>1, <2>2, Peers DEF Ordered
<1> QED
  BY <1>2, <1>7, <1>15, <1>16, <1>24, <1>25, <1>26, <1>27, <1>28, StepKeeps

-----------------------------------------------------------------------------
(* Every step.                                                             *)

(* A write takes at least a byte, and at most what is available.           *)
LEMMA TakenIs ==
    ASSUME NEW st \in StateType, NEW s \in Numbers, NEW rest \in Nat \ {0}, CanWrite(st, s)
    PROVE  /\ Taken(st, s, rest) \in Nat \ {0}
           /\ Taken(st, s, rest) <= Available(st, s)
<1>1. st.entry[s] \in EntryType
  BY DEF StateType
<1>2. st.entry[s].limit \in Nat /\ st.entry[s].sent \in Nat
  BY <1>1 DEF EntryType
<1>3. Available(st, s) \in Nat \ {0}
  BY <1>2 DEF CanWrite, Available, Larger
<1>4. MaxChunk \in Nat \ {0}
  BY StateAssumption
<1> QED
  BY <1>3, <1>4 DEF Taken, Smaller

(* A step that leaves the engine alone.                                    *)
LEMMA NoStepKeeps ==
    ASSUME SInv, UNCHANGED vars
    PROVE  SInv'
BY NothingKeeps DEF SInv, TypeOK, Ends, Set, vars

(* A holder writes, reads, finishes or resets its own Stream.              *)
LEMMA HoldKeeps ==
    ASSUME SInv, NEW e \in Ends, NEW s \in Numbers, Hold(e, s)
    PROVE  SInv'
<1>1. TypeOK /\ state[e] \in StateType
  BY DEF SInv, TypeOK
<1>2. ASSUME NEW rest \in setting.portions, Write(e, s, rest) PROVE SInv'
  <2>1. rest \in Nat \ {0}
    BY <1>1, StreamsAssumption DEF TypeOK, Setting
  <2>2. PICK size : size = Taken(state[e], s, rest)
    OBVIOUS
  <2>3. size \in Nat \ {0} /\ size <= Available(state[e], s)
    BY <1>1, <1>2, <2>1, <2>2, TakenIs DEF Write
  <2>4. /\ s \in held[e] /\ CanWrite(state[e], s)
        /\ Engine(e, Written(state[e], s, size))
        /\ wrote' = [wrote EXCEPT ![e][s] = @ + size]
    BY <1>2, <2>2 DEF Write, Uses, Engine
  <2> QED
    BY <2>3, <2>4, WriteKeeps
<1>3. CASE Read(e, s)
  BY <1>3, ReadKeeps DEF Read, Uses, Engine
<1>4. CASE Finish(e, s)
  BY <1>4, FinishKeeps DEF Finish, Uses, Engine
<1>5. CASE ResetStream(e, s)
  BY <1>5, ResetKeeps DEF ResetStream, Uses, Engine
<1>6. CASE Drop(e, s)
  BY <1>6, ReleaseKeeps DEF Drop
<1> QED
  BY <1>2, <1>3, <1>4, <1>5, <1>6 DEF Hold

(* A connection's own threads take a step.                                 *)
LEMMA ThreadsKeep ==
    ASSUME SInv, NEW e \in Ends, Close(e) \/ WriterStep(e) \/ ReaderStep(e) \/ Ping \/ Break
    PROVE  SInv'
<1>1. CASE Close(e)
  BY <1>1, ClosingKeeps
<1>2. CASE WriterStep(e)
  BY WriteControlKeeps, WriteDataKeeps, PassingKeeps, ClosingKeeps, WriteCloseKeeps, <1>2 DEF
     WriterStep
<1>3. CASE ReaderStep(e)
  BY ReceiveLastKeeps, ReceiveOpenKeeps, PongKeeps, ReceiveKeeps, ClosingKeeps, <1>3 DEF
     ReaderStep
<1>4. CASE Ping
  BY <1>4, PingKeeps
<1>5. CASE Break
  BY <1>5, PassingKeeps
<1> QED
  BY <1>1, <1>2, <1>3, <1>4, <1>5

(* Every step of the connection keeps the invariant.                       *)
LEMMA NextKeeps ==
    ASSUME SInv, [Next]_vars
    PROVE  SInv'
BY OpenKeeps, AcceptKeeps, RefuseKeeps, HoldKeeps, ThreadsKeep, Peers, NoStepKeeps DEF Accept,
   Refuse, Next

(* Nothing was opened yet.                                                 *)
LEMMA InitHolds ==
    ASSUME Init
    PROVE  SInv
<1>1. /\ \A e \in Ends : state[e] = NewState /\ held[e] = {} /\ wire[e] = <<>>
                         /\ reader[e] /\ writer[e]
      /\ \A e \in Ends, s \in Numbers : wrote[e][s] = 0
      /\ asked = {} /\ up = TRUE /\ pinged = 0 /\ setting \in Settings
  BY DEF Init
<1>2. NewEntry \in EntryType /\ AsNew(NewEntry)
  BY NewEntryType
<1>3. /\ NewState \in StateType /\ NewState.streams = {} /\ NewState.highest = 0
      /\ NewState.control = <<>> /\ NewState.closed = "no"
      /\ \A s \in Numbers : NewState.entry[s] = NewEntry
  BY <1>2 DEF NewState, StateType
<1>4. /\ \A e \in Ends : state[e].streams = {} /\ state[e].highest = 0
                         /\ state[e].control = <<>> /\ state[e].closed = "no"
      /\ \A e \in Ends, s \in Numbers : Entry(e, s) = NewEntry
  BY <1>1, <1>3 DEF Entry
<1>5. /\ \A e \in Ends : Chain(e) = {} /\ On(e) = {} /\ Due(e) = {}
      /\ \A e \in Ends, s \in Numbers :
           /\ Arriving(e, s) = {} /\ Line(e, s) = {} /\ News(e, s) = {} /\ Datas(e, s) = {}
           /\ ~FinOn(e, s) /\ ~FinDue(e, s) /\ Limits(e, s) = {} /\ ~Failing(e, s)
           /\ ~Known(e, s) /\ ~Has(e, s) /\ ~Gone(e, s)
  <2>1. \A e \in Ends : On(e) = {} /\ Due(e) = {} /\ Chain(e) = {}
    BY <1>1, <1>4, Peers, ElementsOfNone DEF On, Due, Chain
  <2>2. \A e \in Ends, s \in Numbers : Line(e, s) = {}
    BY <1>2, <1>4, Peers, ElementsOfNone DEF Line, AsNew
  <2>3. \A e \in Ends, s \in Numbers :
           Arriving(e, s) = {} /\ News(e, s) = {} /\ Datas(e, s) = {}
    BY <2>1, <2>2 DEF Arriving, News, Datas
  <2>4. \A e \in Ends, s \in Numbers :
           ~FinOn(e, s) /\ ~FinDue(e, s) /\ Limits(e, s) = {} /\ ~Failing(e, s)
    BY <2>2, <2>3 DEF FinOn, FinDue, Limits, Failing
  <2>5. \A e \in Ends, s \in Numbers : ~Known(e, s) /\ ~Has(e, s) /\ ~Gone(e, s)
    BY <1>4 DEF Known, Has, Gone, Numbers
  <2> QED
    BY <2>1, <2>2, <2>3, <2>4, <2>5
<1>6. TypeOK
  BY <1>1, <1>4, StreamsAssumption, <1>3, Peers DEF Init, TypeOK
<1>7. NoProtocolError
  BY <1>4 DEF NoProtocolError
<1>8. Local
  BY <1>1, <1>4, <1>5, ElementsOfNone, <1>2, AsNewIsSane DEF EndOk, EntryOk, Local
<1>9. Opens
  BY <1>1, <1>4, <1>5, Peers DEF OpensRise, OpensLast, Opens, ToClient, ToServer
<1>10. Order
  BY <1>1, <1>2, <1>4, Peers, InOrderNone, <1>5 DEF AsNew, Order, Ordered
<1>11. Agreement
  BY <1>1, <1>2, <1>4, <1>5, Peers, StateAssumption DEF Agreement, Live, AsNew, Credits,
     Everything, Finishes, Told, Given, Agreed
<1> QED
  BY <1>6, <1>7, <1>8, <1>9, <1>10, <1>11 DEF SInv

-----------------------------------------------------------------------------
(* What the invariant says to those that use the connection.               *)

(* Coming, in this module's words.                                         *)
LEMMA ComingIs ==
    ASSUME TypeOK, NEW e \in Ends, NEW s, NEW types
    PROVE  Coming(e, s, types) <=> \E f \in Chain(e) : f.stream = s /\ f.type \in types
<1>1. wire[e] \in Seq(FrameType) /\ state[Peer(e)].control \in Seq(FrameType)
  BY Peers DEF TypeOK, StateType
<1>2. /\ On(e) = {wire[e][i] : i \in DOMAIN wire[e]}
      /\ Due(e) = {state[Peer(e)].control[i] : i \in DOMAIN state[Peer(e)].control}
  BY <1>1 DEF Elements, On, Due
<1> QED
  BY <1>2 DEF Coming, Chain

(* The end of a Stream means all of it.                                    *)
LEMMA EndMeansAll ==
    ASSUME SInv
    PROVE  FinishMeansAll
BY DEF FinishMeansAll, SInv, TypeOK, StateType, Agreement, Agreed, Finishes, Entry

(* What one end gave up the other hears of.                                *)
LEMMA LossIsHeard ==
    ASSUME SInv
    PROVE  GivenUpIsHeard
<1> SUFFICES ASSUME Running, NEW e \in Ends, NEW s \in state[e].streams,
                    s \notin state[Peer(e)].streams \/ state[Peer(e)].entry[s].failed,
                    ~state[e].entry[s].failed
             PROVE  \/ Coming(Peer(e), s, {"open"})
                    \/ Coming(e, s, {"reset", "open_failed", "finish"})
                    \/ state[e].entry[s].peer_finished
  BY DEF GivenUpIsHeard
<1> DEFINE p == Peer(e)
<1>1. TypeOK /\ Local /\ Opens /\ Agreement /\ p \in Ends /\ state[e] \in StateType
      /\ s \in Numbers
  BY Peers DEF SInv, TypeOK, StateType
<1>2. Has(e, s) /\ Known(e, s) /\ Live(e, s)
  BY <1>1, HasKnown DEF Has, Live, Entry
<1>3. CASE Live(p, s)
  <2>1. ~Known(p, s)
    BY <1>3 DEF Live, Gone, Has, Entry
  <2>2. e = "client" /\ p = "server"
    <3>1. CASE e = "server"
      <4>1. p = "client" /\ state["server"].highest <= state["client"].highest
        BY <1>1, <3>1, Peers DEF Opens
      <4>2. \A c \in StateType : c.highest \in Nat
        BY StateAssumption DEF StateType, Numbers
      <4>3. state["server"].highest \in Nat /\ state["client"].highest \in Nat
        BY <1>1, <4>2, Peers DEF TypeOK
      <4> QED
        BY <1>1, <1>2, <2>1, <3>1, <4>1, <4>3 DEF Known, Numbers
    <3> QED
      BY <3>1, Peers DEF Ends
  <2>3. reader["server"]
    BY <1>1, Peers DEF Local, EndOk, Running
  <2>4. \E f \in Chain(p) : f.type = "open" /\ f.stream = s
    BY <1>1, <1>2, <2>1, <2>2, <2>3 DEF Opens, ToServer
  <2> QED
    BY <1>1, <2>4, ComingIs
<1>4. CASE ~Live(p, s)
  BY <1>1, <1>2, <1>4, ComingIs DEF Agreement, Agreed, Told, Failing, News, GiveUp, FinOn,
     Arriving, Chain, Entry
<1> QED
  BY <1>3, <1>4

(* A write waits for credit only while some is to come.                    *)
LEMMA CreditIsDue ==
    ASSUME SInv
    PROVE  CreditComes
<1> SUFFICES ASSUME Running, NEW e \in Ends, NEW s \in held[e],
                    ~state[e].entry[s].failed, ~state[e].entry[s].finish_queued,
                    state[e].entry[s].sent = state[e].entry[s].limit,
                    ~Sending(e, s), state[Peer(e)].entry[s].inbound = <<>>,
                    ~Coming(e, s, {"credit", "reset", "open_failed"})
             PROVE  FALSE
  BY DEF CreditComes
<1> DEFINE p == Peer(e)
           mine == Entry(e, s)
           its == Entry(p, s)
<1>1. TypeOK /\ Local /\ Agreement /\ p \in Ends /\ Peer(p) = e /\ state[e] \in StateType
      /\ s \in state[e].streams /\ s \in Numbers
  BY Peers DEF SInv, TypeOK, StateType
<1>2. Has(e, s) /\ ~Gone(e, s) /\ Live(e, s) /\ ~mine.failed /\ ~mine.finish_queued
      /\ mine.sent = mine.limit /\ mine.outgoing = <<>> /\ its.inbound = <<>>
  BY <1>1, HasKnown DEF Has, Live, Entry, Sending
<1>3. Agreed(e, s) /\ Agreed(p, s) /\ EntryOk(e, s) /\ EntryOk(p, s)
  BY <1>1 DEF Agreement, Local
<1>4. ~Failing(e, s) /\ Limits(e, s) = {}
  BY <1>1, ComingIs DEF Failing, Limits, News, GiveUp
<1>5. Datas(p, s) = {}
  BY <1>1, ComingIs, <1>2, ElementsOfNone DEF Sending, Line, Datas, Arriving, Chain
<1>6. Live(p, s)
  BY <1>2, <1>3, <1>4 DEF Agreed, Told
<1>7. reader[p]
  BY <1>1 DEF Local, EndOk, Running
<1>8. wrote[e][s] = its.received
  BY <1>1, <1>2, <1>3, <1>5, <1>6, <1>7 DEF Agreed, Everything, Lasts
<1>9. mine.limit = its.announced
  BY <1>1, <1>2, <1>3, <1>4, <1>6 DEF Agreed, Given, Live
<1>10. its.announced = its.received
  BY <1>2, <1>3, <1>8, <1>9 DEF EntryOk
<1>11. ~its.peer_finished
  BY <1>1, <1>2, <1>3 DEF Agreed, Finishes
<1>12. its.handle_alive
  BY <1>3, <1>6, <1>11 DEF EntryOk, Sane, Complete, Live
<1>13. its.consumed = its.received
  BY <1>2, <1>3, <1>12 DEF EntryOk, Sane, Unread
<1>14. its.announced > its.consumed
  BY <1>3, <1>11 DEF EntryOk, Sane
<1>15. its.announced \in Nat
  BY <1>1, EntryIn
<1> QED
  BY <1>10, <1>13, <1>14, <1>15

-----------------------------------------------------------------------------
(* The threads of the transfers use their Streams as any holder may, and   *)
(* hold them while they do.                                                *)

Threads ==
    /\ job \in [Ends -> [Numbers -> Stages]]
    /\ temp \in [Numbers -> Nat \cup {NoFile}] /\ placed \in [Numbers -> Nat \cup {NoFile}]
    /\ cancelled \in [Numbers -> BOOLEAN]
    /\ reported \in [Numbers -> {"none", "ok", "failed"}]
    /\ \A e \in Ends, s \in Numbers : job[e][s] \notin {"idle", "gone"} => s \in held[e]
TInv == SInv /\ Threads /\ Jobs

(* A thread that has a Stream goes on to its next place.                   *)
LEMMA ThreadGoes ==
    ASSUME Threads, Jobs, NEW e \in Ends, NEW s \in Numbers, IsTransfer(s), NEW stage \in Stages,
           Go(e, s, stage), UNCHANGED setting,
           stage # "gone" => s \in held'[e],
           \A d \in Ends, t \in Numbers : t \in held[d] => t \in held'[d] \/ (d = e /\ t = s),
           temp' \in [Numbers -> Nat \cup {NoFile}], placed' \in [Numbers -> Nat \cup {NoFile}],
           cancelled' \in [Numbers -> BOOLEAN],
           reported' \in [Numbers -> {"none", "ok", "failed"}]
    PROVE  Threads' /\ Jobs'
BY DEF Threads, Go, IsTransfer, Jobs

(* Threads stay where they are and keep their Streams.                     *)
LEMMA ThreadStays ==
    ASSUME Threads, Jobs, UNCHANGED <<job, setting>>,
           \A d \in Ends, t \in Numbers : t \in held[d] => t \in held'[d] \/ ~IsTransfer(t),
           temp' \in [Numbers -> Nat \cup {NoFile}], placed' \in [Numbers -> Nat \cup {NoFile}],
           cancelled' \in [Numbers -> BOOLEAN],
           reported' \in [Numbers -> {"none", "ok", "failed"}]
    PROVE  Threads' /\ Jobs'
BY DEF Threads, Jobs, IsTransfer

(* A thread's step that leaves the engine and its own place as they are.   *)
LEMMA ThreadIdles ==
    ASSUME TInv, NEW e \in Ends, NEW s \in Numbers, IsTransfer(s), NEW stage \in Stages,
           s \in held[e], Go(e, s, stage), UNCHANGED vars,
           temp' \in [Numbers -> Nat \cup {NoFile}], placed' \in [Numbers -> Nat \cup {NoFile}],
           cancelled' \in [Numbers -> BOOLEAN],
           reported' \in [Numbers -> {"none", "ok", "failed"}]
    PROVE  TInv'
BY NoStepKeeps, ThreadGoes DEF TInv, vars

(* What the Client reports is of its type.                                 *)
LEMMA ReportedIs ==
    ASSUME Threads, NEW e, NEW s \in Numbers
    PROVE  /\ Ok(e, s) => reported' \in [Numbers -> {"none", "ok", "failed"}]
           /\ Fails(e, s) => /\ Go(e, s, "leaving")
                             /\ reported' \in [Numbers -> {"none", "ok", "failed"}]
BY DEF Threads, Ok, Fails

(* A transfer has an end that sends and one that receives.                 *)
LEMMA SidesIn ==
    ASSUME TypeOK, NEW s \in Numbers
    PROVE  /\ Sender(s) \in Ends /\ Receiver(s) \in Ends /\ Receiver(s) = Peer(Sender(s))
           /\ Size(s) \in Nat
BY StreamsAssumption, Peers DEF Sender, Ends, TypeOK, Setting, Receiver, Size

(* The Client opens a Stream for a transfer.                               *)
LEMMA OpenTransferKeeps ==
    ASSUME TInv, OpenTransfer
    PROVE  TInv'
<1>1. SInv /\ Threads /\ Jobs /\ TypeOK
  BY DEF TInv, SInv
<1>2. PICK s : s = state["client"].highest + 1
  OBVIOUS
<1>3. /\ s \in Numbers /\ Open
      /\ IF IsTransfer(s)
         THEN Go("client", s, IF Sender(s) = "client" THEN "writing" ELSE "opening")
         ELSE UNCHANGED job
      /\ UNCHANGED <<temp, placed, cancelled, reported>>
  BY <1>2 DEF OpenTransfer
<1>4. SInv'
  BY <1>1, <1>3, OpenKeeps
<1>5. held' = [held EXCEPT !["client"] = @ \cup {s}] /\ UNCHANGED setting
  BY <1>2, <1>3 DEF Open
<1>6. /\ \A d \in Ends, t \in Numbers : t \in held[d] => t \in held'[d]
      /\ s \in held'["client"]
  BY <1>1, <1>5, Peers DEF TypeOK
<1>7. /\ temp' \in [Numbers -> Nat \cup {NoFile}] /\ placed' \in [Numbers -> Nat \cup {NoFile}]
      /\ cancelled' \in [Numbers -> BOOLEAN]
      /\ reported' \in [Numbers -> {"none", "ok", "failed"}]
  BY <1>1, <1>3 DEF Threads
<1>8. Threads' /\ Jobs'
  BY <1>3, <1>1, <1>5, <1>6, <1>7, Peers, ThreadGoes, ThreadStays DEF Stages
<1> QED
  BY <1>4, <1>8 DEF TInv

(* The Server's worker answers, or fails before it does.                   *)
LEMMA WorkerKeeps ==
    ASSUME TInv, NEW s \in Numbers, AcceptTransfer(s) \/ RefuseTransfer(s) \/ WorkerFails(s)
    PROVE  TInv'
<1>1. SInv /\ Threads /\ Jobs /\ TypeOK /\ "server" \in Ends
  BY Peers DEF TInv, SInv
<1>2. IsTransfer(s) /\ s \in asked /\ s \in held["server"]
  BY <1>1 DEF AcceptTransfer, RefuseTransfer, WorkerFails, Accept, Refuse, Answer, TypeOK
<1>3. /\ placed' \in [Numbers -> Nat \cup {NoFile}] /\ cancelled' \in [Numbers -> BOOLEAN]
      /\ reported' \in [Numbers -> {"none", "ok", "failed"}]
      /\ temp' \in [Numbers -> Nat \cup {NoFile}]
  BY <1>1 DEF Threads, AcceptTransfer, RefuseTransfer, WorkerFails
<1>4. CASE AcceptTransfer(s)
  BY <1>1, <1>4, AcceptKeeps, <1>2, <1>3, ThreadGoes DEF AcceptTransfer, Accept, Answer, Stages,
     TInv
<1>5. CASE RefuseTransfer(s)
  BY <1>1, <1>5, RefuseKeeps, <1>2, <1>3, ThreadGoes DEF RefuseTransfer, Refuse, Answer, Stages,
     TInv
<1>6. CASE WorkerFails(s)
  BY <1>6, <1>1, ReleaseKeeps, <1>2, <1>3, ThreadGoes DEF WorkerFails, Release, TypeOK, Stages,
     TInv
<1> QED
  BY <1>4, <1>5, <1>6

(* A thread leaves, and its Stream with it.                                *)
LEMMA LeaveKeeps ==
    ASSUME TInv, NEW e \in Ends, NEW s \in Numbers, Leave(e, s)
    PROVE  TInv'
<1>1. SInv /\ Threads /\ Jobs /\ TypeOK
  BY DEF TInv, SInv
<1>2. IsTransfer(s) /\ Release(e, s) /\ Go(e, s, "gone")
  BY DEF Leave, At
<1>3. SInv'
  BY <1>1, <1>2, ReleaseKeeps
<1>4. held' = [held EXCEPT ![e] = @ \ {s}] /\ setting' = setting
  BY <1>2 DEF Release
<1>5. \A d \in Ends, t \in Numbers : t \in held[d] => t \in held'[d] \/ (d = e /\ t = s)
  BY <1>1, <1>4 DEF TypeOK
<1>6. /\ placed' \in [Numbers -> Nat \cup {NoFile}] /\ cancelled' \in [Numbers -> BOOLEAN]
      /\ reported' \in [Numbers -> {"none", "ok", "failed"}]
      /\ temp' \in [Numbers -> Nat \cup {NoFile}]
  BY <1>1 DEF Threads, Leave
<1>7. "gone" \in Stages
  BY DEF Stages
<1>8. Threads' /\ Jobs'
  BY <1>1, <1>2, <1>4, <1>5, <1>6, <1>7, ThreadGoes
<1> QED
  BY <1>3, <1>8 DEF TInv

(* The threads that write, read and finish.                                *)
LEMMA SendKeeps ==
    ASSUME TInv, NEW s \in Numbers, Send(s)
    PROVE  TInv'
<1>1. SInv /\ Threads /\ Jobs /\ TypeOK
  BY DEF TInv, SInv
<1>2. PICK e \in Ends : e = Sender(s)
  BY <1>1, SidesIn
<1>3. PICK rest : rest = Size(s) - wrote[e][s]
  OBVIOUS
<1>4. PICK size : size = Taken(state[e], s, rest)
  OBVIOUS
<1>5. /\ At(e, s, "writing") /\ wrote[e][s] < Size(s) /\ CanWrite(state[e], s)
      /\ Engine(e, Written(state[e], s, size))
      /\ wrote' = [wrote EXCEPT ![e][s] = @ + size]
      /\ UNCHANGED jobVars
  BY <1>2, <1>3, <1>4 DEF Send
<1>6. rest \in Nat \ {0}
  BY <1>1, <1>2, <1>3, <1>5, SidesIn DEF TypeOK
<1>7. size \in Nat \ {0} /\ size <= Available(state[e], s)
  BY <1>1, <1>4, <1>5, <1>6, TakenIs DEF TypeOK
<1>8. s \in held[e]
  BY <1>1, <1>5 DEF Threads, At
<1>9. SInv'
  BY <1>1, <1>5, <1>7, <1>8, WriteKeeps
<1>10. UNCHANGED <<job, temp, placed, cancelled, reported, held, setting>>
  BY <1>5 DEF jobVars, Engine
<1>11. Threads' /\ Jobs'
  BY <1>1, <1>10, ThreadStays DEF Threads
<1> QED
  BY <1>9, <1>11 DEF TInv

(* The thread that receives reads a chunk into its file.                   *)
LEMMA ReceiveChunkKeeps ==
    ASSUME TInv, NEW s \in Numbers, ReceiveChunk(s)
    PROVE  TInv'
<1>1. SInv /\ Threads /\ Jobs /\ TypeOK
  BY DEF TInv, SInv
<1>2. PICK e \in Ends : e = Receiver(s)
  BY <1>1, SidesIn
<1>3. /\ At(e, s, "reading") /\ ReadResult(state[e], s) = "chunk"
      /\ Engine(e, ReadChunk(state[e], s))
      /\ temp' = [temp EXCEPT ![s] = @ + Head(state[e].entry[s].inbound).size]
      /\ UNCHANGED <<wrote, job, placed, cancelled, reported>>
  BY <1>2 DEF ReceiveChunk
<1>4. s \in held[e]
  BY <1>1, <1>3 DEF Threads, At
<1>5. SInv'
  BY <1>1, <1>3, <1>4, ReadKeeps
<1>6. Head(state[e].entry[s].inbound).size \in Nat
  <2>1. Entry(e, s).inbound \in Seq(Chunk)
    BY <1>1, EntryIn
  <2>2. Entry(e, s).inbound # <<>>
    BY <1>3 DEF ReadResult, Entry
  <2>3. Head(Entry(e, s).inbound) \in Chunk
    BY <2>1, <2>2
  <2> QED
    BY <2>3 DEF Chunk, Entry
<1>7. temp' \in [Numbers -> Nat \cup {NoFile}]
  <2>1. PICK size \in Nat : size = Head(state[e].entry[s].inbound).size
    BY <1>6
  <2>2. temp \in [Numbers -> Nat \cup {-1}]
    BY <1>1 DEF Threads, NoFile
  <2>3. temp[s] + size \in Nat \cup {-1}
    BY <2>1, <2>2
  <2>4. temp' = [temp EXCEPT ![s] = temp[s] + size]
    BY <1>3, <2>1
  <2> QED
    BY <2>2, <2>3, <2>4 DEF NoFile
<1>8. held' = held /\ setting' = setting
  BY <1>3 DEF Engine
<1>9. Threads' /\ Jobs'
  BY <1>1, <1>3, <1>7, <1>8, ThreadStays DEF Threads
<1> QED
  BY <1>5, <1>9 DEF TInv

(* A thread finishes its direction.                                        *)
LEMMA EndingKeeps ==
    ASSUME TInv, NEW s \in Numbers, SendEnds(s) \/ Place(s)
    PROVE  TInv'
BY SidesIn, FinishKeeps, ReportedIs, ThreadGoes DEF TInv, SInv, SendEnds, Place, Stages, Threads,
   At, Engine

(* The steps of a thread that only look at its Stream.                     *)
LEMMA LookingKeeps ==
    ASSUME TInv, NEW s \in Numbers,
           \/ Opened(s) \/ NotOpened(s) \/ SendFails(s) \/ Confirmed(s) \/ NotConfirmed(s)
           \/ ReceiveEnds(s) \/ ReceiveFails(s)
    PROVE  TInv'
<1>1. SInv /\ Threads /\ Jobs /\ TypeOK
  BY DEF TInv, SInv
<1>2. PICK e \in Ends, stage \in Stages \ {"idle", "gone"}, next \in Stages :
        At(e, s, stage) /\ Go(e, s, next)
  BY <1>1, SidesIn, Peers
     DEF Opened, NotOpened, SendFails, Confirmed, NotConfirmed, ReceiveEnds, ReceiveFails,
         Fails, Stages
<1>3. s \in held[e] /\ IsTransfer(s)
  BY <1>1, <1>2 DEF Threads, At
<1>4. UNCHANGED vars
  BY DEF Opened, NotOpened, SendFails, Confirmed, NotConfirmed, ReceiveEnds, ReceiveFails
<1>5. /\ placed' \in [Numbers -> Nat \cup {NoFile}] /\ cancelled' \in [Numbers -> BOOLEAN]
      /\ temp' \in [Numbers -> Nat \cup {NoFile}]
  BY <1>1
     DEF Threads, Opened, NotOpened, SendFails, Confirmed, NotConfirmed, ReceiveEnds, ReceiveFails
<1>6. reported' \in [Numbers -> {"none", "ok", "failed"}]
  BY <1>1, ReportedIs
     DEF Threads, Opened, NotOpened, SendFails, Confirmed, NotConfirmed, ReceiveEnds, ReceiveFails
<1> QED
  BY <1>2, <1>3, <1>4, <1>5, <1>6, ThreadIdles

(* A file that fails, and a person who cancels.                            *)
LEMMA StoppingKeeps ==
    ASSUME TInv, NEW s \in Numbers, (\E e \in Ends : FileFails(e, s)) \/ Cancel(s)
    PROVE  TInv'
<1>1. SInv /\ Threads /\ Jobs /\ TypeOK
  BY DEF TInv, SInv
<1>2. ASSUME NEW e \in Ends, FileFails(e, s) PROVE TInv'
  BY <1>2, <1>1, ResetKeeps, ReportedIs, ThreadGoes DEF FileFails, Threads, GoesOnWithFile,
     Engine, Stages, TInv
<1>3. CASE Cancel(s)
  BY <1>3, <1>1, Peers, ResetKeeps, ThreadStays DEF Cancel, Threads, Engine, TInv
<1> QED
  BY <1>2, <1>3

(* The holders of forwards.                                                *)
LEMMA ForwardKeeps ==
    ASSUME TInv, NEW s \in Numbers, ForwardStep(s), UNCHANGED jobVars
    PROVE  TInv'
<1>1. SInv /\ Threads /\ Jobs /\ TypeOK
  BY DEF TInv, SInv
<1>2. ~IsTransfer(s)
  BY DEF ForwardStep
<1>3. /\ \A d \in Ends, t \in Numbers : t \in held[d] => t \in held'[d] \/ t = s
      /\ setting' = setting /\ SInv'
  <2>1. CASE Accept(s)
    BY <1>1, <2>1, AcceptKeeps DEF Accept, Answer
  <2>2. CASE Refuse(s)
    BY <1>1, <2>2, RefuseKeeps DEF Refuse, Answer
  <2>3. ASSUME NEW e \in Ends, Hold(e, s)
        PROVE  /\ \A d \in Ends, t \in Numbers : t \in held[d] => t \in held'[d] \/ t = s
               /\ setting' = setting /\ SInv'
    BY <1>1, <2>3, HoldKeeps DEF Drop, Release, TypeOK, Hold, Write, Read, Finish, ResetStream
  <2> QED
    BY <2>1, <2>2, <2>3 DEF ForwardStep
<1>4. UNCHANGED <<job, temp, placed, cancelled, reported>>
  BY DEF jobVars
<1>5. Threads' /\ Jobs'
  BY <1>1, <1>2, <1>3, <1>4, ThreadStays DEF Threads
<1> QED
  BY <1>3, <1>5 DEF TInv

(* The connection's own steps leave the threads alone.                     *)
LEMMA ConnectionKeeps ==
    ASSUME TInv, ConnectionStep, UNCHANGED jobVars
    PROVE  TInv'
<1>1. SInv /\ Threads /\ Jobs /\ TypeOK
  BY DEF TInv, SInv
<1>2. PICK e \in Ends : Close(e) \/ WriterStep(e) \/ ReaderStep(e) \/ Ping \/ Break
  BY Peers DEF ConnectionStep
<1>3. SInv'
  BY <1>1, <1>2, ThreadsKeep
<1>4. /\ setting' = setting
      /\ \A d \in Ends, t \in Numbers : t \in held[d] => t \in held'[d]
  <2>1. CASE ReaderStep(e) /\ ReceiveOpen
    <3>1. setting' = setting
      BY <2>1 DEF ReceiveOpen
    <3>2. \/ held' = held
          \/ \E n : held' = [held EXCEPT !["server"] = @ \cup {n}]
      BY <2>1 DEF ReceiveOpen
    <3>3. held \in [Ends -> SUBSET Numbers]
      BY <1>1 DEF TypeOK
    <3>4. \A d \in Ends, t \in Numbers : t \in held[d] => t \in held'[d]
      BY <3>3, <3>2
    <3> QED
      BY <3>1, <3>4
  <2>2. CASE ~(ReaderStep(e) /\ ReceiveOpen)
    BY <1>2, <2>2
       DEF Close, WriterStep, WriteControl, WriteData, Writes, PassStale, WriteFails, WriteClose,
           ReaderStep, ReceiveLast, ReceivePing, Receive, ReaderEnds, Ping, Break
  <2> QED
    BY <2>1, <2>2
<1>5. UNCHANGED <<job, temp, placed, cancelled, reported>>
  BY DEF jobVars
<1>6. Threads' /\ Jobs'
  BY <1>1, <1>4, <1>5, ThreadStays DEF Threads
<1> QED
  BY <1>3, <1>6 DEF TInv

(* Every step of a transfer, a forward or the connection keeps it.         *)
LEMMA TNextKeeps ==
    ASSUME TInv, [TNext]_allVars
    PROVE  TInv'
<1>1. CASE OpenTransfer
  BY <1>1, OpenTransferKeeps
<1>2. ASSUME NEW s \in Numbers, TransferStep(s) PROVE TInv'
  BY WorkerKeeps, LookingKeeps, SendKeeps, EndingKeeps, ReceiveChunkKeeps, LeaveKeeps,
     StoppingKeeps, <1>2 DEF ThreadStep, TransferStep
<1>3. CASE UNCHANGED jobVars /\ ConnectionStep
  BY <1>3, ConnectionKeeps
<1>4. ASSUME UNCHANGED jobVars, NEW s \in Numbers, ForwardStep(s) PROVE TInv'
  BY <1>4, ForwardKeeps
<1>5. CASE UNCHANGED allVars
  BY <1>5, NoStepKeeps, ThreadStays DEF allVars, jobVars, vars, TInv, Threads
<1> QED
  BY <1>1, <1>2, <1>3, <1>4, <1>5 DEF TNext

(* No thread has begun.                                                    *)
LEMMA TInitHolds ==
    ASSUME TInit
    PROVE  TInv
BY InitHolds DEF TInit, Threads, Stages, NoFile, Jobs, TInv

-----------------------------------------------------------------------------
(* Whatever its users do, which the holders of every Stream may: no end of *)
(* a Stream connection takes the other for one that violates the protocol  *)
(* (receive, credit, live_entry), a Finish means that every byte arrived,  *)
(* a write that waits waits for something (read's Credit), and what one    *)
(* end gives up the other hears of (reset_entry, refuse, Stream::drop).    *)
THEOREM ConnectionsAgree ==
    Spec => [](TypeOK /\ NoProtocolError /\ FinishMeansAll /\ CreditComes /\ GivenUpIsHeard)
<1>1. Init => SInv
  BY InitHolds
<1>2. SInv /\ [Next]_vars => SInv'
  BY NextKeeps
<1>3. SInv => TypeOK /\ NoProtocolError /\ FinishMeansAll /\ CreditComes /\ GivenUpIsHeard
  BY EndMeansAll, CreditIsDue, LossIsHeard DEF SInv
<1> QED
  BY <1>1, <1>2, <1>3, PTL DEF Spec

(* The same of a connection that carries file transfers and forwards       *)
(* (transfer.rs, server/streams.rs), whose threads hold the Streams they   *)
(* use until they leave.                                                   *)
THEOREM EndsAlwaysAgree == TSpec => []EndsAgree
<1>1. TInit => TInv
  BY TInitHolds
<1>2. TInv /\ [TNext]_allVars => TInv'
  BY TNextKeeps
<1>3. TInv => EndsAgree
  BY EndMeansAll, CreditIsDue, LossIsHeard DEF TInv, SInv, Threads, TTypeOK, EndsAgree
<1> QED
  BY <1>1, <1>2, <1>3, PTL DEF TSpec
=============================================================================
