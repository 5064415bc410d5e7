--------------------------- MODULE TransfersProofs ---------------------------
(***************************************************************************)
(* What a transfer puts in place is whole, for any window, chunk, number   *)
(* of Streams and setting.                                                 *)
(***************************************************************************)
EXTENDS StreamsProofs

(* On the transport nothing of a Stream follows the word that it failed.   *)
NoneBehind(q) ==
    \A i, j \in 1 .. Len(q) :
        i < j /\ q[i].type \in GiveUp /\ q[j].stream = q[i].stream => q[j].type \notin Items
NothingBehind == \A e \in Ends : NoneBehind(wire[e])

(* End e's Finish: said, on its way, or heard.                             *)
Ended(e, s) ==
    \/ FinOn(Peer(e), s) \/ FinDue(Peer(e), s)
    \/ Entry(Peer(e), s).peer_finished \/ Entry(e, s).finish_queued

(* What end e, which did not give the Stream up itself, has heard of it:   *)
(* that it failed, with nothing more to come, or all of it.                *)
Heard(e, s) ==
    LET p == Peer(e)  mine == Entry(e, s) IN
    /\ mine.handle_alive
    /\ mine.failed /\ ~mine.peer_finished => ~Live(p, s) /\ Arriving(e, s) = {}
    /\ mine.peer_finished => mine.received = wrote[p][s]

(* Who cancels a download does not mind what becomes of it.                *)
Stopped(s) == Receiver(s) = "client" /\ cancelled[s]

(* The receiving thread: before it reads; while it does, and its file has  *)
(* what it read; when it has read all.                                     *)
Early(s) ==
    LET b == Receiver(s) IN job[b][s] = "opening" \/ (b = "server" /\ s \in asked)
Hearing(s) ==
    LET b == Receiver(s)  stage == job[b][s] IN
    /\ ~Stopped(s) =>
         /\ Early(s) => Heard(b, s) /\ Entry(b, s).consumed = 0
         /\ stage = "reading" => Heard(b, s) /\ temp[s] = Entry(b, s).consumed
    /\ stage \in {"reading", "placing"} => temp[s] # NoFile
    /\ stage = "placing" => Stopped(s) \/ temp[s] = Size(s)
Starts(s) ==
    /\ job["client"][s] = "opening" => Receiver(s) = "client"
    /\ s \in asked => job["server"][s] \in {"idle", "gone"}

Kept(s) == placed[s] # NoFile => Stopped(s) \/ placed[s] = Size(s)
Whole(s) ==
    LET a == Sender(s)  b == Receiver(s) IN
    /\ Ended(a, s) => wrote[a][s] = Size(s)
    /\ Ended(b, s) => placed[s] # NoFile
    /\ Starts(s) /\ Hearing(s) /\ Kept(s)
    /\ reported[s] = "ok" => placed[s] # NoFile
Rests(s) == placed[s] = NoFile /\ reported[s] = "none"
AllWhole == \A s \in Numbers : IF IsTransfer(s) THEN Whole(s) ELSE Rests(s)
WholeInv == TInv /\ NothingBehind /\ AllWhole

(* A step in which end e of Stream s hears what its peer had said;         *)
(* in which it says no end of its own;                                     *)
(* in which it fails only with its peer; in which its holder reads on.     *)
Comes(e, s) == \A f \in Arriving(e, s)' : f \in Arriving(e, s) \/ f \in Line(e, s)
Reaches(e, s) ==
    LET p == Peer(e)  a == Entry(e, s)  b == Entry(e, s)' IN
    /\ Comes(e, s)
    /\ b.peer_finished => a.peer_finished \/ FinOn(e, s)
    /\ a.peer_finished /\ b.peer_finished => b.received = a.received /\ wrote'[p][s] = wrote[p][s]
    /\ ~Live(p, s) => ~Live(p, s)'
Fin(q) == \E f \in Elements(q) : f.type = "finish"
SaysNoEnd(e, s) ==
    LET a == Entry(e, s)  b == Entry(e, s)' IN
    (b.finish_queued => a.finish_queued) /\ (Fin(b.outgoing) => Fin(a.outgoing))
KeepsUp(e, s) ==
    LET p == Peer(e)  a == Entry(e, s)  b == Entry(e, s)' IN
    b.failed => \/ a.failed
                \/ ~Live(p, s) /\ Arriving(e, s)' = {} /\ (b.peer_finished => a.peer_finished)
GoesOn(e, s) ==
    LET a == Entry(e, s)  b == Entry(e, s)' IN
    a.handle_alive =>
        b.handle_alive /\ b.consumed = a.consumed /\ (a.peer_finished => b.peer_finished)

(* What end d leaves of all that where it does something with the Stream;  *)
(* and a step in which no end does.                                        *)
Half(d, s) ==
    LET p == Peer(d) IN
    (\A e \in Ends : Reaches(e, s)) /\ SaysNoEnd(p, s) /\ KeepsUp(p, s) /\ GoesOn(p, s)
Calm(s) ==
    \A e \in Ends : /\ Reaches(e, s) /\ SaysNoEnd(e, s) /\ KeepsUp(e, s) /\ GoesOn(e, s)
                    /\ wrote'[e][s] = wrote[e][s]

(* What is in a Stream's own queue of an end that failed it, or has it no  *)
(* more: nothing.                                                          *)
LEMMA DeadLine ==
    ASSUME Local, NEW e \in Ends, NEW s \in Numbers, ~Live(Peer(e), s)
    PROVE  Line(e, s) = {}
BY Peers, ElementsOfNone DEF Local, EntryOk, Live, Gone, AsNew, Sane, Line

(* An end that heard all goes on to have heard all.                        *)
LEMMA HeardKept ==
    ASSUME SInv, SInv', NEW e \in Ends, NEW s \in Numbers, Heard(e, s),
           Reaches(e, s), KeepsUp(e, s),
           Entry(e, s).handle_alive => Entry(e, s)'.handle_alive,
           Entry(e, s).peer_finished => Entry(e, s)'.peer_finished
    PROVE  Heard(e, s)'
BY Peers, DeadLine DEF Heard, Reaches, KeepsUp, SInv, Comes, FinOn, Agreement, Agreed, Finishes

(* No end is said but by who says it.                                      *)
LEMMA EndedKept ==
    ASSUME NEW e \in Ends, NEW s \in Numbers, Reaches(Peer(e), s), SaysNoEnd(e, s), Ended(e, s)'
    PROVE  Ended(e, s)
BY Peers DEF Line, FinDue, SaysNoEnd, Fin, FinOn, Reaches, Comes, Ended

(* A dead Stream stays so: it is never in the table again, and an entry    *)
(* that failed stays failed or leaves the table.                           *)
LEMMA StaysDead ==
    ASSUME NEW e \in Ends, NEW s, Known(e, s) => Known(e, s)', Has(e, s)' => Has(e, s) \/ ~Known(e, s),
           Entry(e, s).failed => Entry(e, s)'.failed \/ (Known(e, s) /\ ~Has(e, s)')
    PROVE  ~Live(e, s) => ~Live(e, s)'
BY DEF Live, Gone

(* A step of end d, as far as it goes for any step of one end.             *)
LEMMA HalfIs ==
    ASSUME NEW d \in Ends, NEW s \in Numbers, NEW p, p = Peer(d),
           state'[p] = state[p], wrote'[p][s] = wrote[p][s],
           \A e \in Ends : Comes(e, s),
           NEW a, NEW b, a = Entry(d, s), b = Entry(d, s)',
           b.peer_finished => a.peer_finished \/ FinOn(d, s),
           a.peer_finished /\ b.peer_finished => b.received = a.received,
           ~Live(d, s) => ~Live(d, s)',
           Entry(p, s).peer_finished => wrote'[d][s] = wrote[d][s]
    PROVE  Half(d, s)
BY Peers DEF Entry, Live, Gone, Known, Has, Reaches, SaysNoEnd, KeepsUp, GoesOn, Half

(* The other half: at end d the Stream's entry went from a to b.           *)
Quieter(a, b) ==
    /\ b.peer_finished => a.peer_finished /\ b.received = a.received
    /\ b.finish_queued => a.finish_queued
    /\ Fin(b.outgoing) => Fin(a.outgoing)
    /\ b.failed => a.failed
    /\ a.handle_alive =>
         b.handle_alive /\ b.consumed = a.consumed /\ (a.peer_finished => b.peer_finished)
(* A Stream whose entries are no louder than they were is calm;            *)
LEMMA CalmIs ==
    ASSUME NEW d \in Ends, NEW s \in Numbers, NEW p, p = Peer(d),
           state'[p] = state[p], \A e \in Ends : wrote'[e][s] = wrote[e][s],
           \A e \in Ends : Comes(e, s),
           Quieter(Entry(d, s), Entry(d, s)'), ~Live(d, s) => ~Live(d, s)'
    PROVE  Calm(s)
BY Peers, HalfIs DEF Quieter, SaysNoEnd, KeepsUp, GoesOn, Half, Calm

(* an entry that did not change is,                                        *)
LEMMA AlikeIsQuieter ==
    ASSUME NEW a, NEW b, Alike(a, b)
    PROVE  Quieter(a, b)
BY DEF Alike, SameSending, SameReceiving, Quieter

(* and one that left the table after its handle.                           *)
LEMMA NewIsQuieter ==
    ASSUME NEW a, NEW b, AsNew(b), ~a.handle_alive
    PROVE  Quieter(a, b)
BY ElementsOfNone DEF Fin, AsNew, Quieter

(* A step of end d on one Stream leaves the others alone.                  *)
LEMMA OthersAreCalm ==
    ASSUME SInv, NEW d \in Ends, NEW t, NEW new \in StateType, Set(d, new),
           new.highest = state[d].highest, OtherEntries(state[d], new, t),
           \A s \in Numbers \ {t} : s \in new.streams <=> s \in state[d].streams,
           \A s \in Numbers \ {t}, e \in Ends : Comes(e, s) /\ wrote'[e][s] = wrote[e][s]
    PROVE  \A s \in Numbers \ {t} : Calm(s)
BY SetIs, AlikeIsQuieter, CalmIs DEF SInv, OtherEntries, Entry, Live, Gone, Known, Has, Alike,
   SameSending

(* Entries as they were: every Stream is calm.                             *)
LEMMA SameEntriesCalm ==
    ASSUME SInv, NEW d \in Ends, NEW new, Set(d, new),
           new.entry = state[d].entry, new.highest = state[d].highest,
           new.streams = state[d].streams,
           \A s \in Numbers, e \in Ends : Comes(e, s), UNCHANGED wrote
    PROVE  \A s \in Numbers : Calm(s)
BY SetIs, CalmIs DEF SInv, Entry, Live, Gone, Known, Has, Quieter

(* Nothing moves on the transport, or something is lost there.             *)
LEMMA NothingComes ==
    ASSUME \A e \in Ends : wire'[e] = wire[e] \/ wire'[e] = <<>>
    PROVE  /\ \A e \in Ends, s \in Numbers : Comes(e, s)
           /\ NothingBehind => NothingBehind'
BY ElementsOfNone DEF Comes, Arriving, On, NothingBehind, NoneBehind

(* A thread of end d does something with its Stream t.                     *)
LEMMA OneStream ==
    ASSUME SInv, NEW d \in Ends, NEW t \in Numbers, NEW new \in StateType, Set(d, new),
           Has(d, t), UNCHANGED wire, new.highest = state[d].highest,
           OtherEntries(state[d], new, t),
           \A s \in Numbers \ {t} : s \in new.streams <=> s \in state[d].streams,
           NEW p, p = Peer(d), wrote'[p] = wrote[p],
           \A s \in Numbers \ {t} : wrote'[d][s] = wrote[d][s],
           Entry(p, t).peer_finished => wrote'[d][t] = wrote[d][t],
           NEW a, NEW b, a = Entry(d, t), b = new.entry[t],
           b.peer_finished => a.peer_finished /\ b.received = a.received,
           a.failed => b.failed \/ t \notin new.streams
    PROVE  /\ \A s \in Numbers \ {t} : Calm(s)
           /\ Half(d, t)
           /\ (b.finish_queued => a.finish_queued) /\ (Fin(b.outgoing) => Fin(a.outgoing))
                => SaysNoEnd(d, t)
           /\ (b.failed => a.failed) => KeepsUp(d, t)
           /\ (a.handle_alive =>
                 b.handle_alive /\ b.consumed = a.consumed /\ (a.peer_finished => b.peer_finished))
                => GoesOn(d, t)
<1>1. p \in Ends /\ \A e \in Ends : e = d \/ e = p
  BY Peers
<1>2. state'[d] = new /\ state'[p] = state[p] /\ b = Entry(d, t)'
  BY SetIs DEF SInv, Entry
<1>3. \A s \in Numbers, e \in Ends : Comes(e, s)
  BY NothingComes
<1>4. \A s \in Numbers \ {t}, e \in Ends : wrote'[e][s] = wrote[e][s]
  BY <1>1
<1>5. \A s \in Numbers \ {t} : Calm(s)
  BY <1>3, <1>4, OthersAreCalm
<1>6. ~Live(d, t) => ~Live(d, t)'
  BY <1>2, HasKnown, StaysDead DEF SInv, Known, Has
<1>7. Half(d, t)
  BY <1>3, <1>2, <1>6, HalfIs
<1>8. (b.finish_queued => a.finish_queued) /\ (Fin(b.outgoing) => Fin(a.outgoing)) => SaysNoEnd(d, t)
  BY <1>2 DEF SaysNoEnd
<1>9. (b.failed => a.failed) => KeepsUp(d, t)
  BY <1>2 DEF KeepsUp
<1>10. (a.handle_alive =>
          b.handle_alive /\ b.consumed = a.consumed /\ (a.peer_finished => b.peer_finished))
         => GoesOn(d, t)
  BY <1>2 DEF GoesOn
<1> QED
  BY <1>5, <1>7, <1>8, <1>9, <1>10

(* The State as it was is such a step too.                                 *)
LEMMA NothingDone ==
    ASSUME SInv, NEW d \in Ends, Set(d, state[d]), UNCHANGED <<wire, wrote>>
    PROVE  \A s \in Numbers : Calm(s)
BY NothingComes, SameEntriesCalm

(* Stream::write: data, and no end.                                        *)
LEMMA WriteIsCalm ==
    ASSUME SInv, NEW e \in Ends, NEW s \in held[e], NEW size \in Nat \ {0},
           CanWrite(state[e], s), Engine(e, Written(state[e], s, size)),
           wrote' = [wrote EXCEPT ![e][s] = @ + size]
    PROVE  /\ \A t \in Numbers \ {s} : Calm(t)
           /\ Half(e, s) /\ SaysNoEnd(e, s) /\ KeepsUp(e, s) /\ GoesOn(e, s)
<1> DEFINE st == state[e]
           new == Written(st, s, size)
           a == Entry(e, s)
           b == new.entry[s]
           p == Peer(e)
<1>1. TypeOK /\ Agreement /\ p \in Ends /\ Peer(p) = e /\ p # e
  BY Peers DEF SInv
<1>2. s \in Numbers /\ Has(e, s) /\ Set(e, new) /\ st \in StateType
  BY <1>1 DEF TypeOK, Has, StateType, Engine
<1>3. /\ new \in StateType
      /\ SameStreams(st, new) /\ OtherEntries(st, new, s) /\ new.control = st.control
      /\ SameReceiving(a, b)
      /\ b.outgoing = Append(a.outgoing, Data(s, a.sent, size))
      /\ b.finish_queued = a.finish_queued /\ b.failed = a.failed
  BY <1>2, WrittenIs DEF Entry
<1> HIDE DEF new
<1>4. ~Entry(p, s).peer_finished
  BY <1>1, <1>2 DEF Agreement, Agreed, CanWrite, Entry, Finishes
<1>5. Fin(b.outgoing) => Fin(a.outgoing)
  BY <1>1, <1>2, EntryIn, DataIn, <1>3, ElementsOfAppend DEF Fin
<1>6. wrote'[p] = wrote[p] /\ \A t \in Numbers \ {s} : wrote'[e][t] = wrote[e][t]
  BY <1>1, <1>2 DEF TypeOK
<1>7. new.highest = st.highest /\ new.streams = st.streams /\ UNCHANGED wire
  BY <1>3 DEF SameStreams, Engine
<1>8. b.peer_finished = a.peer_finished /\ b.received = a.received /\ b.consumed = a.consumed
      /\ b.handle_alive = a.handle_alive
  BY <1>3 DEF SameReceiving
<1> HIDE DEF a, b, p, st
<1>9. /\ \A t \in Numbers \ {s} : Calm(t)
      /\ Half(e, s)
      /\ (b.finish_queued => a.finish_queued) /\ (Fin(b.outgoing) => Fin(a.outgoing))
           => SaysNoEnd(e, s)
      /\ (b.failed => a.failed) => KeepsUp(e, s)
      /\ (a.handle_alive =>
            b.handle_alive /\ b.consumed = a.consumed /\ (a.peer_finished => b.peer_finished))
           => GoesOn(e, s)
  BY <1>2, <1>3, <1>4, <1>6, <1>7, <1>8, OneStream DEF st, p, a, b
<1> QED
  BY <1>3, <1>5, <1>8, <1>9

(* Stream::read: the holder reads on.                                      *)
LEMMA ReadIsCalm ==
    ASSUME SInv, NEW e \in Ends, NEW s \in held[e], ReadResult(state[e], s) = "chunk",
           Engine(e, ReadChunk(state[e], s)), UNCHANGED wrote
    PROVE  /\ \A t \in Numbers \ {s} : Calm(t)
           /\ Half(e, s) /\ SaysNoEnd(e, s) /\ KeepsUp(e, s)
           /\ Entry(e, s)'.handle_alive /\ (Entry(e, s).peer_finished => Entry(e, s)'.peer_finished)
           /\ Entry(e, s)'.consumed = Entry(e, s).consumed + Head(state[e].entry[s].inbound).size
<1> DEFINE st == state[e]
           new == ReadChunk(st, s)
           a == Entry(e, s)
           b == new.entry[s]
           p == Peer(e)
<1>1. TypeOK
  BY DEF SInv
<1>2. s \in Numbers /\ Has(e, s) /\ Set(e, new) /\ st \in StateType /\ a.handle_alive
  BY <1>1 DEF TypeOK, Has, StateType, Engine, Entry
<1>3. /\ new \in StateType
      /\ SameStreams(st, new) /\ OtherEntries(st, new, s)
      /\ SameSending(a, b) /\ b.received = a.received
      /\ b.consumed = a.consumed + Head(a.inbound).size
      /\ b.peer_finished = a.peer_finished /\ b.handle_alive = a.handle_alive
  BY <1>2, ReadIs DEF ReadResult, Entry
<1> HIDE DEF new
<1>4. new.highest = st.highest /\ new.streams = st.streams /\ UNCHANGED wire
  BY <1>3 DEF SameStreams, Engine
<1>5. /\ b.finish_queued = a.finish_queued /\ b.outgoing = a.outgoing /\ b.failed = a.failed
  BY <1>3 DEF SameSending
<1>6. b = Entry(e, s)'
  BY <1>1, <1>2, <1>3, SetIs DEF Entry
<1>7. Head(a.inbound) = Head(state[e].entry[s].inbound)
  BY DEF Entry
<1> HIDE DEF a, b, p, st
<1>9. /\ \A t \in Numbers \ {s} : Calm(t)
      /\ Half(e, s)
      /\ (b.finish_queued => a.finish_queued) /\ (Fin(b.outgoing) => Fin(a.outgoing))
           => SaysNoEnd(e, s)
      /\ (b.failed => a.failed) => KeepsUp(e, s)
  BY <1>2, <1>3, <1>4, <1>5, OneStream DEF st, p, a, b
<1> QED
  BY <1>2, <1>3, <1>5, <1>6, <1>7, <1>9 DEF a

(* Stream::finish: the only step that says an end.                         *)
LEMMA FinishIsCalm ==
    ASSUME SInv, NEW e \in Ends, NEW s \in held[e], Engine(e, FinishQueued(state[e], s)),
           UNCHANGED wrote
    PROVE  /\ \A t \in Numbers \ {s} : Calm(t)
           /\ Half(e, s) /\ KeepsUp(e, s) /\ GoesOn(e, s)
<1> DEFINE st == state[e]
           new == FinishQueued(st, s)
           a == Entry(e, s)
           b == new.entry[s]
           p == Peer(e)
<1>1. TypeOK
  BY DEF SInv
<1>2. s \in Numbers /\ Has(e, s) /\ Set(e, new) /\ st \in StateType
  BY <1>1 DEF TypeOK, Has, StateType, Engine
<1>3. CASE a.finish_queued \/ a.failed
  BY <1>3, <1>2, NothingDone, Peers DEF FinishQueued, Entry, Engine, Calm, Half
<1>4. CASE ~a.finish_queued /\ ~a.failed
  <2> DEFINE queued == [Queued(st, s, Frame("finish", s)) EXCEPT !.entry[s].finish_queued = TRUE]
  <2>1. new = queued
    BY <1>2, <1>4 DEF FinishQueued, Entry, Has
  <2>2. /\ queued \in StateType
        /\ SameStreams(st, queued) /\ OtherEntries(st, queued, s)
        /\ SameReceiving(st.entry[s], queued.entry[s])
        /\ queued.entry[s].failed = st.entry[s].failed
    BY <1>2, FinishIs
  <2> HIDE DEF queued
  <2>3. /\ new \in StateType
        /\ SameStreams(st, new) /\ OtherEntries(st, new, s)
        /\ SameReceiving(a, b) /\ b.failed = a.failed
    BY <2>1, <2>2 DEF Entry
  <2> HIDE DEF new
  <2>4. new.highest = st.highest /\ new.streams = st.streams /\ UNCHANGED wire
    BY <2>3 DEF SameStreams, Engine
  <2>5. b.peer_finished = a.peer_finished /\ b.received = a.received /\ b.consumed = a.consumed
        /\ b.handle_alive = a.handle_alive
    BY <2>3 DEF SameReceiving
  <2> HIDE DEF a, b, p, st
  <2>6. /\ \A t \in Numbers \ {s} : Calm(t)
        /\ Half(e, s)
        /\ (b.failed => a.failed) => KeepsUp(e, s)
        /\ (a.handle_alive =>
              b.handle_alive /\ b.consumed = a.consumed /\ (a.peer_finished => b.peer_finished))
             => GoesOn(e, s)
    BY <1>2, <2>3, <2>4, <2>5, OneStream DEF st, p, a, b
  <2> QED
    BY <2>3, <2>5, <2>6
<1> QED
  BY <1>3, <1>4

(* The Stream is failed at this end, by its holder.                        *)
LEMMA FailingIsCalm ==
    ASSUME SInv, NEW e \in Ends, NEW s \in Numbers, Has(e, s), NEW new \in StateType, Set(e, new),
           UNCHANGED <<wire, wrote>>, SameStreams(state[e], new), OtherEntries(state[e], new, s),
           NEW a, NEW b, a = Entry(e, s), b = new.entry[s], SameReceiving(a, b),
           b.outgoing = <<>>, b.finish_queued = a.finish_queued, b.failed
    PROVE  /\ \A t \in Numbers \ {s} : Calm(t)
           /\ Half(e, s) /\ SaysNoEnd(e, s) /\ GoesOn(e, s)
BY ElementsOfNone, OneStream DEF SameStreams, SameReceiving, Fin

(* Stream::reset.                                                          *)
LEMMA ResetIsCalm ==
    ASSUME SInv, NEW e \in Ends, NEW s \in held[e], Engine(e, Reset(state[e], s)), UNCHANGED wrote
    PROVE  /\ \A t \in Numbers \ {s} : Calm(t)
           /\ Half(e, s) /\ SaysNoEnd(e, s) /\ GoesOn(e, s)
<1> DEFINE st == state[e]
           mid == Failed(st, s)
           new == Reset(st, s)
           a == Entry(e, s)
           x == Frame("reset", s)
<1>1. TypeOK
  BY DEF SInv
<1>2. s \in Numbers /\ Has(e, s) /\ Set(e, new) /\ st \in StateType
  BY <1>1 DEF TypeOK, Has, StateType, Engine
<1>3. UNCHANGED <<wire, wrote>>
  BY DEF Engine
<1>4. CASE a.failed
  BY <1>4, <1>2, <1>3, NothingDone, Peers DEF Reset, Entry, Calm, Half
<1>5. CASE ~a.failed
  <2>1. /\ mid \in StateType
        /\ SameStreams(st, mid) /\ OtherEntries(st, mid, s)
        /\ SameReceiving(a, mid.entry[s])
        /\ mid.entry[s].outgoing = <<>>
        /\ mid.entry[s].finish_queued = a.finish_queued /\ mid.entry[s].failed
    BY <1>2, FailedIs DEF Entry
  <2>2. new = IF st.closed = "no" THEN Control(mid, x) ELSE mid
    BY <1>2, <1>5 DEF Reset, Entry, Has
  <2>3. x \in FrameType
    BY <1>2, FrameIn DEF OfStream
  <2> HIDE DEF mid, new, x
  <2>4. new \in StateType /\ SameStreams(mid, new) /\ new.entry = mid.entry
    BY <2>2, <2>1, <2>3, ControlIs DEF SameStreams
  <2>5. SameStreams(st, new) /\ OtherEntries(st, new, s) /\ new.entry[s] = mid.entry[s]
    BY <2>1, <2>4 DEF SameStreams, OtherEntries
  <2> QED
    BY <1>2, <1>3, <2>1, <2>4, <2>5, FailingIsCalm
<1> QED
  BY <1>4, <1>5

(* Stream::accept and Stream::refuse.                                      *)
LEMMA AnswerIsCalm ==
    ASSUME SInv, NEW s \in Numbers, Accept(s) \/ Refuse(s)
    PROVE  /\ \A t \in Numbers \ {s} : Calm(t)
           /\ Half("server", s) /\ SaysNoEnd("server", s) /\ GoesOn("server", s)
           /\ Accept(s) => Calm(s)
<1> DEFINE e == "server"
           st == state[e]
           x == Frame("open_failed", s)
           y == Frame("opened", s)
           mid == Control(st, x)
           a == Entry(e, s)
<1>1. TypeOK /\ e \in Ends
  BY DEF SInv, Ends
<1>2. Has(e, s) /\ st \in StateType
  BY <1>1 DEF TypeOK, Has, Answer, Accept, Refuse
<1>3. UNCHANGED <<wire, wrote>>
  BY DEF Answer, Accept, Refuse
<1>4. (\A s_1 \in Numbers : Calm(s_1)) =>
        /\ \A t \in Numbers \ {s} : Calm(t)
        /\ Half("server", s) /\ SaysNoEnd("server", s) /\ GoesOn("server", s)
        /\ Accept(s) => Calm(s)
  BY <1>1, Peers DEF Calm, Half
<1>5. CASE st.closed # "no"
  BY <1>5, <1>1, <1>3, NothingDone, <1>4 DEF Answer, Accept, Refuse, Refused, Accepted
<1>6. CASE st.closed = "no" /\ Accept(s)
  <2> DEFINE new == Control(st, y)
  <2>1. Set(e, new)
    BY <1>6 DEF Answer, Accept, Accepted
  <2>2. y \in FrameType
    BY FrameIn DEF OfStream
  <2> HIDE DEF y
  <2>3. SameStreams(st, new) /\ new.entry = st.entry
    BY <1>2, <2>2, ControlIs
  <2> HIDE DEF new
  <2>4. \A t \in Numbers, d \in Ends : Comes(d, t)
    BY <1>3, NothingComes
  <2>5. \A t \in Numbers : Calm(t)
    BY <1>1, <1>3, <2>1, <2>3, <2>4, SameEntriesCalm DEF SameStreams
  <2> QED
    BY <1>4, <2>5
<1>7. CASE st.closed = "no" /\ Refuse(s) /\ ~Accept(s)
  <2> DEFINE new == Failed(mid, s)
  <2>1. x \in FrameType
    BY FrameIn DEF OfStream
  <2> HIDE DEF x
  <2>2. mid \in StateType /\ SameStreams(st, mid) /\ mid.entry = st.entry
    BY <1>2, <2>1, ControlIs
  <2>3. Set(e, new)
    BY <1>2, <1>7, <2>2 DEF Refuse, Answer, Refused, Has, SameStreams, x
  <2> HIDE DEF mid
  <2>4. /\ new \in StateType
        /\ SameStreams(mid, new) /\ OtherEntries(mid, new, s)
        /\ SameReceiving(a, new.entry[s])
        /\ new.entry[s].outgoing = <<>>
        /\ new.entry[s].finish_queued = a.finish_queued /\ new.entry[s].failed
    BY <2>2, FailedIs DEF Entry
  <2> HIDE DEF new
  <2>5. SameStreams(st, new) /\ OtherEntries(st, new, s)
    BY <2>2, <2>4 DEF SameStreams, OtherEntries
  <2>6. /\ \A t \in Numbers \ {s} : Calm(t)
        /\ Half(e, s) /\ SaysNoEnd(e, s) /\ GoesOn(e, s)
    BY <1>1, <1>2, <1>3, <2>3, <2>4, <2>5, FailingIsCalm
  <2> QED
    BY <1>7, <2>6
<1> QED
  BY <1>5, <1>6, <1>7

(* Stream::drop: of what is left, no end is new.                           *)
LEMMA ReleaseIsCalm ==
    ASSUME SInv, NEW e \in Ends, NEW s \in Numbers, Release(e, s)
    PROVE  /\ \A t \in Numbers \ {s} : Calm(t)
           /\ Half(e, s) /\ SaysNoEnd(e, s)
<1> DEFINE p == Peer(e)
           st == state[e]
           new == Dropped(st, s)
           a == Entry(e, s)
           b == new.entry[s]
<1>1. TypeOK
  BY DEF SInv
<1>2. Has(e, s) /\ st \in StateType /\ Set(e, new) /\ UNCHANGED <<wire, wrote>>
  BY <1>1 DEF TypeOK, Has, Release
<1>3. /\ new \in StateType
      /\ new.highest = st.highest /\ OtherEntries(st, new, s)
      /\ Cuts(a) \/ a.outgoing = <<>> => new.streams = st.streams \ {s} /\ AsNew(b)
      /\ ~Cuts(a) /\ a.outgoing # <<>> =>
           /\ new.streams = st.streams
           /\ SameSending(a, b) /\ b.received = a.received
           /\ b.peer_finished = a.peer_finished
  BY <1>2, DroppedIs DEF Entry, Has
<1> HIDE DEF new
<1>4. \A t \in Numbers \ {s} : t \in new.streams <=> t \in st.streams
  BY <1>3
<1>5. /\ b.peer_finished => a.peer_finished /\ b.received = a.received
      /\ a.failed => b.failed \/ s \notin new.streams
  BY <1>3 DEF AsNew, SameSending
<1>6. (b.finish_queued => a.finish_queued) /\ (Fin(b.outgoing) => Fin(a.outgoing))
  BY ElementsOfNone, <1>3 DEF Fin, AsNew, SameSending
<1> HIDE DEF a, b, p, st
<1>7. /\ \A t \in Numbers \ {s} : Calm(t)
      /\ Half(e, s)
      /\ (b.finish_queued => a.finish_queued) /\ (Fin(b.outgoing) => Fin(a.outgoing))
           => SaysNoEnd(e, s)
  BY <1>2, <1>3, <1>4, <1>5, OneStream DEF st, p, a, b
<1> QED
  BY <1>6, <1>7

(* A Client opens a Stream: nothing of it was there.                       *)
LEMMA JoiningIsCalm ==
    ASSUME SInv, NEW d \in Ends, NEW new, Set(d, new), NEW s \in Numbers,
           ~Known(d, s), new.entry = state[d].entry, state[d].highest <= new.highest,
           new.highest \in Nat,
           \A t \in Numbers \ {s} : t \in new.streams <=> t \in state[d].streams,
           \A t \in Numbers, e \in Ends : Comes(e, t), UNCHANGED wrote
    PROVE  \A t \in Numbers : Calm(t)
<1>1. /\ state'[d] = new /\ state'[Peer(d)] = state[Peer(d)] /\ TypeOK /\ Local
  BY SetIs DEF SInv
<1> SUFFICES ASSUME NEW t \in Numbers PROVE Calm(t)
  OBVIOUS
<1>2. PICK a : a = Entry(d, t)
  OBVIOUS
<1>3. Entry(d, t)' = a
  BY <1>1, <1>2 DEF Entry
<1>4. Quieter(Entry(d, t), Entry(d, t)')
  BY <1>2, <1>3 DEF Quieter
<1>5. ~Live(d, t) => ~Live(d, t)'
  <2>1. PICK n \in Nat, m \in Nat : n = state[d].highest /\ m = new.highest /\ n <= m
    BY <1>1, EntryIn
  <2>2. Known(d, t) => Known(d, t)'
    BY <2>1, <1>1 DEF Numbers, Known
  <2>3. Has(d, t)' => Has(d, t) \/ ~Known(d, t)
    BY <1>1 DEF Has
  <2> QED
    BY <1>2, <1>3, <2>2, <2>3, StaysDead
<1>6. PICK p : p = Peer(d)
  OBVIOUS
<1> QED
  BY <1>1, <1>4, <1>5, <1>6, CalmIs

(* StreamConnection::open.                                                 *)
LEMMA OpenIsCalm ==
    ASSUME SInv, Open
    PROVE  \A t \in Numbers : Calm(t)
<1> DEFINE st == state["client"]
<1>1. TypeOK /\ "client" \in Ends /\ st \in StateType
  BY DEF SInv, TypeOK, Ends
<1>2. PICK last \in Nat : last = st.highest
  BY <1>1 DEF StateType, Numbers
<1>3. PICK s : s = last + 1
  OBVIOUS
<1>4. /\ s <= setting.opens
      /\ Set("client", Control(Inserted(st, s), Frame("open", s)))
      /\ UNCHANGED <<wire, wrote>>
  BY <1>2, <1>3 DEF Open
<1>5. s \in Numbers
  <2>1. setting.opens \in Numbers \cup {0}
    BY <1>1, StreamsAssumption DEF TypeOK
  <2> QED
    BY <1>3, <1>4, <2>1, StateAssumption DEF Numbers
<1> DEFINE mid == Inserted(st, s)
           x == Frame("open", s)
           new == Control(mid, x)
<1>6. /\ mid \in StateType
      /\ mid.streams = st.streams \cup {s} /\ mid.highest = s /\ mid.entry = st.entry
  BY <1>1, <1>5, InsertedIs
<1>7. x \in FrameType
  BY <1>5, FrameIn
<1> HIDE DEF mid, x
<1>8. SameStreams(mid, new) /\ new.entry = mid.entry
  BY <1>6, <1>7, ControlIs
<1>9. Set("client", new)
  BY <1>4 DEF mid, x
<1> HIDE DEF new
<1>10. ~Known("client", s)
  BY <1>2, <1>3 DEF Known
<1>11. new.highest \in Nat /\ st.highest <= new.highest
  BY <1>2, <1>3, <1>6, <1>8 DEF SameStreams
<1>12. \A t \in Numbers \ {s} : t \in new.streams <=> t \in st.streams
  BY <1>6, <1>8 DEF SameStreams
<1>13. \A t \in Numbers, e \in Ends : Comes(e, t)
  BY <1>4, NothingComes
<1> QED
  BY <1>1, <1>4, <1>5, <1>6, <1>8, <1>9, <1>10, <1>11, <1>12, <1>13, JoiningIsCalm

(* Nothing follows the word of failure in what is left of a queue, nor     *)
(* when what is appended is of a Stream not failed.                        *)
LEMMA BehindLeaves ==
    ASSUME NEW S, NEW q \in Seq(S), q # <<>>, NoneBehind(q)
    PROVE  /\ NoneBehind(Tail(q))
           /\ Head(q).type \in GiveUp =>
                \A f \in Elements(Tail(q)) : f.stream = Head(q).stream => f.type \notin Items
BY DEF NoneBehind, Elements

(* Likewise, where a frame joins the transport.                            *)
LEMMA BehindJoins ==
    ASSUME NEW S, NEW q \in Seq(S), NEW x, NoneBehind(q),
           x.type \in Items => \A f \in Elements(q) : f.stream = x.stream => f.type \notin GiveUp
    PROVE  NoneBehind(Append(q, x))
BY DEF NoneBehind, Elements

(* A frame is read from the transport, or put on it.                       *)
LEMMA TakingComes ==
    ASSUME TypeOK, NothingBehind, NEW e \in Ends, wire[e] # <<>>, Taking(e)
    PROVE  /\ \A d \in Ends, s \in Numbers : Comes(d, s)
           /\ NothingBehind'
           /\ Head(wire[e]).type \in GiveUp =>
                \A s \in Numbers : s = Head(wire[e]).stream => Arriving(e, s)' = {}
<1>1. PICK p : p = Peer(e)
  OBVIOUS
<1>2. p \in Ends /\ \A d \in Ends : d = e \/ d = p
  BY <1>1, Peers
<1>3. /\ wire'[e] = Tail(wire[e]) /\ wire'[p] = wire[p]
      /\ On(e) = {Head(wire[e])} \cup On(e)' /\ On(p)' = On(p)
  BY <1>1, Takes
<1>4. wire[e] \in Seq(FrameType)
  BY DEF TypeOK
<1>5. /\ NoneBehind(Tail(wire[e]))
      /\ Head(wire[e]).type \in GiveUp =>
           \A f \in Elements(Tail(wire[e])) :
              f.stream = Head(wire[e]).stream => f.type \notin Items
  BY <1>4, BehindLeaves DEF NothingBehind
<1>6. \A d \in Ends : On(d)' \subseteq On(d)
  BY <1>2, <1>3
<1>7. \A d \in Ends, s \in Numbers : Comes(d, s)
  BY <1>6 DEF Comes, Arriving
<1>8. NothingBehind'
  BY <1>2, <1>3, <1>5 DEF NothingBehind
<1>9. ASSUME Head(wire[e]).type \in GiveUp, NEW s \in Numbers, s = Head(wire[e]).stream
      PROVE  Arriving(e, s)' = {}
  BY <1>3, <1>5, <1>9 DEF On, Arriving
<1> QED
  BY <1>7, <1>8, <1>9

(* What the writer puts there was in line.                                 *)
LEMMA PuttingComes ==
    ASSUME TypeOK, NothingBehind, NEW e \in Ends, NEW p, p = Peer(e), Carries(p),
           NEW x \in FrameType, wire' = [wire EXCEPT ![p] = Append(@, x)],
           x.type \in Items => /\ x \in Line(p, x.stream)
                               /\ \A f \in On(p) : f.stream = x.stream => f.type \notin GiveUp
    PROVE  /\ \A d \in Ends, s \in Numbers : Comes(d, s)
           /\ NothingBehind'
<1>1. p \in Ends /\ \A d \in Ends : d = e \/ d = p
  BY Peers
<1>2. /\ wire'[p] = Append(wire[p], x) /\ wire'[e] = wire[e]
      /\ On(p)' = On(p) \cup {x} /\ On(e)' = On(e)
  BY Puts
<1>3. wire[p] \in Seq(FrameType)
  BY <1>1 DEF TypeOK
<1>4. NoneBehind(Append(wire[p], x))
  BY <1>1, <1>3, BehindJoins DEF NothingBehind, On
<1>5. NothingBehind'
  BY <1>1, <1>2, <1>4 DEF NothingBehind
<1>6. ASSUME NEW d \in Ends, NEW s \in Numbers PROVE Comes(d, s)
  BY <1>2, <1>1 DEF Comes, Arriving
<1> QED
  BY <1>5, <1>6

(* The connection ends, or moves a frame that says nothing new to a        *)
(* transfer.                                                               *)
LEMMA EndingIsCalm ==
    ASSUME SInv, NothingBehind, NEW e \in Ends,
           Close(e) \/ WriteFails(e) \/ ReaderEnds(e) \/ ReceiveLast(e)
    PROVE  (\A s \in Numbers : Calm(s)) /\ NothingBehind'
<1>1. TypeOK /\ state[e] \in StateType
  BY DEF SInv, TypeOK
<1>2. PICK reason \in {"asked", "ended", "violated"} : CloseFor(e, reason)
  BY DEF Close, WriteFails, ReaderEnds, ReceiveLast
<1>3. PICK new : new = ClosedFor(state[e], reason)
  OBVIOUS
<1>4. Set(e, new)
  BY <1>2, <1>3 DEF CloseFor
<1>5. new.entry = state[e].entry /\ new.highest = state[e].highest /\ new.streams = state[e].streams
  BY <1>1, <1>3, ClosedIs
<1>6. UNCHANGED wrote
  BY DEF Close, WriteFails, ReaderEnds, ReceiveLast
<1>7. (\A d \in Ends, s \in Numbers : Comes(d, s)) /\ NothingBehind'
  BY <1>1, TakingComes, NothingComes DEF ReceiveLast, Arrives, ReaderEnds, TypeOK, Close,
     WriteFails
<1>8. \A s \in Numbers, d \in Ends : Comes(d, s)
  BY <1>7
<1> QED
  BY <1>4, <1>5, <1>6, <1>7, <1>8, SameEntriesCalm

(* A turn that passes, and a transport that fails.                         *)
LEMMA PassingIsCalm ==
    ASSUME SInv, NothingBehind, NEW e \in Ends, Break \/ PassStale(e)
    PROVE  (\A s \in Numbers : Calm(s)) /\ NothingBehind'
<1>1. UNCHANGED <<wire, wrote>>
  BY DEF Break, PassStale
<1>2. (\A d \in Ends, s \in Numbers : Comes(d, s)) /\ NothingBehind'
  BY <1>1, NothingComes
<1>3. PICK p : p = Peer(e)
  OBVIOUS
<1>4. CASE Break
  BY <1>2, <1>4, <1>1, <1>3, CalmIs DEF Break, Entry, Live, Gone, Known, Has, Quieter
<1>5. CASE PassStale(e)
  <2>1. state[e] \in StateType /\ state[e].ready \in Seq(Numbers)
    BY DEF SInv, TypeOK, StateType
  <2>2. PICK n \in Nat : n = Len(state[e].ready)
    BY <2>1
  <2>3. PICK new : new = Passed(state[e], n)
    OBVIOUS
  <2>4. Set(e, new)
    BY <1>5, <2>2, <2>3 DEF PassStale
  <2>5. SameStreams(state[e], new) /\ \A t \in Numbers : Alike(state[e].entry[t], new.entry[t])
    BY <2>1, <2>2, <2>3, PassedIs
  <2>6. state'[e] = new /\ state'[p] = state[p]
    BY <1>3, <2>4, SetIs DEF SInv
  <2> SUFFICES ASSUME NEW s \in Numbers PROVE Calm(s)
    BY <1>2
  <2>7. Alike(Entry(e, s), Entry(e, s)')
    BY <2>5, <2>6 DEF Entry
  <2>8. Quieter(Entry(e, s), Entry(e, s)')
    BY <2>7, AlikeIsQuieter
  <2>9. ~Live(e, s) => ~Live(e, s)'
    BY <2>5, <2>6, <2>7 DEF Live, Gone, Known, Has, SameStreams, Alike, SameSending
  <2> QED
    BY <1>1, <1>2, <1>3, <2>6, <2>8, <2>9, CalmIs
<1> QED
  BY <1>4, <1>5

(* The writer puts a frame of the connection on the transport,             *)
LEMMA PutsAreCalm ==
    ASSUME SInv, NothingBehind, NEW e \in Ends, NEW new, Set(e, new), NEW x \in FrameType,
           x.type \notin Items,
           new.streams = state[e].streams, new.highest = state[e].highest,
           new.entry = state[e].entry,
           Carries(Peer(e)), wire' = [wire EXCEPT ![Peer(e)] = Append(@, x)], UNCHANGED wrote
    PROVE  (\A s \in Numbers : Calm(s)) /\ NothingBehind'
BY PuttingComes, SameEntriesCalm DEF SInv

(* write_loop.                                                             *)
LEMMA WritingIsCalm ==
    ASSUME SInv, NothingBehind, NEW e \in Ends, WriteControl(e) \/ Ping \/ WriteClose(e)
    PROVE  (\A s \in Numbers : Calm(s)) /\ NothingBehind'
<1>1. TypeOK /\ Local
  BY DEF SInv
<1>2. CASE WriteControl(e)
  <2> DEFINE st == state[e]
             x == Head(st.control)
             new == [st EXCEPT !.control = Tail(@)]
  <2>1. st \in StateType /\ st.control \in Seq(FrameType) /\ st.control # <<>>
    BY <1>1, <1>2 DEF TypeOK, StateType, WriteControl
  <2>2. x \in FrameType /\ x \in Elements(st.control)
    BY <2>1, ElementsOfHead
  <2>3. x.type \notin Items
    BY <1>1, <2>2 DEF Local, EndOk
  <2>4. new.streams = st.streams /\ new.highest = st.highest /\ new.entry = st.entry
    BY <2>1 DEF StateType
  <2>5. /\ Set(e, new) /\ Carries(Peer(e)) /\ wire' = [wire EXCEPT ![Peer(e)] = Append(@, x)]
        /\ UNCHANGED wrote
    BY <1>2 DEF WriteControl, Writes
  <2> HIDE DEF new
  <2> QED
    BY <2>2, <2>3, <2>4, <2>5, PutsAreCalm
<1>3. CASE Ping
  <2> DEFINE d == "client"
             x == Frame("ping", 0)
  <2>1. d \in Ends
    BY DEF Ends
  <2>2. x \in FrameType /\ x.type \notin Items
    BY FrameIn DEF Frame, Items
  <2>3. /\ Set(d, state[d]) /\ Carries(Peer(d)) /\ wire' = [wire EXCEPT ![Peer(d)] = Append(@, x)]
        /\ UNCHANGED wrote
    BY <1>3 DEF Ping, Writes
  <2> HIDE DEF x
  <2> QED
    BY <2>1, <2>2, <2>3, PutsAreCalm
<1>4. CASE WriteClose(e)
  <2> DEFINE x == Frame("close", 0)
  <2>1. x \in FrameType /\ x.type \notin Items
    BY FrameIn DEF Frame, Items
  <2>2. Set(e, state[e]) /\ UNCHANGED wrote
    BY <1>1, <1>4 DEF WriteClose, Set, TypeOK
  <2>3. CASE Carries(Peer(e))
    BY <1>4, <2>3, <2>1, <2>2, PutsAreCalm DEF WriteClose
  <2>4. CASE ~Carries(Peer(e))
    BY <1>4, <2>2, <2>4, NothingComes, NothingDone DEF WriteClose
  <2> QED
    BY <2>3, <2>4
<1> QED
  BY <1>2, <1>3, <1>4

(* or a Stream's next item, which it has not failed.                       *)
LEMMA WriteDataIsCalm ==
    ASSUME SInv, NothingBehind, NEW e \in Ends, WriteData(e)
    PROVE  (\A s \in Numbers : Calm(s)) /\ NothingBehind'
<1>0. PICK s : s = state[e].ready[Turn(state[e])]
  OBVIOUS
<1> DEFINE st == state[e]
           a == Entry(e, s)
<1>1. TypeOK /\ Local /\ Agreement /\ st \in StateType /\ Waiting(st) # {} /\ st.control = <<>>
  BY DEF SInv, TypeOK, WriteData
<1>2. /\ Set(e, TookData(st)) /\ Carries(Peer(e))
      /\ wire' = [wire EXCEPT ![Peer(e)] = Append(@, NextData(st))]
      /\ UNCHANGED wrote
  BY DEF WriteData, Writes
<1>3. /\ s \in Numbers /\ s \in st.streams /\ a.outgoing # <<>> /\ NextData(st) = Head(a.outgoing)
      /\ \E mid \in StateType :
           /\ TookData(st) = RemovedIfFinished(mid, s)
           /\ SameStreams(st, mid) /\ OtherEntries(st, mid, s) /\ mid.control = st.control
           /\ SameReceiving(a, mid.entry[s])
           /\ mid.entry[s].limit = a.limit /\ mid.entry[s].sent = a.sent
           /\ mid.entry[s].outgoing = Tail(a.outgoing)
           /\ mid.entry[s].finish_queued = a.finish_queued
           /\ mid.entry[s].failed = a.failed
  BY <1>0, <1>1, TookIs DEF Entry
<1>4. PICK mid \in StateType :
        /\ TookData(st) = RemovedIfFinished(mid, s)
        /\ SameStreams(st, mid) /\ OtherEntries(st, mid, s) /\ mid.control = st.control
        /\ SameReceiving(a, mid.entry[s])
        /\ mid.entry[s].limit = a.limit /\ mid.entry[s].sent = a.sent
        /\ mid.entry[s].outgoing = Tail(a.outgoing)
        /\ mid.entry[s].finish_queued = a.finish_queued
        /\ mid.entry[s].failed = a.failed
  BY <1>3
<1>5. PICK new : new = RemovedIfFinished(mid, s)
  OBVIOUS
<1>6. /\ new \in StateType /\ new.highest = mid.highest
      /\ OtherEntries(mid, new, s)
      /\ Leaves(mid, s) => new.streams = mid.streams \ {s} /\ AsNew(new.entry[s])
      /\ ~Leaves(mid, s) => new = mid
  BY <1>3, <1>5, RemovedIs
<1>7. PICK p : p = Peer(e)
  OBVIOUS
<1>8. /\ state'[e] = new /\ state'[p] = state[p] /\ p \in Ends /\ Peer(p) = e /\ p # e
      /\ Set(e, new)
  BY <1>2, <1>4, <1>5, <1>1, <1>7, SetIs, Peers
<1>9. PICK x : x = Head(a.outgoing)
  OBVIOUS
<1>10. a.outgoing \in Seq(ItemType)
  BY <1>1, <1>3, EntryIn
<1>11. /\ Elements(a.outgoing) = {x} \cup Elements(Tail(a.outgoing))
       /\ x \in Elements(a.outgoing)
  BY <1>3, <1>9, <1>10, ElementsOfHead
<1>12. x \in Line(p, s)
  BY <1>8, <1>11 DEF Line
<1>13. x \in FrameType /\ x.type \in Items /\ x.stream = s
  BY <1>1, <1>3, <1>8, <1>12, LineIn
<1>14. Live(e, s)
  BY <1>1, <1>3, HasKnown DEF Has, Local, EntryOk, Sane, Live
<1>15. ~Failing(p, s)
  BY <1>1, <1>3, <1>8, <1>14 DEF Agreement, Agreed, Told
<1>16. \A f \in On(p) : f.stream = s => f.type \notin GiveUp
  BY <1>15 DEF Failing, News, Chain
<1>17. /\ Carries(p) /\ wire' = [wire EXCEPT ![p] = Append(@, x)]
  BY <1>2, <1>3, <1>7, <1>9
<1>18. x.type \in Items => /\ x \in Line(p, x.stream)
                           /\ \A f \in On(p) : f.stream = x.stream => f.type \notin GiveUp
  BY <1>12, <1>13, <1>16
<1>19. (\A d \in Ends, t \in Numbers : Comes(d, t)) /\ NothingBehind'
  BY <1>1, <1>7, <1>13, <1>17, <1>18, PuttingComes
<1>20. \A t \in Numbers \ {s} : Calm(t)
  <2>1. new.highest = st.highest
    BY <1>4, <1>6 DEF SameStreams
  <2>2. OtherEntries(st, new, s)
    BY <1>4, <1>6 DEF OtherEntries, Alike, SameReceiving, SameSending
  <2>3. \A t \in Numbers \ {s} : t \in new.streams <=> t \in st.streams
    BY <1>4, <1>6 DEF SameStreams
  <2>4. \A t \in Numbers \ {s}, d \in Ends : Comes(d, t) /\ wrote'[d][t] = wrote[d][t]
    BY <1>2, <1>19
  <2> QED
    BY <1>6, <1>8, <2>1, <2>2, <2>3, <2>4, OthersAreCalm
<1>21. Calm(s)
  <2> DEFINE b == new.entry[s]
  <2>1. b = Entry(e, s)'
    BY <1>8 DEF Entry
  <2>2. CASE Leaves(mid, s)
    <3>1. ~a.handle_alive
      BY <1>4, <2>2 DEF Leaves, SameReceiving
    <3>2. AsNew(b)
      BY <1>6, <2>2
    <3> HIDE DEF b
    <3>3. Quieter(a, b)
      BY <3>1, <3>2, NewIsQuieter
    <3> QED
      <4>1. Quieter(Entry(e, s), Entry(e, s)')
        BY <2>1, <3>3
      <4>2. \A d \in Ends : wrote'[d][s] = wrote[d][s]
        BY <1>2
      <4> QED
        BY <1>3, <1>7, <1>8, <1>14, <1>19, <4>1, <4>2, CalmIs
  <2>3. CASE ~Leaves(mid, s)
    <3>1. b = mid.entry[s]
      BY <1>6, <2>3
    <3> HIDE DEF b
    <3>2. Fin(b.outgoing) => Fin(a.outgoing)
      BY <1>4, <1>11, <3>1 DEF Fin
    <3>3. Quieter(a, b)
      BY <1>4, <3>1, <3>2 DEF Quieter, SameReceiving
    <3> QED
      <4>1. Quieter(Entry(e, s), Entry(e, s)')
        BY <2>1, <3>3
      <4>2. \A d \in Ends : wrote'[d][s] = wrote[d][s]
        BY <1>2
      <4> QED
        BY <1>3, <1>7, <1>8, <1>14, <1>19, <4>1, <4>2, CalmIs
  <2> QED
    BY <2>2, <2>3
<1> QED
  BY <1>19, <1>20, <1>21

(* The reader takes a frame: one of the connection,                        *)
LEMMA ReceivePingIsCalm ==
    ASSUME SInv, NothingBehind, NEW e \in Ends, ReceivePing(e)
    PROVE  (\A s \in Numbers : Calm(s)) /\ NothingBehind'
<1>1. TypeOK /\ state[e] \in StateType
  BY DEF SInv, TypeOK
<1>2. (\A d \in Ends, s \in Numbers : Comes(d, s)) /\ NothingBehind'
  BY <1>1, TakingComes DEF ReceivePing, Arrives
<1>3. \A s \in Numbers, d \in Ends : Comes(d, s)
  BY <1>2
<1>4. UNCHANGED wrote
  BY DEF ReceivePing
<1>5. CASE Head(wire[e]).type = "ping"
  BY <1>5, FrameIn, <1>1, ControlIs, <1>2, <1>3, <1>4, SameEntriesCalm DEF ReceivePing,
     SameStreams
<1>6. CASE Head(wire[e]).type # "ping"
  BY <1>6, <1>2, <1>3, <1>4, SameEntriesCalm DEF ReceivePing
<1> QED
  BY <1>5, <1>6

(* an Open,                                                                *)
LEMMA ReceiveOpenIsCalm ==
    ASSUME SInv, NothingBehind, ReceiveOpen
    PROVE  (\A s \in Numbers : Calm(s)) /\ NothingBehind'
<1> DEFINE e == "server"
           st == state[e]
<1>1. TypeOK /\ e \in Ends /\ st \in StateType
  BY DEF SInv, TypeOK, Ends
<1>2. (\A d \in Ends, s \in Numbers : Comes(d, s)) /\ NothingBehind'
  BY <1>1, TakingComes DEF ReceiveOpen, Arrives
<1>3. \A s \in Numbers, d \in Ends : Comes(d, s)
  BY <1>2
<1>4. PICK s : s = Head(wire[e]).stream
  OBVIOUS
<1>5. s \in Numbers /\ s = st.highest + 1
  BY <1>4, ArrivesNext DEF ReceiveOpen
<1>6. st.highest \in Nat
  BY <1>1, EntryIn, <1>5
<1>7. ~Known(e, s) /\ st.highest <= s /\ s \in Nat
  BY <1>5, <1>6 DEF Known
<1>8. PICK new : /\ Set(e, new) /\ new.entry = st.entry /\ new.highest = s
                 /\ \A t \in Numbers \ {s} : t \in new.streams <=> t \in st.streams
  <2>1. CASE Full(st)
    <3> DEFINE mid == [st EXCEPT !.highest = s]
               x == Frame("open_failed", s)
               new == Control(mid, x)
    <3>1. Set(e, new)
      BY <1>4, <2>1 DEF ReceiveOpen
    <3>2. mid \in StateType /\ mid.entry = st.entry /\ mid.highest = s /\ mid.streams = st.streams
      BY <1>1, <1>5 DEF StateType
    <3>3. x \in FrameType
      BY <1>5, FrameIn DEF OfStream
    <3> HIDE DEF mid, x
    <3>4. SameStreams(mid, new) /\ new.entry = mid.entry
      BY <3>2, <3>3, ControlIs
    <3> HIDE DEF new
    <3> QED
      BY <3>1, <3>2, <3>4 DEF SameStreams
  <2>2. CASE ~Full(st)
    BY <1>4, <2>2, <1>1, <1>5, InsertedIs DEF ReceiveOpen
  <2> QED
    BY <2>1, <2>2
<1>9. UNCHANGED wrote
  BY DEF ReceiveOpen
<1> QED
  BY <1>1, <1>2, <1>3, <1>5, <1>7, <1>8, <1>9, JoiningIsCalm

(* or a frame of a Stream.                                                 *)
LEMMA FrameIsCalm ==
    ASSUME SInv, NothingBehind, NEW e \in Ends, NEW s \in Numbers, NEW f, Gets(e, s, f),
           NEW new \in StateType, Set(e, new), new.highest = state[e].highest,
           OtherEntries(state[e], new, s),
           \A t \in Numbers \ {s} : t \in new.streams <=> t \in state[e].streams,
           NEW a, NEW b, a = Entry(e, s), b = new.entry[s],
           b.peer_finished => a.peer_finished \/ f.type = "finish",
           a.peer_finished /\ b.peer_finished => b.received = a.received,
           b.finish_queued => a.finish_queued, Fin(b.outgoing) => Fin(a.outgoing),
           b.failed => a.failed \/ (f.type \in GiveUp /\ (b.peer_finished => a.peer_finished)),
           a.handle_alive =>
             b.handle_alive /\ b.consumed = a.consumed /\ (a.peer_finished => b.peer_finished),
           a.failed => b.failed \/ s \notin new.streams,
           Known(e, s), s \in new.streams => s \in state[e].streams
    PROVE  (\A t \in Numbers : Calm(t)) /\ NothingBehind'
<1>1. TypeOK /\ Agreement
  BY DEF SInv
<1>2. wire[e] # <<>> /\ Taking(e) /\ f = Head(wire[e]) /\ f.stream = s /\ UNCHANGED wrote
  BY DEF Gets, Arrives
<1>3. /\ \A d \in Ends, t \in Numbers : Comes(d, t)
      /\ NothingBehind'
      /\ f.type \in GiveUp => Arriving(e, s)' = {}
  BY <1>1, <1>2, TakingComes
<1>4. f \in On(e)
  BY <1>1, <1>2, Takes
<1>5. PICK p : p = Peer(e)
  OBVIOUS
<1>6. state'[e] = new /\ state'[p] = state[p] /\ p \in Ends /\ Peer(p) = e
      /\ \A d \in Ends : d = e \/ d = p
  BY <1>1, <1>5, SetIs, Peers
<1>7. \A t \in Numbers \ {s}, d \in Ends : Comes(d, t) /\ wrote'[d][t] = wrote[d][t]
  BY <1>2, <1>3
<1>8. \A t \in Numbers \ {s} : Calm(t)
  BY <1>7, OthersAreCalm
<1>9. b = Entry(e, s)'
  BY <1>6 DEF Entry
<1>10. f.type = "finish" => FinOn(e, s)
  BY <1>2, <1>4 DEF FinOn, Arriving, Items
<1>11. ~Live(e, s) => ~Live(e, s)'
  BY <1>6, <1>9 DEF Live, Gone, Known, Has
<1>12. b.peer_finished => a.peer_finished \/ FinOn(e, s)
  BY <1>10
<1>13. \A d \in Ends : Comes(d, s) /\ wrote'[d][s] = wrote[d][s]
  BY <1>2, <1>3
<1>14. Half(e, s)
  BY <1>5, <1>6, <1>9, <1>11, <1>12, <1>13, HalfIs
<1>15. SaysNoEnd(e, s) /\ GoesOn(e, s)
  BY <1>9 DEF SaysNoEnd, GoesOn
<1>16. KeepsUp(e, s)
  BY <1>2, <1>4, <1>1, <1>5, <1>3, <1>9 DEF Failing, News, Chain, Agreement, Agreed, Told, KeepsUp
<1>17. Calm(s)
  BY <1>5, <1>6, <1>13, <1>14, <1>15, <1>16 DEF Half, Calm
<1> QED
  BY <1>3, <1>8, <1>17

(* The frame is one of its Stream's, in its place.                         *)
LEMMA FrameOfIsCalm ==
    ASSUME SInv, NothingBehind, NEW e \in Ends, NEW s \in Numbers, NEW f, Gets(e, s, f), Has(e, s),
           Set(e, Received(state[e], f))
    PROVE  (\A t \in Numbers : Calm(t)) /\ NothingBehind'
<1> DEFINE st == state[e]
<1>0. PICK a : a = Entry(e, s)
  OBVIOUS
<1>1. TypeOK /\ Local /\ st \in StateType
  BY DEF SInv, TypeOK
<1>2. Arrives(e) /\ Taking(e) /\ f = Head(wire[e]) /\ f.stream = s /\ f.type \in OfStream
      /\ f.stream \in Numbers
  BY DEF Gets
<1>3. f \in FrameType
  BY <1>1, <1>2, Takes DEF Arrives
<1>4. Known(e, s) /\ s \in st.streams
  BY <1>1, HasKnown DEF Has
<1>5. PICK new : new = Received(st, f)
  OBVIOUS
<1>6. Set(e, new)
  BY <1>5
<1>7. PICK b : b = new.entry[s]
  OBVIOUS
<1>8. CASE f.type = "data" \/ f.type = "opened"
  <2>1. CASE f.type = "data" /\ (a.failed \/ a.peer_finished)
    <3>1. new = st
      BY <1>0, <1>2, <1>4, <1>5, <2>1 DEF Received, DataReceived, Entry
    <3>2. (\A d \in Ends, t \in Numbers : Comes(d, t)) /\ NothingBehind'
      BY <1>1, <1>2, TakingComes DEF Arrives
    <3>3. \A t \in Numbers, d \in Ends : Comes(d, t)
      BY <3>2
    <3>4. UNCHANGED wrote
      BY DEF Gets
    <3> QED
      BY <1>6, <3>1, <3>2, <3>3, <3>4, SameEntriesCalm
  <2>2. CASE f.type = "data" /\ ~a.failed /\ ~a.peer_finished
    <3>1. new = DataReceived(st, f)
      BY <1>2, <1>4, <1>5, <2>2 DEF Received
    <3>2. ~st.entry[f.stream].failed /\ ~st.entry[f.stream].peer_finished
      BY <1>0, <1>2, <2>2 DEF Entry
    <3>3. /\ new \in StateType
          /\ SameStreams(st, new) /\ OtherEntries(st, new, f.stream)
          /\ SameSending(st.entry[f.stream], new.entry[f.stream])
          /\ new.entry[f.stream].consumed = st.entry[f.stream].consumed
          /\ new.entry[f.stream].peer_finished = st.entry[f.stream].peer_finished
          /\ new.entry[f.stream].handle_alive = st.entry[f.stream].handle_alive
      BY <1>1, <1>2, <1>3, <2>2, <3>2, DataIs, <3>1
    <3>4. SameSending(a, b) /\ b.consumed = a.consumed /\ b.peer_finished = a.peer_finished
          /\ b.handle_alive = a.handle_alive /\ ~a.peer_finished
      BY <1>0, <1>2, <1>7, <2>2, <3>3 DEF Entry
    <3>5. new.highest = st.highest /\ new.streams = st.streams /\ OtherEntries(st, new, s)
      BY <1>2, <3>3 DEF SameStreams
    <3>6. /\ b.outgoing = a.outgoing /\ b.finish_queued = a.finish_queued
          /\ b.failed = a.failed
      BY <3>4 DEF SameSending
    <3>7. new \in StateType
      BY <3>3
    <3> QED
      BY <1>0, <1>4, <1>6, <1>7, <3>4, <3>5, <3>6, <3>7, FrameIsCalm
  <2>3. CASE f.type = "opened"
    <3>1. new = OpenedReceived(st, f)
      BY <1>2, <1>4, <1>5, <2>3 DEF Received
    <3>2. /\ new \in StateType
          /\ SameStreams(st, new) /\ OtherEntries(st, new, s) /\ Alike(a, b)
      BY <1>0, <1>1, <1>2, <1>3, <1>7, <3>1, OpenedIs DEF Entry
    <3> QED
      BY <1>0, <1>4, <1>6, <1>7, <3>2, FrameIsCalm
         DEF SameStreams, Alike, SameSending, SameReceiving
  <2> QED
    BY <1>8, <2>1, <2>2, <2>3
<1>9. CASE f.type = "credit"
  <2>1. new = CreditReceived(st, f)
    BY <1>2, <1>4, <1>5, <1>9 DEF Received
  <2>2. /\ new \in StateType
        /\ SameStreams(st, new) /\ OtherEntries(st, new, s)
        /\ SameReceiving(a, b)
        /\ b.outgoing = a.outgoing /\ b.finish_queued = a.finish_queued /\ b.failed = a.failed
    BY <1>0, <1>1, <1>2, <1>3, <1>7, <2>1, CreditIs DEF Entry
  <2> QED
    BY <1>0, <1>4, <1>6, <1>7, <2>2, FrameIsCalm DEF SameStreams, SameReceiving
<1>10. CASE f.type = "finish"
  <2>1. new = FinishReceived(st, f)
    BY <1>2, <1>4, <1>5, <1>10 DEF Received
  <2>2. /\ new \in StateType
        /\ SameStreams(st, new) /\ OtherEntries(st, new, s)
        /\ SameSending(a, b) /\ b.received = a.received /\ b.consumed = a.consumed
        /\ b.peer_finished /\ b.handle_alive = a.handle_alive
    BY <1>0, <1>1, <1>2, <1>3, <1>7, <2>1, EndIs DEF Entry
  <2> QED
    BY <1>0, <1>4, <1>6, <1>7, <1>10, <2>2, FrameIsCalm DEF SameStreams, SameSending
<1>11. CASE f.type \in GiveUp
  <2> DEFINE mid == Failed(st, s)
             c == mid.entry[s]
  <2>1. new = RemovedIfFinished(mid, s)
    BY <1>2, <1>4, <1>5, <1>11 DEF Received, ResetReceived, GiveUp
  <2>2. /\ mid \in StateType
        /\ SameStreams(st, mid) /\ OtherEntries(st, mid, s)
        /\ SameReceiving(a, c)
        /\ c.outgoing = <<>> /\ c.finish_queued = a.finish_queued /\ c.failed
    BY <1>0, <1>1, FailedIs DEF Entry
  <2> HIDE DEF mid
  <2>3. /\ new \in StateType /\ new.highest = mid.highest
        /\ OtherEntries(mid, new, s)
        /\ Leaves(mid, s) => new.streams = mid.streams \ {s} /\ AsNew(new.entry[s])
        /\ ~Leaves(mid, s) => new = mid
    BY <2>1, <2>2, RemovedIs
  <2>4. new.highest = st.highest
    BY <2>2, <2>3 DEF SameStreams
  <2>5. OtherEntries(st, new, s)
    BY <2>2, <2>3 DEF OtherEntries, Alike, SameReceiving, SameSending
  <2>6. \A t \in Numbers \ {s} : t \in new.streams <=> t \in st.streams
    BY <2>2, <2>3 DEF SameStreams
  <2>7. ~Fin(<<>>)
    BY ElementsOfNone DEF Fin
  <2>8. CASE Leaves(mid, s)
    <3>1. AsNew(b) /\ ~a.handle_alive /\ s \notin new.streams
      BY <1>7, <2>2, <2>3, <2>8 DEF Leaves, SameReceiving
    <3>2. b.outgoing = <<>> /\ ~b.finish_queued /\ ~b.peer_finished /\ ~b.failed
      BY <3>1 DEF AsNew
    <3> QED
      BY <1>0, <1>4, <1>6, <1>7, <2>3, <2>4, <2>5, <2>6, <2>7, <3>1, <3>2, FrameIsCalm
  <2>9. CASE ~Leaves(mid, s)
    <3>1. b = c /\ new.streams = st.streams
      BY <1>7, <2>2, <2>3, <2>9 DEF SameStreams
    <3>2. b.outgoing = <<>> /\ b.finish_queued = a.finish_queued /\ b.failed
          /\ b.peer_finished = a.peer_finished /\ b.received = a.received
          /\ b.consumed = a.consumed /\ b.handle_alive = a.handle_alive
      BY <2>2, <3>1 DEF SameReceiving
    <3> QED
      BY <1>0, <1>4, <1>6, <1>7, <1>11, <2>3, <2>4, <2>5, <2>6, <2>7, <3>1, <3>2, FrameIsCalm
  <2> QED
    BY <2>8, <2>9
<1> QED
  BY <1>2, <1>8, <1>9, <1>10, <1>11 DEF OfStream, GiveUp

(* receive, for the frames of a Stream.                                    *)
LEMMA ReceiveIsCalm ==
    ASSUME SInv, NothingBehind, NEW e \in Ends, Receive(e)
    PROVE  (\A s \in Numbers : Calm(s)) /\ NothingBehind'
BY Takes, FrameOfIsCalm, TakingComes, SameEntriesCalm DEF SInv, TypeOK, Receive, Arrives,
   StateType, Gets, Has, Received

(* So no step of the connection says or does anything of a transfer.       *)
LEMMA ConnectionIsCalm ==
    ASSUME SInv, NothingBehind, ConnectionStep
    PROVE  (\A s \in Numbers : Calm(s)) /\ NothingBehind'
BY WritingIsCalm, PassingIsCalm, EndingIsCalm, WriteDataIsCalm, ReceivePingIsCalm,
   ReceiveOpenIsCalm, ReceiveIsCalm DEF Ends, WriterStep, ReaderStep, ConnectionStep

(* A new entry has heard all there was.                                    *)
LEMMA NewHeard ==
    ASSUME NEW e \in Ends, NEW s \in Numbers, AsNew(Entry(e, s))
    PROVE  Heard(e, s) /\ Entry(e, s).consumed = 0
BY DEF AsNew, Heard

(* The thread of end e stays where it is, or has nothing to read for.      *)
Stays(e, s) ==
    /\ job'[e][s] = job[e][s] /\ temp'[s] = temp[s]
    /\ s \in asked' => s \in asked \/ AsNew(Entry("server", s))
    /\ ~Stopped(s)' => KeepsUp(e, s) /\ GoesOn(e, s)
ReadsNo(e, s) ==
    job'[e][s] \notin {"opening", "reading", "placing"} /\ (e = "server" => s \notin asked')

(* The receiving thread goes on to have what the Stream gave it.           *)
LEMMA HearingKept ==
    ASSUME SInv, SInv', NEW s \in Numbers, Hearing(s), UNCHANGED setting,
           cancelled[s] => cancelled'[s], NEW b, b = Receiver(s), Reaches(b, s),
           Stays(b, s) \/ ReadsNo(b, s)
    PROVE  Hearing(s)'
BY SidesIn, HeardKept, NewHeard DEF SInv, Receiver, Sender, Size, Stopped, Hearing, ReadsNo,
   Early, Stays, Heard, GoesOn

(* What a step owes a transfer for it to stay whole.                       *)
LEMMA WholeKept ==
    ASSUME SInv, NEW s \in Numbers, Whole(s), UNCHANGED setting,
           \A e \in Ends : Reaches(e, s),
           NEW a, NEW b, a = Sender(s), b = Receiver(s),
           SaysNoEnd(a, s) \/ wrote[a][s] = Size(s),
           wrote[a][s] = Size(s) => wrote'[a][s] = wrote[a][s],
           SaysNoEnd(b, s) \/ placed'[s] # NoFile,
           \/ placed'[s] = placed[s]
           \/ placed'[s] # NoFile /\ (Stopped(s) \/ placed'[s] = Size(s)),
           cancelled[s] => cancelled'[s],
           reported'[s] = "ok" => reported[s] = "ok" \/ placed'[s] # NoFile,
           Hearing(s)', Starts(s)'
    PROVE  Whole(s)'
BY SidesIn, Peers, EndedKept DEF SInv, Sender, Receiver, Size, Stopped, Whole, Kept

(* A step that does nothing for the transfer: it stays whole.              *)
Spared(s) ==
    /\ \A e \in Ends : job'[e][s] = job[e][s]
    /\ temp'[s] = temp[s] /\ placed'[s] = placed[s]
    /\ cancelled'[s] = cancelled[s] /\ reported'[s] = reported[s]
    /\ s \in asked' => \/ s \in asked
                       \/ AsNew(Entry("server", s)) /\ job["server"][s] \in {"idle", "gone"}
(* Where a Stream is calm and its threads rest, its transfer is as it was. *)
LEMMA CalmKept ==
    ASSUME SInv, SInv', NEW s \in Numbers, UNCHANGED setting, Calm(s), Spared(s)
    PROVE  (IF IsTransfer(s) THEN Whole(s) ELSE Rests(s)) =>
           (IF IsTransfer(s) THEN Whole(s) ELSE Rests(s))'
BY SidesIn, HearingKept, Peers, WholeKept DEF IsTransfer, Rests, Spared, SInv, Calm, Stays, Whole,
   Starts, Receiver, Sender

(* A step for one Stream, and the others.                                  *)
LEMMA OthersKept ==
    ASSUME WholeInv, TInv', UNCHANGED <<wire, setting>>, NEW s,
           \A t \in Numbers \ {s} : Calm(t) /\ Spared(t),
           s \in Numbers => (IF IsTransfer(s) THEN Whole(s) ELSE Rests(s))'
    PROVE  WholeInv'
BY NothingComes, CalmKept DEF WholeInv, AllWhole, TInv

(* A thread's step on its Stream spares the other transfers.               *)
LEMMA SparedIs ==
    ASSUME Threads, NEW s \in Numbers, NEW e \in Ends, NEW stage, NEW x, NEW y,
           UNCHANGED job \/ Go(e, s, stage),
           UNCHANGED temp \/ temp' = [temp EXCEPT ![s] = x],
           UNCHANGED placed \/ placed' = [placed EXCEPT ![s] = y],
           UNCHANGED cancelled \/ cancelled' = [cancelled EXCEPT ![s] = TRUE],
           UNCHANGED reported \/ Ok(e, s) \/ Fails(e, s),
           asked' \subseteq asked
    PROVE  \A t \in Numbers \ {s} : Spared(t)
BY DEF Threads, Go, Ok, Fails, Spared

(* Where the thread that steps then stands.                                *)
LEMMA GoneTo ==
    ASSUME Threads, NEW s \in Numbers, NEW e \in Ends, NEW stage, Go(e, s, stage)
    PROVE  job'[e][s] = stage /\ \A d \in Ends \ {e} : job'[d][s] = job[d][s]
BY DEF Threads, Go

Onward(e, s, stage) ==
    \/ UNCHANGED job
    \/ /\ Go(e, s, stage) /\ stage # "opening"
       /\ e = "server" => s \notin asked' \/ stage = "gone"

(* A transfer's number is not in use before its threads begin.             *)
LEMMA StartsKept ==
    ASSUME Threads, NEW s \in Numbers, NEW e \in Ends, NEW stage, Starts(s),
           Onward(e, s, stage),
           asked' \subseteq asked, UNCHANGED setting
    PROVE  Starts(s)'
BY GoneTo, Peers DEF Receiver, Sender, Starts, Onward

(* Who has a place in the code has answered the Open.                      *)
LEMMA Answered ==
    ASSUME WholeInv, NEW s \in Numbers, NEW e \in Ends, IsTransfer(s),
           job[e][s] \notin {"idle", "gone"}
    PROVE  /\ Whole(s) /\ s \in held[e]
           /\ e = "server" => s \notin asked
BY DEF WholeInv, AllWhole, TInv, Threads, Whole, Starts

(* What a thread's step on its transfer owes.                              *)
LEMMA ThreadKeepsWhole ==
    ASSUME WholeInv, TInv', NEW s \in Numbers, IsTransfer(s), NEW e \in Ends, NEW stage,
           Onward(e, s, stage),
           UNCHANGED <<wire, setting>>, asked' \subseteq asked,
           \A t \in Numbers \ {s} : Calm(t) /\ Spared(t),
           \A d \in Ends : Reaches(d, s),
           NEW a, NEW b, a = Sender(s), b = Receiver(s),
           SaysNoEnd(a, s) \/ wrote[a][s] = Size(s),
           wrote[a][s] = Size(s) => wrote'[a][s] = wrote[a][s],
           SaysNoEnd(b, s) \/ placed'[s] # NoFile,
           \/ placed'[s] = placed[s]
           \/ placed'[s] # NoFile /\ (Stopped(s) \/ placed'[s] = Size(s)),
           cancelled[s] => cancelled'[s],
           reported'[s] = "ok" => reported[s] = "ok" \/ placed'[s] # NoFile,
           Stays(b, s) \/ ReadsNo(b, s) \/ Hearing(s)'
    PROVE  WholeInv'
BY SidesIn, HearingKept, StartsKept, WholeKept, OthersKept DEF WholeInv, AllWhole, TInv, SInv,
   Whole, IsTransfer

(* A step of which nobody else knows.                                      *)
LEMMA LooksIsCalm ==
    ASSUME SInv, UNCHANGED vars
    PROVE  (\A t \in Numbers : Calm(t)) /\ UNCHANGED <<wire, setting, wrote, asked, state>>
BY NothingDone DEF SInv, TypeOK, Ends, Set, vars

(* What one end's step, and a calm one, leave of the rest.                 *)
LEMMA HalfGives ==
    ASSUME TypeOK, NEW e \in Ends, NEW s \in Numbers, Half(e, s)
    PROVE  /\ \A d \in Ends : Reaches(d, s)
           /\ \A d \in Ends \ {e} : SaysNoEnd(d, s) /\ KeepsUp(d, s) /\ GoesOn(d, s)
           /\ Sender(s) # Receiver(s) /\ Sender(s) \in Ends /\ Receiver(s) \in Ends
           /\ Peer(Sender(s)) = Receiver(s) /\ Peer(Receiver(s)) = Sender(s)
BY Peers, SidesIn DEF Half
(* What a calm step leaves.                                                *)
LEMMA CalmGives ==
    ASSUME TypeOK, NEW s \in Numbers, Calm(s)
    PROVE  /\ \A d \in Ends : /\ Reaches(d, s) /\ SaysNoEnd(d, s) /\ KeepsUp(d, s) /\ GoesOn(d, s)
                              /\ wrote'[d][s] = wrote[d][s]
           /\ Sender(s) # Receiver(s) /\ Sender(s) \in Ends /\ Receiver(s) \in Ends
           /\ Peer(Sender(s)) = Receiver(s) /\ Peer(Receiver(s)) = Sender(s)
BY SidesIn, Peers DEF Calm

(* The threads that wait, and what they find.                              *)
LEMMA WaitingWhole ==
    ASSUME WholeInv, TInv', NEW s \in Numbers,
           Opened(s) \/ NotOpened(s) \/ ReceiveEnds(s) \/ ReceiveFails(s)
    PROVE  WholeInv'
<1>1. TInv /\ SInv /\ SInv' /\ Threads /\ TypeOK /\ IsTransfer(s)
  BY DEF WholeInv, TInv, SInv, Opened, NotOpened, ReceiveEnds, ReceiveFails, At
<1>2. PICK a, b : a = Sender(s) /\ b = Receiver(s)
  OBVIOUS
<1>3. UNCHANGED vars /\ UNCHANGED <<placed, cancelled>>
  BY DEF Opened, NotOpened, ReceiveEnds, ReceiveFails
<1>4. (\A t \in Numbers : Calm(t)) /\ UNCHANGED <<wire, setting, wrote, asked, state>>
  BY <1>1, <1>3, LooksIsCalm
<1>5. a \in Ends /\ b \in Ends /\ a # b
  BY <1>1, <1>2, <1>4, CalmGives
<1>6. job[b][s] \in {"opening", "reading"} /\ Whole(s)
  BY <1>1, Answered, Peers, <1>2, <1>5 DEF Opened, NotOpened, At, Whole, Starts, ReceiveEnds,
     ReceiveFails
<1>7. b = "server" => s \notin asked
  BY <1>1, <1>5, <1>6, Answered
<1>8. Starts(s)
  BY <1>6 DEF Whole
<1>9. ASSUME Opened(s) PROVE b = "client" /\ Hearing(s)' /\ Go(b, s, "reading")
                             /\ temp' = [temp EXCEPT ![s] = 0] /\ UNCHANGED reported
  <2>1. /\ b = "client" /\ Go(b, s, "reading") /\ temp' = [temp EXCEPT ![s] = 0]
        /\ job[b][s] = "opening" /\ UNCHANGED reported
    BY <1>2, <1>8, <1>9 DEF Opened, At, Starts
  <2>2. job'[b][s] = "reading" /\ temp'[s] = 0
    BY <1>1, <1>5, <2>1, GoneTo DEF Threads
  <2>3. Entry(b, s)' = Entry(b, s) /\ b = Receiver(s)' /\ (Stopped(s)' <=> Stopped(s))
    BY <1>2, <1>3, <1>4 DEF Entry, Receiver, Sender, Stopped
  <2>4. ASSUME ~Stopped(s) PROVE Heard(b, s)' /\ Entry(b, s)'.consumed = 0
    <3>1. Heard(b, s) /\ Entry(b, s).consumed = 0
      BY <1>2, <1>6, <2>1, <2>4 DEF Whole, Hearing, Early
    <3>2. Reaches(b, s) /\ KeepsUp(b, s) /\ GoesOn(b, s)
      BY <1>4, <1>5 DEF Calm
    <3>3. Heard(b, s)'
      BY <1>1, <1>5, <2>3, <3>1, <3>2, HeardKept
    <3> QED
      BY <2>3, <3>1, <3>3
  <2>5. ~Early(s)'
    BY <1>4, <2>1, <2>2, <2>3 DEF Early
  <2>6. Hearing(s)'
    BY <2>2, <2>3, <2>4, <2>5 DEF Hearing, NoFile
  <2> QED
    BY <2>1, <2>6
<1>10. ASSUME ReceiveEnds(s) PROVE Hearing(s)' /\ Go(b, s, "placing") /\ UNCHANGED <<temp, reported>>
  <2>1. Go(b, s, "placing") /\ UNCHANGED <<temp, reported>> /\ job[b][s] = "reading"
        /\ ReadResult(state[b], s) = "end"
    BY <1>2, <1>10 DEF ReceiveEnds, At
  <2>2. job'[b][s] = "placing"
    BY <1>1, <1>5, <2>1, GoneTo
  <2>3. b = Receiver(s)' /\ (Stopped(s)' <=> Stopped(s)) /\ Size(s)' = Size(s)
    BY <1>2, <1>3, <1>4 DEF Receiver, Sender, Stopped, Size
  <2>4. ASSUME ~Stopped(s) PROVE temp[s] = Size(s)
    BY <2>1, <1>2, <1>6, <2>4, <1>5, Peers, <1>1 DEF ReadResult, Entry, Whole, Hearing, Receiver,
       Heard, Ended, SInv, Local, EntryOk, Sane, Unread
  <2>5. temp[s] # NoFile
    BY <1>2, <1>6, <2>1 DEF Whole, Hearing
  <2>6. ~Early(s)'
    BY <1>4, <1>7, <2>2, <2>3 DEF Early
  <2>7. Hearing(s)'
    BY <2>1, <2>2, <2>3, <2>4, <2>5, <2>6 DEF Hearing
  <2> QED
    BY <2>1, <2>7
<1>11. ASSUME NotOpened(s) \/ ReceiveFails(s)
       PROVE  Fails(b, s) /\ Go(b, s, "leaving") /\ ReadsNo(b, s) /\ UNCHANGED temp
  BY <1>2, <1>8, <1>11, <1>1, <1>5, GoneTo, <1>4, <1>7 DEF NotOpened, ReceiveFails, At, Starts,
     Fails, ReadsNo
<1>12. PICK stage \in {"reading", "placing", "leaving"} :
         /\ Go(b, s, stage) /\ (UNCHANGED reported \/ Fails(b, s))
         /\ UNCHANGED temp \/ temp' = [temp EXCEPT ![s] = 0]
         /\ ReadsNo(b, s) \/ Hearing(s)'
  BY <1>9, <1>10, <1>11
<1>13. \A t \in Numbers \ {s} : Spared(t)
  BY <1>1, <1>3, <1>4, <1>5, <1>12, SparedIs
<1>14. Onward(b, s, stage)
  BY <1>4, <1>7, <1>12 DEF Onward
<1>15. /\ \A d \in Ends : Reaches(d, s)
       /\ SaysNoEnd(a, s) /\ SaysNoEnd(b, s)
       /\ \A t \in Numbers \ {s} : Calm(t) /\ Spared(t)
  BY <1>4, <1>5, <1>13 DEF Calm
<1>16. reported'[s] = "ok" => reported[s] = "ok"
  BY <1>1, <1>12 DEF Threads, Fails
<1>17. placed'[s] = placed[s] /\ (cancelled[s] => cancelled'[s]) /\ wrote'[a][s] = wrote[a][s]
       /\ asked' \subseteq asked /\ UNCHANGED <<wire, setting>>
  BY <1>3, <1>4
<1> QED
  BY <1>1, <1>2, <1>5, <1>12, <1>14, <1>15, <1>16, <1>17, ThreadKeepsWhole

(* The sending thread: it writes, ends what it wrote, and hears of it.     *)
LEMMA SendingWhole ==
    ASSUME WholeInv, TInv', NEW s \in Numbers,
           Send(s) \/ SendFails(s) \/ SendEnds(s) \/ Confirmed(s) \/ NotConfirmed(s)
    PROVE  WholeInv'
<1>1. TInv /\ SInv /\ SInv' /\ Threads /\ TypeOK /\ IsTransfer(s)
  BY DEF WholeInv, TInv, SInv, Send, SendFails, SendEnds, Confirmed, NotConfirmed, At
<1>2. PICK a, b : a = Sender(s) /\ b = Receiver(s)
  OBVIOUS
<1>3. /\ a \in Ends /\ b \in Ends /\ a # b /\ Peer(a) = b /\ Peer(b) = a /\ Size(s) \in Nat
      /\ wrote[a] \in [Numbers -> Nat]
  BY <1>1, <1>2, SidesIn, Peers DEF TypeOK
<1>4. job[a][s] \notin {"idle", "gone"}
  BY <1>2 DEF Send, SendFails, SendEnds, Confirmed, NotConfirmed, At
<1>5. Whole(s) /\ s \in held[a] /\ (a = "server" => s \notin asked)
  BY <1>1, <1>3, <1>4, Answered
<1>6. UNCHANGED <<temp, placed, cancelled>> /\ UNCHANGED <<asked, wire, setting>>
  BY DEF Send, SendFails, SendEnds, Confirmed, NotConfirmed, Engine, jobVars, vars
<1>7. PICK stage \in {"confirming", "leaving"} :
         /\ UNCHANGED job \/ Go(a, s, stage)
         /\ UNCHANGED reported \/ Ok(a, s) \/ Fails(a, s)
  BY <1>2 DEF Send, SendFails, SendEnds, Confirmed, NotConfirmed, jobVars, Fails
<1>8. (\A t \in Numbers \ {s} : Spared(t)) /\ Onward(a, s, stage)
  BY <1>1, <1>3, <1>6, <1>7, SparedIs, <1>5 DEF Onward
<1>9. reported'[s] = "ok" => reported[s] = "ok" \/ placed'[s] # NoFile
  BY <1>1, <1>2, <1>3, <1>5, <1>6 DEF Threads, Fails, Confirmed, ReadResult, Entry, Ended, Whole,
     Send, SendFails, SendEnds, NotConfirmed, jobVars
<1>10. /\ \A t \in Numbers \ {s} : Calm(t)
       /\ Half(a, s)
       /\ SaysNoEnd(a, s) \/ wrote[a][s] = Size(s)
       /\ wrote[a][s] = Size(s) => wrote'[a][s] = wrote[a][s]
  <2>1. CASE Send(s)
    <3>1. PICK size : size = Taken(state[a], s, Size(s) - wrote[a][s])
      OBVIOUS
    <3>2. /\ wrote[a][s] < Size(s) /\ CanWrite(state[a], s)
          /\ Engine(a, Written(state[a], s, size))
          /\ wrote' = [wrote EXCEPT ![a][s] = @ + size]
      BY <1>2, <2>1, <3>1 DEF Send
    <3>3. Size(s) - wrote[a][s] \in Nat \ {0} /\ wrote[a][s] # Size(s)
      BY <1>3, <3>2
    <3>4. size \in Nat \ {0}
      BY <1>1, <1>3, <3>1, <3>2, <3>3, TakenIs DEF TypeOK
    <3>5. (\A t \in Numbers \ {s} : Calm(t)) /\ Half(a, s) /\ SaysNoEnd(a, s)
      BY <1>1, <1>3, <1>5, <3>2, <3>4, WriteIsCalm
    <3> QED
      BY <3>3, <3>5
  <2>2. CASE SendEnds(s)
    BY <1>2, <2>2, <1>1, <1>3, <1>5, FinishIsCalm DEF SendEnds
  <2>3. CASE SendFails(s) \/ Confirmed(s) \/ NotConfirmed(s)
    BY <2>3, <1>1, LooksIsCalm, <1>3 DEF SendFails, Confirmed, NotConfirmed, Calm, Half
  <2> QED
    BY <2>1, <2>2, <2>3
<1>11. /\ \A d \in Ends : Reaches(d, s)
       /\ SaysNoEnd(b, s) /\ KeepsUp(b, s) /\ GoesOn(b, s)
  BY <1>3, <1>10 DEF Half
<1>12. Stays(b, s)
  BY <1>1, <1>3, <1>7, GoneTo, <1>6, <1>11 DEF Stays
<1>13. asked' \subseteq asked /\ placed'[s] = placed[s] /\ (cancelled[s] => cancelled'[s])
  BY <1>6
<1>14. \A t \in Numbers \ {s} : Calm(t) /\ Spared(t)
  BY <1>8, <1>10
<1>15. SaysNoEnd(b, s) \/ placed'[s] # NoFile
  BY <1>11
<1>16. Stays(b, s) \/ ReadsNo(b, s) \/ Hearing(s)'
  BY <1>12
<1> QED
  BY <1>1, <1>2, <1>3, <1>6, <1>8, <1>9, <1>10, <1>11, <1>13, <1>14, <1>15, <1>16, ThreadKeepsWhole

(* The receiving thread reads on, or puts its file in place.               *)
LEMMA PlacingWhole ==
    ASSUME WholeInv, TInv', NEW s \in Numbers, ReceiveChunk(s) \/ Place(s)
    PROVE  WholeInv'
<1>1. TInv /\ SInv /\ SInv' /\ Threads /\ TypeOK /\ IsTransfer(s)
  BY DEF WholeInv, TInv, SInv, ReceiveChunk, Place, At
<1>2. PICK a, b : a = Sender(s) /\ b = Receiver(s)
  OBVIOUS
<1>3. /\ a \in Ends /\ b \in Ends /\ a # b /\ Peer(a) = b /\ Peer(b) = a /\ Size(s) \in Nat
  BY <1>1, <1>2, SidesIn, Peers DEF TypeOK
<1>4. job[b][s] \in {"reading", "placing"}
  BY <1>2 DEF ReceiveChunk, Place, At
<1>5. Whole(s) /\ s \in held[b] /\ (b = "server" => s \notin asked)
  BY <1>1, <1>3, <1>4, Answered
<1>6. UNCHANGED <<wrote, cancelled>> /\ UNCHANGED <<asked, wire, setting>>
  BY DEF ReceiveChunk, Place, Engine
<1>7. temp[s] # NoFile /\ temp[s] \in Nat /\ Hearing(s)
  BY <1>1, <1>2, <1>4, <1>5 DEF Whole, Hearing, Threads
<1>8. CASE ReceiveChunk(s)
  <2>1. PICK size : size = Head(state[b].entry[s].inbound).size
    OBVIOUS
  <2>2. /\ Engine(b, ReadChunk(state[b], s)) /\ ReadResult(state[b], s) = "chunk"
        /\ temp' = [temp EXCEPT ![s] = @ + size] /\ job[b][s] = "reading"
        /\ UNCHANGED <<job, placed, reported>>
    BY <1>2, <1>8, <2>1 DEF ReceiveChunk, At
  <2>3. /\ \A t \in Numbers \ {s} : Calm(t)
        /\ Half(b, s) /\ SaysNoEnd(b, s) /\ KeepsUp(b, s)
        /\ Entry(b, s)'.handle_alive /\ (Entry(b, s).peer_finished => Entry(b, s)'.peer_finished)
        /\ Entry(b, s)'.consumed = Entry(b, s).consumed + size
    BY <1>1, <1>3, <1>5, <1>6, <2>1, <2>2, ReadIsCalm
  <2>4. \A t \in Numbers \ {s} : Spared(t)
    BY <2>2, <1>6, <1>1, <1>3, SparedIs
  <2>5. (\A d \in Ends : Reaches(d, s)) /\ SaysNoEnd(a, s)
    BY <1>3, <2>3 DEF Half
  <2>6. Hearing(s)'
    <3>1. b = Receiver(s)' /\ (Stopped(s)' <=> Stopped(s)) /\ job'[b][s] = "reading"
      BY <1>2, <1>6, <2>2 DEF Receiver, Sender, Stopped
    <3>2. temp'[s] = temp[s] + size
      BY <1>1, <2>2 DEF Threads
    <3>3. temp'[s] # NoFile
      <4>1. temp'[s] \in Nat \cup {NoFile} /\ temp[s] + size \in Nat
        <5>1. size \in Nat
          <6>1. Entry(b, s).inbound \in Seq(Chunk) /\ Entry(b, s).inbound # <<>>
            BY <1>1, <1>3, <2>2, EntryIn DEF ReadResult, Entry
          <6>2. Head(Entry(b, s).inbound) \in Chunk
            BY <6>1
          <6> QED
            BY <2>1, <6>2 DEF Chunk, Entry
        <5> QED
          BY <1>7, <3>2, <5>1
      <4> QED
        BY <3>2, <4>1 DEF NoFile
    <3>4. ASSUME ~Stopped(s) PROVE Heard(b, s)' /\ temp'[s] = Entry(b, s)'.consumed
      <4>1. Heard(b, s) /\ temp[s] = Entry(b, s).consumed
        BY <1>2, <1>7, <2>2, <3>4 DEF Hearing
      <4>2. Reaches(b, s)
        BY <1>3, <2>5
      <4>3. Heard(b, s)'
        BY <1>1, <1>3, <2>3, <4>1, <4>2, HeardKept
      <4> QED
        BY <2>3, <3>2, <4>1, <4>3
    <3>5. ~Early(s)'
      BY <1>5, <1>6, <3>1 DEF Early
    <3> QED
      BY <3>1, <3>3, <3>4, <3>5 DEF Hearing
  <2>7. Onward(b, s, "reading")
    BY <2>2 DEF Onward
  <2>8. /\ asked' \subseteq asked /\ placed'[s] = placed[s] /\ (cancelled[s] => cancelled'[s])
        /\ reported'[s] = reported[s] /\ wrote'[a][s] = wrote[a][s]
        /\ \A t \in Numbers \ {s} : Calm(t) /\ Spared(t)
    BY <1>6, <2>2, <2>3, <2>4
  <2> QED
    BY <1>1, <1>2, <1>3, <1>6, <2>3, <2>5, <2>6, <2>7, <2>8, ThreadKeepsWhole
<1>9. CASE Place(s)
  <2>1. /\ Engine(b, FinishQueued(state[b], s)) /\ Go(b, s, "leaving") /\ job[b][s] = "placing"
        /\ placed' = [placed EXCEPT ![s] = temp[s]] /\ temp' = [temp EXCEPT ![s] = NoFile]
        /\ Ok(b, s)
    BY <1>2, <1>9 DEF Place, At
  <2>2. (\A t \in Numbers \ {s} : Calm(t)) /\ Half(b, s)
    BY <1>1, <1>3, <1>5, <1>6, <2>1, FinishIsCalm
  <2>3. \A t \in Numbers \ {s} : Spared(t)
    BY <1>6, <1>1, <1>3, <2>1, SparedIs
  <2>4. placed'[s] = temp[s] /\ placed'[s] # NoFile
    BY <1>1, <1>7, <2>1 DEF Threads
  <2>5. Stopped(s) \/ placed'[s] = Size(s)
    BY <1>2, <1>7, <2>1, <2>4 DEF Hearing
  <2>6. (\A d \in Ends : Reaches(d, s)) /\ SaysNoEnd(a, s)
    BY <1>3, <2>2 DEF Half
  <2>7. ReadsNo(b, s) /\ Onward(b, s, "leaving")
    BY <1>1, <1>3, <2>1, GoneTo, <1>5, <1>6 DEF ReadsNo, Onward
  <2>8. /\ asked' \subseteq asked /\ (cancelled[s] => cancelled'[s]) /\ wrote'[a][s] = wrote[a][s]
        /\ \A t \in Numbers \ {s} : Calm(t) /\ Spared(t)
    BY <1>6, <2>2, <2>3
  <2> QED
    BY <1>1, <1>2, <1>3, <1>6, <2>4, <2>5, <2>6, <2>7, <2>8, ThreadKeepsWhole
<1> QED
  BY <1>8, <1>9

(* The Server's worker accepts: an upload is read from its beginning.      *)
LEMMA AcceptWhole ==
    ASSUME WholeInv, TInv', NEW s \in Numbers, AcceptTransfer(s)
    PROVE  WholeInv'
<1>1. TInv /\ SInv /\ SInv' /\ Threads /\ TypeOK /\ IsTransfer(s) /\ Accept(s)
  BY DEF WholeInv, TInv, SInv, AcceptTransfer
<1>2. PICK a, b : a = Sender(s) /\ b = Receiver(s)
  OBVIOUS
<1>3. /\ a \in Ends /\ b \in Ends /\ a # b /\ Peer(a) = b /\ "server" \in Ends
  BY <1>1, <1>2, SidesIn, Peers DEF TypeOK
<1>4. /\ s \in asked /\ asked' = asked \ {s} /\ UNCHANGED <<wire, setting, wrote>>
      /\ UNCHANGED <<placed, cancelled, reported>>
  BY <1>1 DEF AcceptTransfer, Accept, Answer
<1>5. PICK stage \in {"writing", "reading"} :
        /\ Go("server", s, stage)
        /\ a = "server" => UNCHANGED temp
        /\ b = "server" => stage = "reading" /\ temp' = [temp EXCEPT ![s] = 0]
  BY <1>2, <1>3 DEF AcceptTransfer
<1>6. UNCHANGED temp \/ temp' = [temp EXCEPT ![s] = 0]
  BY DEF AcceptTransfer
<1>7. (\A t \in Numbers : Calm(t))
  BY <1>1, AnswerIsCalm
<1>8. \A t \in Numbers \ {s} : Calm(t) /\ Spared(t)
  BY <1>4, <1>1, <1>3, <1>5, <1>6, SparedIs, <1>7
<1>9. /\ \A d \in Ends : Reaches(d, s)
      /\ SaysNoEnd(a, s) /\ SaysNoEnd(b, s) /\ KeepsUp(b, s) /\ GoesOn(b, s)
  BY <1>3, <1>7 DEF Calm
<1>10. Whole(s)
  BY <1>1 DEF WholeInv, AllWhole
<1>11. job'["server"][s] = stage /\ (b # "server" => job'[b][s] = job[b][s])
  BY <1>1, <1>3, <1>5, GoneTo
<1>12. CASE b # "server"
  <2>1. a = "server"
    BY <1>3, <1>12, Peers
  <2>2. Stays(b, s)
    BY <1>4, <1>5, <1>9, <1>11, <1>12, <2>1 DEF Stays
  <2>3. Onward("server", s, stage) /\ asked' \subseteq asked
    BY <1>4, <1>5 DEF Onward
  <2>4. /\ placed'[s] = placed[s] /\ (cancelled[s] => cancelled'[s]) /\ wrote'[a][s] = wrote[a][s]
        /\ reported'[s] = reported[s]
    BY <1>4
  <2> QED
    BY <1>1, <1>2, <1>3, <1>4, <1>8, <1>9, <2>2, <2>3, <2>4, ThreadKeepsWhole
<1>13. CASE b = "server"
  <2>1. b = Receiver(s)' /\ ~Stopped(s) /\ ~Stopped(s)'
    BY <1>2, <1>4, <1>13 DEF Receiver, Sender, Stopped
  <2>2. job'[b][s] = "reading" /\ temp'[s] = 0
    BY <1>1, <1>5, <1>11, <1>13 DEF Threads
  <2>3. Heard(b, s) /\ Entry(b, s).consumed = 0
    BY <1>2, <1>4, <1>10, <1>13, <2>1 DEF Whole, Hearing, Early
  <2>4. /\ Entry(b, s).handle_alive => Entry(b, s)'.handle_alive
        /\ Entry(b, s).peer_finished => Entry(b, s)'.peer_finished
        /\ Entry(b, s)'.consumed = 0
    BY <1>9, <2>3 DEF GoesOn, Heard
  <2>5. Heard(b, s)'
    BY <1>1, <1>3, <1>9, <2>3, <2>4, HeardKept
  <2>6. ~Early(s)'
    BY <1>4, <2>1, <2>2 DEF Early
  <2>7. Hearing(s)'
    BY <2>1, <2>2, <2>4, <2>5, <2>6 DEF Hearing, NoFile
  <2>8. Onward("server", s, stage) /\ asked' \subseteq asked
    BY <1>4, <1>5 DEF Onward
  <2>9. /\ placed'[s] = placed[s] /\ (cancelled[s] => cancelled'[s]) /\ wrote'[a][s] = wrote[a][s]
        /\ reported'[s] = reported[s]
    BY <1>4
  <2> QED
    BY <1>1, <1>2, <1>3, <1>4, <1>8, <1>9, <2>7, <2>8, <2>9, ThreadKeepsWhole
<1> QED
  BY <1>12, <1>13

(* An end gives its Stream up, or is done with it.                         *)
LEMMA GivingUpWhole ==
    ASSUME WholeInv, TInv', NEW s \in Numbers, NEW e \in Ends,
           \/ FileFails(e, s) \/ Leave(e, s)
           \/ e = "server" /\ (RefuseTransfer(s) \/ WorkerFails(s))
    PROVE  WholeInv'
<1>1. TInv /\ SInv /\ SInv' /\ Threads /\ TypeOK /\ IsTransfer(s)
  BY DEF WholeInv, TInv, SInv, FileFails, Leave, RefuseTransfer, WorkerFails, At
<1>2. PICK a, b : a = Sender(s) /\ b = Receiver(s)
  OBVIOUS
<1>3. /\ a \in Ends /\ b \in Ends /\ a # b /\ \A d \in Ends : d = a \/ d = b
      /\ Peer(a) = b /\ Peer(b) = a
  BY <1>1, <1>2, SidesIn, Peers DEF TypeOK
<1>4. UNCHANGED <<wire, setting, wrote, placed, cancelled>>
  BY DEF FileFails, Leave, RefuseTransfer, WorkerFails, Release, Refuse, Answer, Engine
<1>5. Whole(s)
  BY <1>1 DEF WholeInv, AllWhole
<1>6. PICK stage \in {"leaving", "gone"} : Go(e, s, stage)
  BY DEF FileFails, Leave, RefuseTransfer, WorkerFails, Fails
<1>7. UNCHANGED reported \/ Fails(e, s)
  BY DEF FileFails, Leave, RefuseTransfer, WorkerFails
<1>8. /\ UNCHANGED temp \/ temp' = [temp EXCEPT ![s] = NoFile]
      /\ e = a => UNCHANGED temp
  BY <1>2, <1>3 DEF FileFails, Leave, RefuseTransfer, WorkerFails
<1>9. asked' \subseteq asked /\ (e = "server" => s \notin asked')
  BY <1>1, Answered DEF FileFails, Engine, GoesOnWithFile, Leave, RefuseTransfer, WorkerFails,
     Release, Refuse, Answer
<1>10. (\A t \in Numbers \ {s} : Calm(t)) /\ Half(e, s) /\ SaysNoEnd(e, s)
  BY <1>1, Answered, ResetIsCalm, AnswerIsCalm, ReleaseIsCalm DEF FileFails, GoesOnWithFile,
     RefuseTransfer, Leave, WorkerFails
<1>11. \A t \in Numbers \ {s} : Calm(t) /\ Spared(t)
  BY <1>1, <1>4, <1>6, <1>7, <1>8, <1>9, SparedIs, <1>10
<1>12. /\ \A d \in Ends : Reaches(d, s)
       /\ SaysNoEnd(a, s) /\ SaysNoEnd(b, s)
       /\ e = a => KeepsUp(b, s) /\ GoesOn(b, s)
  BY <1>3, <1>10 DEF Half
<1>13. Stays(b, s) \/ ReadsNo(b, s)
  BY <1>1, <1>3, <1>6, GoneTo, <1>8, <1>9, <1>12 DEF Stays, ReadsNo
<1>14. Onward(e, s, stage)
  BY <1>6, <1>9 DEF Onward
<1>15. /\ placed'[s] = placed[s] /\ (cancelled[s] => cancelled'[s]) /\ wrote'[a][s] = wrote[a][s]
       /\ reported'[s] = "ok" => reported[s] = "ok"
  BY <1>1, <1>4, <1>7 DEF Threads, Fails
<1> QED
  BY <1>1, <1>2, <1>4, <1>9, <1>11, <1>12, <1>13, <1>14, <1>15, ThreadKeepsWhole

(* A person cancels.                                                       *)
LEMMA CancelWhole ==
    ASSUME WholeInv, TInv', NEW s \in Numbers, Cancel(s)
    PROVE  WholeInv'
<1>1. TInv /\ SInv /\ SInv' /\ Threads /\ TypeOK /\ IsTransfer(s)
  BY DEF WholeInv, TInv, SInv, Cancel
<1>2. PICK a, b : a = Sender(s) /\ b = Receiver(s)
  OBVIOUS
<1>3. /\ a \in Ends /\ b \in Ends /\ a # b /\ Peer(a) = b /\ Peer(b) = a
      /\ "client" \in Ends /\ (a = "client" \/ b = "client")
  BY <1>1, <1>2, SidesIn, Peers DEF TypeOK
<1>4. /\ job["client"][s] \notin {"idle", "gone"} /\ Engine("client", Reset(state["client"], s))
      /\ cancelled' = [cancelled EXCEPT ![s] = TRUE]
      /\ UNCHANGED <<wrote, job, temp, placed, reported>> /\ UNCHANGED <<wire, setting, asked>>
  BY DEF Cancel, Engine
<1>5. s \in held["client"]
  BY <1>1, <1>3, <1>4, Answered
<1>6. (\A t \in Numbers \ {s} : Calm(t)) /\ Half("client", s) /\ SaysNoEnd("client", s)
  BY <1>1, <1>3, <1>4, <1>5, ResetIsCalm
<1>7. /\ \A d \in Ends : Reaches(d, s)
      /\ SaysNoEnd(a, s) /\ SaysNoEnd(b, s)
      /\ a = "client" => KeepsUp(b, s) /\ GoesOn(b, s)
  BY <1>3, <1>6 DEF Half
<1>8. cancelled'[s]
  BY <1>1, <1>4 DEF Threads
<1>9. asked' \subseteq asked
  BY <1>4
<1>10. \A t \in Numbers \ {s} : Calm(t) /\ Spared(t)
  BY <1>1, <1>3, <1>4, <1>9, SparedIs, <1>6
<1>11. Stays(b, s)
  BY <1>2, <1>4, <1>8, <1>3, <1>7 DEF Stopped, Receiver, Sender, Stays
<1>12. /\ placed'[s] = placed[s] /\ wrote'[a][s] = wrote[a][s] /\ reported'[s] = reported[s]
       /\ Onward("client", s, "gone")
  BY <1>4 DEF Onward
<1> QED
  BY <1>1, <1>2, <1>3, <1>4, <1>7, <1>8, <1>9, <1>10, <1>11, <1>12, ThreadKeepsWhole

(* The Client opens a Stream for a transfer: none of it was heard before.  *)
LEMMA OpenTransferWhole ==
    ASSUME WholeInv, TInv', OpenTransfer
    PROVE  WholeInv'
<1>1. TInv /\ SInv /\ SInv' /\ Threads /\ TypeOK
  BY DEF WholeInv, TInv, SInv
<1>2. PICK s : s = state["client"].highest + 1
  OBVIOUS
<1>3. /\ s \in Numbers /\ Open
      /\ IF IsTransfer(s)
         THEN Go("client", s, IF Sender(s) = "client" THEN "writing" ELSE "opening")
         ELSE UNCHANGED job
      /\ UNCHANGED <<temp, placed, cancelled, reported>>
      /\ UNCHANGED <<wire, setting, asked, wrote>>
  BY <1>2 DEF OpenTransfer, Open
<1>4. \A t \in Numbers : Calm(t)
  BY <1>1, <1>3, OpenIsCalm
<1>5. PICK stage \in {"writing", "opening"} :
        /\ IsTransfer(s) => Go("client", s, stage)
        /\ ~IsTransfer(s) => UNCHANGED job
        /\ stage = "opening" => Sender(s) # "client"
  BY <1>3
<1>6. "client" \in Ends /\ "server" \in Ends /\ asked' \subseteq asked
  BY <1>3, Peers
<1>7. \A t \in Numbers \ {s} : Spared(t)
  BY <1>1, <1>3, <1>5, <1>6, SparedIs
<1>8. CASE ~IsTransfer(s)
  <2>1. Spared(s)
    BY <1>1, <1>3, <1>5, <1>6, <1>8 DEF Spared
  <2>2. (IF IsTransfer(s) THEN Whole(s) ELSE Rests(s))'
    BY <1>1, <1>3, <1>4, <2>1, CalmKept DEF WholeInv, AllWhole
  <2> QED
    BY <1>3, <1>4, <1>7, <2>2, OthersKept
<1>9. CASE IsTransfer(s)
  <2>1. PICK a, b : a = Sender(s) /\ b = Receiver(s)
    OBVIOUS
  <2>2. /\ \A d \in Ends : Reaches(d, s) /\ SaysNoEnd(d, s) /\ KeepsUp(d, s) /\ GoesOn(d, s)
                           /\ wrote'[d][s] = wrote[d][s]
        /\ a \in Ends /\ b \in Ends /\ a # b
    BY <1>1, <1>3, <1>4, <2>1, CalmGives
  <2>3. Whole(s)
    BY <1>3, <1>9 DEF WholeInv, AllWhole
  <2>4. job'["client"][s] = stage /\ job'["server"][s] = job["server"][s]
    BY <1>1, <1>3, <1>5, <1>6, <1>9, Peers, GoneTo
  <2>5. b = Receiver(s)' /\ (stage = "opening" => b = "client")
    BY <1>3, <1>5, <2>1, <2>2 DEF Receiver, Sender, Peer
  <2>6. Starts(s)'
    BY <1>3, <2>3, <2>4, <2>5 DEF Whole, Starts
  <2>7. Hearing(s)'
    <3>1. CASE b = "client"
      <4>1. AsNew(Entry("client", s))
        <5>1. ~Known("client", s)
          BY <1>1, <1>3, <1>6, EntryIn, <1>2 DEF Known
        <5>2. ~Has("client", s)
          BY <1>1, <1>6, <5>1 DEF SInv, Local, EndOk, Has
        <5>3. EntryOk("client", s)
          BY <1>1, <1>3, <1>6 DEF SInv, Local
        <5> QED
          BY <5>2, <5>3 DEF EntryOk
      <4>2. Heard(b, s) /\ Entry(b, s).consumed = 0
        BY <2>2, <3>1, <4>1, <1>3, NewHeard
      <4>3. /\ Entry(b, s).handle_alive => Entry(b, s)'.handle_alive
            /\ Entry(b, s).peer_finished => Entry(b, s)'.peer_finished
            /\ Entry(b, s)'.consumed = 0
        BY <2>2, <4>2 DEF GoesOn, Heard
      <4>4. Heard(b, s)'
        BY <1>1, <1>3, <2>2, <4>2, <4>3, HeardKept
      <4>5. job'[b][s] \notin {"reading", "placing"}
        BY <1>5, <2>4, <3>1
      <4> QED
        BY <2>5, <4>3, <4>4, <4>5 DEF Hearing
    <3>2. CASE b = "server"
      BY <2>4, <3>2, <1>3, <2>2, <1>1, <2>1, <2>3, HearingKept DEF Stays, Whole
    <3> QED
      BY <2>2, <3>1, <3>2 DEF Ends
  <2>8. /\ placed'[s] = placed[s] /\ (cancelled[s] => cancelled'[s])
        /\ reported'[s] = reported[s] /\ wrote'[a][s] = wrote[a][s]
        /\ SaysNoEnd(a, s) /\ SaysNoEnd(b, s)
        /\ \A d \in Ends : Reaches(d, s)
    BY <1>3, <2>2
  <2>9. Whole(s)'
    BY <1>1, <1>3, <2>1, <2>3, <2>6, <2>7, <2>8, WholeKept
  <2>10. IsTransfer(s)'
    BY <1>3, <1>9 DEF IsTransfer
  <2>11. (IF IsTransfer(s) THEN Whole(s) ELSE Rests(s))'
    BY <2>9, <2>10
  <2> QED
    BY <1>3, <1>4, <1>7, <2>11, OthersKept
<1> QED
  BY <1>8, <1>9

(* The holders of a forward put nothing in place.                          *)
LEMMA ForwardWhole ==
    ASSUME WholeInv, TInv', NEW s \in Numbers, ForwardStep(s), UNCHANGED jobVars
    PROVE  WholeInv'
<1>1. TInv /\ SInv /\ SInv' /\ Threads /\ TypeOK /\ ~IsTransfer(s)
  BY DEF WholeInv, TInv, SInv, ForwardStep
<1>2. UNCHANGED <<wire, setting>> /\ asked' \subseteq asked
      /\ UNCHANGED <<job, temp, placed, cancelled, reported>>
  BY DEF ForwardStep, Accept, Refuse, Answer, Hold, Write, Read, Finish, ResetStream, Drop, Release,
         jobVars
<1>3. \A t \in Numbers : Spared(t)
  BY <1>2 DEF Spared
<1>4. \A t \in Numbers \ {s} : Calm(t)
  <2>1. CASE Accept(s) \/ Refuse(s)
    BY <1>1, <2>1, AnswerIsCalm
  <2>2. ASSUME NEW e \in Ends, NEW rest \in setting.portions, Write(e, s, rest)
        PROVE  \A t \in Numbers \ {s} : Calm(t)
    <3>1. PICK size : size = Taken(state[e], s, rest)
      OBVIOUS
    <3>2. /\ s \in held[e] /\ CanWrite(state[e], s) /\ Engine(e, Written(state[e], s, size))
          /\ wrote' = [wrote EXCEPT ![e][s] = @ + size]
      BY <2>2, <3>1 DEF Write, Uses, Engine
    <3>3. rest \in Nat \ {0}
      BY <1>1, <2>2, StreamsAssumption DEF TypeOK, Setting
    <3>4. size \in Nat \ {0}
      BY <1>1, <2>2, <3>1, <3>2, <3>3, TakenIs DEF TypeOK
    <3> QED
      BY <1>1, <2>2, <3>2, <3>4, WriteIsCalm
  <2>3. ASSUME NEW e \in Ends, Read(e, s) \/ Finish(e, s) \/ ResetStream(e, s)
        PROVE  \A t \in Numbers \ {s} : Calm(t)
    BY <2>3, <1>1, ReadIsCalm, FinishIsCalm, ResetIsCalm DEF Read, Finish, ResetStream, Uses,
       Engine
  <2>4. ASSUME NEW e \in Ends, Drop(e, s) PROVE \A t \in Numbers \ {s} : Calm(t)
    BY <1>1, <2>4, ReleaseIsCalm DEF Drop
  <2> QED
    BY <2>1, <2>2, <2>3, <2>4 DEF ForwardStep, Hold
<1>5. (IF IsTransfer(s) THEN Whole(s) ELSE Rests(s))'
  BY <1>1, <1>2 DEF WholeInv, AllWhole, Rests, IsTransfer
<1> QED
  BY <1>2, <1>3, <1>4, <1>5, OthersKept

(* The connection's own steps give a transfer at most an Open to answer.   *)
LEMMA ConnectionWhole ==
    ASSUME WholeInv, TInv', ConnectionStep, UNCHANGED jobVars
    PROVE  WholeInv'
<1>1. TInv /\ SInv /\ SInv' /\ Threads /\ TypeOK
  BY DEF WholeInv, TInv, SInv
<1>2. (\A t \in Numbers : Calm(t)) /\ NothingBehind'
  BY <1>1, ConnectionIsCalm DEF WholeInv
<1>3. UNCHANGED setting
  BY DEF ConnectionStep, Close, WriterStep, ReaderStep, WriteControl, WriteData, PassStale,
         WriteFails, WriteClose, Writes, ReceiveLast, ReceiveOpen, ReceivePing, Receive, ReaderEnds,
         Ping, Break
<1>4. ASSUME NEW t \in Numbers, t \in asked', t \notin asked
      PROVE  AsNew(Entry("server", t)) /\ job["server"][t] \in {"idle", "gone"}
  <2>1. ReceiveOpen
    BY <1>4
       DEF ConnectionStep, Close, WriterStep, ReaderStep, WriteControl, WriteData, PassStale,
           WriteFails, WriteClose, Writes, ReceiveLast, ReceivePing, Receive, ReaderEnds,
           Ping, Break
  <2>2. ~(t <= state["server"].highest)
    BY <1>4, <2>1 DEF ReceiveOpen, Violates
  <2>3. ~Has("server", t)
    BY <1>1, <2>2, Peers DEF SInv, Local, EndOk, Has, Known
  <2>4. EntryOk("server", t)
    BY <1>1, Peers DEF SInv, Local
  <2>5. t \notin held["server"]
    BY <1>1, <2>3, Peers DEF TypeOK, Has
  <2> QED
    BY <1>1, <2>3, <2>4, <2>5, Peers DEF EntryOk, Threads
<1>5. \A t \in Numbers : Spared(t)
  BY <1>4 DEF Spared, jobVars
<1>6. AllWhole'
  BY <1>1, <1>2, <1>3, <1>5, CalmKept DEF AllWhole, WholeInv
<1> QED
  BY <1>2, <1>6 DEF WholeInv

(* Every step keeps the invariant,                                         *)
LEMMA WholeNextKeeps ==
    ASSUME WholeInv, [TNext]_allVars
    PROVE  WholeInv'
<1>1. TInv'
  BY TNextKeeps DEF WholeInv
<1>2. CASE OpenTransfer
  BY <1>1, <1>2, OpenTransferWhole
<1>3. ASSUME NEW s \in Numbers, TransferStep(s) PROVE WholeInv'
  <2>1. ASSUME NEW e \in Ends, ThreadStep(e, s) PROVE WholeInv'
    BY <1>1, <2>1, AcceptWhole, WaitingWhole, SendingWhole, PlacingWhole, GivingUpWhole
       DEF ThreadStep
  <2>2. ASSUME NEW e \in Ends, FileFails(e, s) PROVE WholeInv'
    BY <1>1, <2>2, GivingUpWhole
  <2>3. CASE WorkerFails(s)
    BY <1>1, <2>3, GivingUpWhole, Peers
  <2>4. CASE Cancel(s)
    BY <1>1, <2>4, CancelWhole
  <2> QED
    BY <1>3, <2>1, <2>2, <2>3, <2>4 DEF TransferStep
<1>4. ASSUME NEW s \in Numbers, ForwardStep(s), UNCHANGED jobVars PROVE WholeInv'
  BY <1>1, <1>4, ForwardWhole
<1>5. CASE ConnectionStep /\ UNCHANGED jobVars
  BY <1>1, <1>5, ConnectionWhole
<1>6. CASE UNCHANGED allVars
  BY <1>6, <1>1, LooksIsCalm, CalmKept DEF allVars, jobVars, WholeInv, TInv, Spared, AllWhole,
     NothingBehind, NoneBehind
<1> QED
  BY <1>2, <1>3, <1>4, <1>5, <1>6 DEF TNext

(* and no transfer has begun before the first.                             *)
LEMMA WholeInitHolds ==
    ASSUME TInit
    PROVE  WholeInv
<1>1. TInv
  BY TInitHolds
<1>2. NothingBehind
  BY DEF TInit, Init, NothingBehind, NoneBehind
<1>3. ASSUME NEW s \in Numbers PROVE IF IsTransfer(s) THEN Whole(s) ELSE Rests(s)
  <2>1. /\ \A e \in Ends : job[e][s] = "idle" /\ wire[e] = <<>> /\ Entry(e, s) = NewEntry
        /\ placed[s] = NoFile /\ reported[s] = "none" /\ asked = {}
    BY DEF TInit, Init, NewState, Entry
  <2>2. PICK a, b : a = Sender(s) /\ b = Receiver(s)
    OBVIOUS
  <2>3. a \in Ends /\ b \in Ends /\ Peer(a) = b /\ Peer(b) = a
    BY <1>1, <2>2, SidesIn, Peers DEF TInv, SInv
  <2>4. \A e \in Ends : ~Ended(e, s)
    BY <2>1, Peers, ElementsOfNone DEF On, Line, NewEntry, Arriving, Ended, FinOn, FinDue
  <2>5. Hearing(s) /\ Starts(s) /\ Kept(s)
    BY <2>1, <2>2, <2>3, Peers DEF Hearing, Starts, Kept, Early
  <2> QED
    BY <2>1, <2>2, <2>3, <2>4, <2>5 DEF Whole, Rests
<1> QED
  BY <1>1, <1>2, <1>3 DEF WholeInv, AllWhole

-----------------------------------------------------------------------------
(* A transfer puts the whole file in place or none of it, and reports      *)
(* success only for a file in place, whatever fails on the way, at either  *)
(* end or between them (transfer.rs, server/streams.rs); a download that   *)
(* its user cancels is the exception (PlacedOnlyComplete).                 *)
THEOREM TransfersAreWhole == TSpec => []TransferIsWhole
<1>1. TInit => WholeInv
  BY WholeInitHolds
<1>2. WholeInv /\ [TNext]_allVars => WholeInv'
  BY WholeNextKeeps
<1>3. WholeInv => TransferIsWhole
  BY DEF WholeInv, AllWhole, Whole, Kept, Rests, Stopped, TransferIsWhole
<1> QED
  BY <1>1, <1>2, <1>3, PTL DEF TSpec
=============================================================================
