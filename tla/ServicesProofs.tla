---------------------------- MODULE ServicesProofs ----------------------------
(***************************************************************************)
(* Services of a Server and its host, for every value of their constants.  *)
(* A connection's writer: types, the wakeups of the writer thread, and     *)
(* that a Client never misses an accepted item without the lag notice in   *)
(* its place.  The processes of an endpoint: one Server at most has the    *)
(* bind lock and the socket path, `stopped` means stopped, and restarts    *)
(* are bounded.  The Git watcher: once all is quiet the Server watches its *)
(* Workspaces, knows their disks and has told its Clients.                 *)
(***************************************************************************)
EXTENDS ClientWriter, Supervision, GitWatcher, Induction, FiniteSetTheorems, SequenceTheorems,
        TLAPS

LEMMA NoticeType == LagNotice \in Messages
  BY WriterAssumption DEF LagNotice, Messages

(* What each operation on a queue makes of a well-typed one.               *)
LEMMA SentType ==
    ASSUME NEW p \in Queues, NEW m \in Messages
    PROVE  Sent(p, m) \in Queues
<1>1. m.size \in Nat
  BY WriterAssumption DEF Messages, LagNotice
<1>2. CASE Refusal(p) # "ok"
  BY <1>2 DEF Sent
<1>3. CASE Refusal(p) = "ok" /\ HasRoom(p, m.size)
  <2>1. Append(p.reliable, m) \in Seq(Messages)
    BY DEF Queues
  <2>2. p.bytes + m.size \in 0..MaxBytes
    BY <1>1, <1>3, QueueAssumption DEF HasRoom, Queues
  <2>3. Sent(p, m) = [p EXCEPT !.reliable = Append(p.reliable, m), !.bytes = p.bytes + m.size]
    BY <1>3 DEF Sent, Queues
  <2> QED
    BY <2>1, <2>2, <2>3 DEF Queues
<1>4. CASE Refusal(p) = "ok" /\ ~HasRoom(p, m.size)
  <2>1. <<LagNotice>> \in Seq(Messages)
    BY NoticeType
  <2>2. LagNotice.size \in 0..MaxBytes
    BY WriterAssumption, QueueAssumption DEF LagNotice
  <2>3. Sent(p, m) = Overflowed(p)
    BY <1>4 DEF Sent
  <2> QED
    BY <2>1, <2>2, <2>3 DEF Overflowed, Queues
<1> QED
  BY <1>2, <1>3, <1>4

LEMMA TakenType ==
    ASSUME NEW p \in Queues, HasItem(p)
    PROVE  /\ AfterReceive(p) \in Queues
           /\ Received(p) \in Messages \cup {Clipboard, Render}
<1>1. CASE p.reliable # <<>>
  <2>1. /\ Head(p.reliable) \in Messages
        /\ Tail(p.reliable) \in Seq(Messages)
    BY <1>1 DEF Queues
  <2>2. Saturating(p.bytes, Head(p.reliable).size) \in 0..MaxBytes
    BY <2>1, QueueAssumption DEF Queues, Saturating, Messages
  <2>3. /\ AfterReceive(p) = [p EXCEPT !.reliable = Tail(p.reliable),
                                    !.bytes = Saturating(p.bytes, Head(p.reliable).size)]
        /\ Received(p) = Head(p.reliable)
    BY <1>1 DEF AfterReceive, Received, Queues
  <2> QED
    BY <2>1, <2>2, <2>3 DEF Queues
<1>2. CASE p.reliable = <<>> /\ p.clipboard # <<>>
  BY <1>2 DEF AfterReceive, Received, Queues
<1>3. CASE p.reliable = <<>> /\ p.clipboard = <<>>
  <2>1. p.render = <<Render>> \/ p.render = <<Render, Render>>
    BY <1>3 DEF HasItem, Queues
  <2>2. Head(p.render) = Render /\ Tail(p.render) \in {<<>>, <<Render>>}
    <3>1. CASE p.render = <<Render>>
      BY <3>1
    <3>2. CASE p.render = <<Render, Render>>
      BY <3>2
    <3> QED
      BY <2>1, <3>1, <3>2
  <2>3. AfterReceive(p) = [p EXCEPT !.render = Tail(p.render)] /\ Received(p) = Render
    BY <1>3, <2>2 DEF AfterReceive, Received, Queues
  <2> QED
    BY <2>2, <2>3 DEF Queues
<1> QED
  BY <1>1, <1>2, <1>3

LEMMA SoleElement ==
    ASSUME NEW S, NEW s \in Seq(S), Len(s) = 1
    PROVE  s[1] \in S
OBVIOUS

(* One step of any thread keeps every variable's type.                     *)
LEMMA TypeStep == TypeOK /\ [WriterNext]_writerVars => TypeOK'
<1> SUFFICES ASSUME TypeOK, [WriterNext]_writerVars PROVE TypeOK'
  OBVIOUS
<1> USE DEF TypeOK
<1>1. ASSUME NEW h \in Holders, NEW b \in Sizes, SendReliable(h, b) PROVE TypeOK'
  <2>1. accepted < MaxAccepted => Item(accepted + 1, b) \in Messages
    BY WriterAssumption DEF Item, Messages
  <2> QED
    BY <1>1, <2>1, SentType, WriterAssumption DEF SendReliable, Notify
<1>2. ASSUME NEW h \in Holders, NEW b \in Sizes, SendClosing(h, b) PROVE TypeOK'
  <2> DEFINE m == Closing(accepted + 1, b)
  <2>1. m \in Messages
    BY <1>2, WriterAssumption DEF Closing, Messages, SendClosing
  <2>2. Sent(q, m) \in Queues
    BY <2>1, SentType
  <2>3. SentClosing(q, m) \in Queues
    BY <2>2 DEF SentClosing, Queues
  <2> QED
    BY <1>2, <2>3, WriterAssumption DEF SendClosing, Notify
<1>3. ASSUME NEW h \in Holders, SendClipboard(h) PROVE TypeOK'
  BY <1>3 DEF SendClipboard, SentClipboard, Notify, Queues
<1>4. ASSUME NEW h \in Holders, NEW frames \in {<<Render>>, <<Render, Render>>},
             TrySendRender(h, frames)
      PROVE  TypeOK'
  BY <1>4 DEF TrySendRender, SentRender, Notify, Queues
<1>5. ASSUME NEW h \in Holders, ClearRender(h) PROVE TypeOK'
  BY <1>5 DEF ClearRender, RenderCleared, Queues
<1>6. ASSUME NEW h \in Holders, ResumeAfterLag(h) PROVE TypeOK'
  BY <1>6 DEF ResumeAfterLag, Resumed, Queues
<1>7. ASSUME NEW h \in Holders, NEW other \in Holders \ holders, Clone(h, other) PROVE TypeOK'
  BY <1>7 DEF Clone
<1>8. ASSUME NEW h \in Holders, Drop(h) PROVE TypeOK'
  BY <1>8 DEF Drop, Notify
<1>9. CASE Take
  BY <1>9, TakenType DEF Take
<1>10. CASE Rest
  BY <1>10 DEF Rest
<1>11. CASE Write
  BY <1>11, SoleElement DEF Write, IsReliable, Clipboard, Render
<1>12. CASE FailWrite
  BY <1>12 DEF FailWrite
<1>13. CASE Close
  <2>1. Closed(q) \in Queues
    <3>1. 0 \in 0..MaxBytes /\ <<>> \in Seq(Messages)
      BY QueueAssumption
    <3> QED
      BY <3>1 DEF Closed, Queues
  <2> QED
    BY <1>13, <2>1 DEF Close
<1>14. CASE UNCHANGED writerVars
  BY <1>14 DEF writerVars
<1> QED
  BY <1>1, <1>2, <1>3, <1>4, <1>5, <1>6, <1>7, <1>8, <1>9, <1>10, <1>11, <1>12, <1>13, <1>14
     DEF WriterNext, Sender, WriterThread

LEMMA TypeInit == WriterInit => TypeOK
  BY QueueAssumption, WriterAssumption DEF WriterInit, TypeOK, NewQueue, Queues

(* Every variable has its type.                                            *)
THEOREM TypeCorrect == WriterSpec => []TypeOK
  BY TypeInit, TypeStep, PTL DEF WriterSpec
-----------------------------------------------------------------------------
(* The writer thread never sleeps through work, by induction from types:   *)
(* every operation that queues something or drops the last holder notifies,*)
(* and the others queue nothing.                                           *)
LEMMA WakeupStep == TypeOK /\ NoLostWakeup /\ [WriterNext]_writerVars => NoLostWakeup'
<1> SUFFICES ASSUME TypeOK, NoLostWakeup, [WriterNext]_writerVars, thread' = "waiting"
             PROVE  ~HasItem(q)' /\ ~NothingMoreComes'
  BY DEF NoLostWakeup
<1> USE DEF NoLostWakeup, NothingMoreComes
<1>1. ASSUME NEW h \in Holders, NEW b \in Sizes, SendReliable(h, b)
      PROVE  ~HasItem(q)' /\ ~NothingMoreComes'
  BY <1>1 DEF SendReliable, Notify, Sent
<1>2. ASSUME NEW h \in Holders, NEW b \in Sizes, SendClosing(h, b)
      PROVE  ~HasItem(q)' /\ ~NothingMoreComes'
  BY <1>2 DEF SendClosing, Notify, SentOk, SendResult, SentClosing, Sent
<1>3. ASSUME NEW h \in Holders, SendClipboard(h) PROVE ~HasItem(q)' /\ ~NothingMoreComes'
  BY <1>3 DEF SendClipboard, SentClipboard, Notify
<1>4. ASSUME NEW h \in Holders, NEW frames \in {<<Render>>, <<Render, Render>>},
             TrySendRender(h, frames)
      PROVE  ~HasItem(q)' /\ ~NothingMoreComes'
  BY <1>4 DEF TrySendRender, SentRender, Notify
<1>5. ASSUME NEW h \in Holders, ClearRender(h) PROVE ~HasItem(q)' /\ ~NothingMoreComes'
  BY <1>5 DEF ClearRender, RenderCleared, HasItem, TypeOK, Queues
<1>6. ASSUME NEW h \in Holders, ResumeAfterLag(h) PROVE ~HasItem(q)' /\ ~NothingMoreComes'
  BY <1>6 DEF ResumeAfterLag, Resumed, HasItem, TypeOK, Queues
<1>7. ASSUME NEW h \in Holders, NEW other \in Holders \ holders, Clone(h, other)
      PROVE  ~HasItem(q)' /\ ~NothingMoreComes'
  BY <1>7 DEF Clone
<1>8. ASSUME NEW h \in Holders, Drop(h) PROVE ~HasItem(q)' /\ ~NothingMoreComes'
  BY <1>8 DEF Drop, Notify
<1>9. CASE Rest
  BY <1>9 DEF Rest
<1>10. CASE Take \/ Write \/ FailWrite \/ Close
  BY <1>10 DEF Take, Write, FailWrite, Close
<1>11. CASE UNCHANGED writerVars
  BY <1>11 DEF writerVars
<1> QED
  BY <1>1, <1>2, <1>3, <1>4, <1>5, <1>6, <1>7, <1>8, <1>9, <1>10, <1>11
     DEF WriterNext, Sender, WriterThread

(* recv never waits while there is something to write or nobody to wait    *)
(* for.                                                                    *)
THEOREM WakeupsReachTheThread == WriterSpec => []NoLostWakeup
<1>1. WriterInit => NoLostWakeup
  BY DEF WriterInit, NoLostWakeup
<1> QED
  BY <1>1, TypeInit, TypeStep, WakeupStep, PTL DEF WriterSpec
-----------------------------------------------------------------------------
(* No silent gap.  The stream grows at its end or is cut short, and its    *)
(* last item is always the newest accepted one or the lag notice, so what  *)
(* is appended next may follow it.                                         *)
LastWord ==
    Writing =>
      /\ Stream = <<>> => accepted = 0 /\ ~q.lagged
      /\ Stream # <<>> => Stream[Len(Stream)] = LagNotice \/ Stream[Len(Stream)].seq = accepted

StreamInv == TypeOK /\ NoSilentGap /\ LastWord /\ LaggedSaysSo

LEMMA AppendGapless ==
    ASSUME NEW s \in Seq(Messages), NEW m \in Messages, Gapless(s),
           s = <<>> => Starts(m), s # <<>> => Follows(s[Len(s)], m)
    PROVE  Gapless(Append(s, m))
BY DEF Gapless

LEMMA PrefixGapless ==
    ASSUME NEW s \in Seq(Messages), NEW t \in Seq(Messages), Gapless(s \o t)
    PROVE  Gapless(s)
BY ConcatProperties DEF Gapless

(* How sequences recombine when an item moves along.                       *)
LEMMA ConcatAppend ==
    ASSUME NEW s \in Seq(Messages), NEW t \in Seq(Messages), NEW m \in Messages
    PROVE  s \o Append(t, m) = Append(s \o t, m)
OBVIOUS

LEMMA ConcatHead ==
    ASSUME NEW s \in Seq(Messages), NEW t \in Seq(Messages), t # <<>>
    PROVE  Append(s, Head(t)) \o Tail(t) = s \o t
OBVIOUS

LEMMA WrittenType == TypeOK => Written \in Seq(Messages) /\ Stream \in Seq(Messages)
BY SoleElement, ConcatProperties DEF TypeOK, IsReliable, Clipboard, Render, Written, Queues,
   Stream

LEMMA GaplessWritten == TypeOK /\ NoSilentGap => Gapless(Written) /\ Gapless(delivered)
<1> SUFFICES ASSUME TypeOK, NoSilentGap PROVE Gapless(Written) /\ Gapless(delivered)
  OBVIOUS
<1>1. CASE ~Writing
  BY <1>1 DEF NoSilentGap, Stream, Written, Writing
<1>2. CASE Writing
  <2>1. Written \in Seq(Messages) /\ q.reliable \in Seq(Messages) /\ delivered \in Seq(Messages)
    BY WrittenType DEF TypeOK, Queues
  <2>2. Gapless(Written)
    BY <1>2, <2>1, PrefixGapless DEF NoSilentGap, Stream
  <2>3. CASE thread = "writing" /\ IsReliable(holding[1])
    <3>1. holding[1] \in Messages
      BY <2>3, SoleElement DEF TypeOK, IsReliable, Clipboard, Render
    <3>2. Written = delivered \o <<holding[1]>> /\ <<holding[1]>> \in Seq(Messages)
      BY <2>1, <2>3, <3>1 DEF Written
    <3> QED
      BY <2>1, <2>2, <3>2, PrefixGapless
  <2>4. CASE ~(thread = "writing" /\ IsReliable(holding[1]))
    BY <2>2, <2>4 DEF Written
  <2> QED
    BY <2>2, <2>3, <2>4
<1> QED
  BY <1>1, <1>2

Conclusion == NoSilentGap /\ LastWord /\ LaggedSaysSo

(* A step that leaves the stream, its count and its flags alone.           *)
LEMMA SameStream ==
    ASSUME StreamInv, TypeOK', Writing' = Writing, Stream' = Stream, accepted' = accepted,
           q'.lagged = q.lagged \/ ~q'.lagged,
           Len(q'.reliable) <= Len(q.reliable),
           q'.clipboard = q.clipboard \/ q'.clipboard = <<>> \/ ~q'.lagged,
           q'.render = q.render \/ q'.render = <<>> \/ ~q'.lagged
    PROVE  Conclusion'
BY DEF StreamInv, TypeOK, Queues, Conclusion, NoSilentGap, LastWord, LaggedSaysSo

(* A step that offers the queue one more reliable item.                    *)
LEMMA OfferedItem ==
    ASSUME StreamInv, TypeOK', NEW m \in Messages, m.seq = accepted + 1,
           Writing' = Writing, Written' = Written, delivered' = delivered,
           \/ q'.reliable = q.reliable /\ q' = q /\ accepted' = accepted
           \/ /\ ~q.lagged /\ ~q'.lagged
              /\ q'.reliable = Append(q.reliable, m) /\ accepted' = accepted + 1
           \/ q' = Overflowed(q) /\ accepted' = accepted
    PROVE  Conclusion'
<1>1. /\ Written \in Seq(Messages) /\ Stream \in Seq(Messages) /\ q.reliable \in Seq(Messages)
      /\ accepted \in Nat /\ q \in Queues
  BY WrittenType, WriterAssumption DEF StreamInv, TypeOK, Queues
<1>2. CASE ~Writing
  BY <1>2 DEF StreamInv, Conclusion, NoSilentGap, LastWord, LaggedSaysSo, Stream
<1>3. CASE Writing /\ q' = q /\ accepted' = accepted
  BY <1>3, <1>1 DEF Stream, StreamInv, Conclusion, NoSilentGap, LastWord, LaggedSaysSo
<1>4. CASE /\ Writing /\ ~q.lagged /\ ~q'.lagged
           /\ q'.reliable = Append(q.reliable, m) /\ accepted' = accepted + 1
  <2>1. Stream' = Append(Stream, m)
    BY <1>1, <1>4, ConcatAppend DEF Stream
  <2>2. Gapless(Append(Stream, m))
    BY <1>4, <1>1, AppendGapless DEF StreamInv, LastWord, Starts, Follows, NoSilentGap
  <2>3. Stream' # <<>> /\ Stream'[Len(Stream')] = m
    BY <1>1, <2>1
  <2> QED
    BY <1>4, <2>1, <2>2, <2>3 DEF Conclusion, NoSilentGap, LastWord, LaggedSaysSo
<1>5. CASE Writing /\ q' = Overflowed(q) /\ accepted' = accepted
  <2>1. /\ q'.reliable = <<LagNotice>> /\ q'.lagged
        /\ q'.clipboard = <<>> /\ q'.render = <<>>
    BY <1>1, <1>5 DEF Overflowed, Queues
  <2>2. Stream' = Append(Written, LagNotice)
    BY <1>1, <1>5, <2>1 DEF Stream
  <2>3. Gapless(Append(Written, LagNotice))
    BY <1>1, GaplessWritten, AppendGapless, NoticeType DEF StreamInv, Starts, Follows
  <2>4. Stream' # <<>> /\ Stream'[Len(Stream')] = LagNotice
    BY <1>1, <2>2
  <2> QED
    BY <2>1, <2>2, <2>3, <2>4 DEF Conclusion, NoSilentGap, LastWord, LaggedSaysSo
<1> QED
  BY <1>2, <1>3, <1>4, <1>5

LEMMA StreamStep == StreamInv /\ [WriterNext]_writerVars => StreamInv'
<1> SUFFICES ASSUME StreamInv, [WriterNext]_writerVars PROVE Conclusion'
  BY TypeStep DEF StreamInv, Conclusion
<1>0. TypeOK /\ TypeOK'
  BY TypeStep DEF StreamInv
<1>1. ASSUME NEW h \in Holders, NEW b \in Sizes, SendReliable(h, b) PROVE Conclusion'
  <2> DEFINE m == Item(accepted + 1, b)
  <2>1. m \in Messages /\ m.seq = accepted + 1
    BY <1>0, <1>1, WriterAssumption DEF Item, Messages, SendReliable, TypeOK
  <2>2. Writing' = Writing /\ Written' = Written /\ delivered' = delivered
    BY <1>0, <1>1 DEF SendReliable, Notify, Writing, Written, TypeOK
  <2>3. CASE SentOk(q, m)
    BY <1>0, <1>1, <2>1, <2>2, <2>3, OfferedItem
       DEF SendReliable, SentOk, SendResult, Sent, Refusal, TypeOK, Queues
  <2>4. CASE ~SentOk(q, m)
    BY <1>0, <1>1, <2>1, <2>2, <2>4, OfferedItem DEF SendReliable, SentOk, SendResult, Sent
  <2> QED
    BY <2>3, <2>4
<1>2. ASSUME NEW h \in Holders, NEW b \in Sizes, SendClosing(h, b) PROVE Conclusion'
  <2> DEFINE m == Closing(accepted + 1, b)
  <2>1. m \in Messages /\ m.seq = accepted + 1
    BY <1>0, <1>2, WriterAssumption DEF Closing, Messages, SendClosing, TypeOK
  <2>2. Writing' = Writing /\ Written' = Written /\ delivered' = delivered
    BY <1>0, <1>2 DEF SendClosing, Notify, Writing, Written, TypeOK
  <2>3. CASE SentOk(q, m)
    BY <1>0, <1>2, <2>3, <2>1, <2>2, OfferedItem DEF SendClosing, SentClosing, SentOk, SendResult,
       Sent, Refusal, TypeOK, Queues
  <2>4. CASE ~SentOk(q, m)
    BY <1>0, <1>2, <2>1, <2>2, <2>4, OfferedItem
       DEF SendClosing, SentClosing, SentOk, SendResult, Sent
  <2> QED
    BY <2>3, <2>4
<1>3. ASSUME NEW h \in Holders,
             \/ SendClipboard(h) \/ ClearRender(h) \/ ResumeAfterLag(h)
             \/ \E frames \in {<<Render>>, <<Render, Render>>} : TrySendRender(h, frames)
      PROVE  Conclusion'
  <2>1. /\ q'.reliable = q.reliable /\ accepted' = accepted
        /\ q'.lagged = q.lagged \/ ~q'.lagged
        /\ q'.clipboard = q.clipboard \/ q'.clipboard = <<>> \/ ~q'.lagged
        /\ q'.render = q.render \/ q'.render = <<>> \/ ~q'.lagged
    BY <1>0, <1>3 DEF SendClipboard, SentClipboard, Refusal, TypeOK, Queues, ClearRender,
       RenderCleared, ResumeAfterLag, Resumed, TrySendRender, SentRender, RenderResult
  <2>2. Writing' = Writing /\ Written' = Written /\ delivered' = delivered
    BY <1>0, <1>3 DEF SendClipboard, ClearRender, ResumeAfterLag, TrySendRender, Notify,
                      Writing, Written, TypeOK
  <2>3. Stream' = Stream
    BY <2>1, <2>2 DEF Stream
  <2>4. Len(q'.reliable) <= Len(q.reliable)
    BY <1>0, <2>1 DEF TypeOK, Queues
  <2> QED
    BY <1>0, <2>1, <2>2, <2>3, <2>4, SameStream
<1>4. ASSUME NEW h \in Holders, Drop(h) \/ \E other \in Holders \ holders : Clone(h, other)
      PROVE  Conclusion'
  BY <1>0, <1>4 DEF Drop, Clone, Notify, Writing, Written, Stream, TypeOK, StreamInv, Conclusion,
     NoSilentGap, LastWord, LaggedSaysSo
<1>5. CASE Take
  <2>1. q.reliable \in Seq(Messages) /\ delivered \in Seq(Messages) /\ q \in Queues
    BY <1>0 DEF TypeOK, Queues
  <2>2. /\ Writing /\ Writing' /\ delivered' = delivered /\ accepted' = accepted
        /\ Written = delivered /\ holding'[1] = Received(q) /\ thread' = "writing"
        /\ q' = AfterReceive(q)
    BY <1>5 DEF Take, Writing, Written
  <2>3. CASE q.reliable # <<>>
    <3>1. /\ Received(q) = Head(q.reliable) /\ q'.reliable = Tail(q.reliable)
          /\ q'.lagged = q.lagged /\ q'.clipboard = q.clipboard /\ q'.render = q.render
      BY <2>1, <2>2, <2>3 DEF Received, AfterReceive, Queues
    <3>2. IsReliable(Head(q.reliable))
      <4>1. Head(q.reliable) \in Messages
        BY <2>1, <2>3
      <4> QED
        BY <4>1 DEF IsReliable, Messages
    <3>3. Stream' = Append(delivered, Head(q.reliable)) \o Tail(q.reliable)
      BY <2>2, <3>1, <3>2 DEF Stream, Written
    <3>4. Stream' = Stream
      BY <2>1, <2>2, <2>3, <3>3, ConcatHead DEF Stream
    <3>5. Len(q'.reliable) <= Len(q.reliable)
      BY <2>1, <2>3, <3>1
    <3> QED
      BY <1>0, <2>2, <3>1, <3>4, <3>5, SameStream
  <2>4. CASE q.reliable = <<>>
    <3>1. /\ q'.reliable = q.reliable /\ q'.lagged = q.lagged
          /\ Received(q) \in {Clipboard, Render} /\ ~q.lagged
      <4>1. ~q.lagged
        BY <1>5, <2>2, <2>4 DEF Take, HasItem, StreamInv, LaggedSaysSo
      <4>2. CASE q.clipboard # <<>>
        BY <2>1, <2>2, <2>4, <4>1, <4>2 DEF Received, AfterReceive, Queues
      <4>3. CASE q.clipboard = <<>>
        <5>1. q.render = <<Render>> \/ q.render = <<Render, Render>>
          BY <1>5, <2>1, <2>4, <4>3 DEF Take, HasItem, Queues
        <5>2. Head(q.render) = Render
          BY <5>1
        <5> QED
          BY <2>1, <2>2, <2>4, <4>1, <4>3, <5>2 DEF Received, AfterReceive, Queues
      <4> QED
        BY <4>2, <4>3
    <3>2. Written' = delivered
      BY <2>2, <3>1 DEF Written, IsReliable, Clipboard, Render
    <3>3. Stream' = Stream
      BY <2>2, <3>1, <3>2 DEF Stream
    <3>4. Len(q'.reliable) <= Len(q.reliable)
      BY <2>1, <3>1
    <3> QED
      BY <1>0, <2>2, <3>1, <3>3, <3>4, SameStream
  <2> QED
    BY <2>3, <2>4
<1>6. CASE Rest
  BY <1>6, GaplessWritten DEF Rest, Stream, Writing, Written, StreamInv, Conclusion, NoSilentGap,
     LastWord, LaggedSaysSo
<1>7. CASE Write
  <2>1. q' = q /\ accepted' = accepted /\ delivered' = Written
    BY <1>7 DEF Write, Written
  <2>2. CASE Writing'
    <3>1. Writing /\ Stream' = Stream
      BY <1>7, <2>1, <2>2 DEF Write, Writing, Stream, Written
    <3> QED
      BY <2>1, <2>2, <3>1 DEF StreamInv, Conclusion, NoSilentGap, LastWord, LaggedSaysSo
  <2>3. CASE ~Writing'
    BY <2>1, <2>3, GaplessWritten
       DEF StreamInv, Conclusion, NoSilentGap, LastWord, LaggedSaysSo, Stream
  <2> QED
    BY <2>2, <2>3
<1>8. CASE FailWrite \/ Close
  BY <1>8, GaplessWritten DEF FailWrite, Close, Writing, StreamInv, Conclusion, NoSilentGap,
     LastWord, LaggedSaysSo, Stream
<1>9. CASE UNCHANGED writerVars
  BY <1>9 DEF writerVars, StreamInv, Conclusion, NoSilentGap, LastWord, LaggedSaysSo, Stream,
              Written, Writing
<1> QED
  BY <1>1, <1>2, <1>3, <1>4, <1>5, <1>6, <1>7, <1>8, <1>9 DEF WriterNext, Sender, WriterThread

LEMMA StreamInit == WriterInit => StreamInv
BY TypeInit DEF WriterInit, NewQueue, Stream, Written, StreamInv, NoSilentGap, Gapless, LastWord,
   LaggedSaysSo

(* What the Client reads never skips an accepted item without a notice.    *)
THEOREM NothingIsSilentlyLost == WriterSpec => []NoSilentGap
<1>1. StreamInv => NoSilentGap
  BY DEF StreamInv
<1> QED
  BY <1>1, StreamInit, StreamStep, PTL DEF WriterSpec

(* While the writer refuses for lag, the notice is the last thing sent.    *)
THEOREM LagIsAnnounced == WriterSpec => []LaggedSaysSo
<1>1. StreamInv => LaggedSaysSo
  BY DEF StreamInv
<1> QED
  BY <1>1, StreamInit, StreamStep, PTL DEF WriterSpec

(* The whole of it: types, no silent gap, and a notice where one is due.   *)
THEOREM StreamsAreHonest == WriterSpec => []StreamIsHonest
<1>1. TypeOK /\ NoSilentGap /\ LaggedSaysSo => StreamIsHonest
  BY DEF StreamIsHonest
<1> QED
  BY <1>1, TypeCorrect, NothingIsSilentlyLost, LagIsAnnounced, PTL
-----------------------------------------------------------------------------
(* The byte count.  It is kept by additions and subtractions, and equals   *)
(* the sum over the queue.                                                 *)
(* SizeOf's sum, as a function of the items counted so far.                *)
Sums(f, s) ==
    /\ f \in [0..Len(s) -> Nat] /\ f[0] = 0
    /\ \A i \in 1..Len(s) : f[i] = f[i - 1] + s[i].size

LEMMA SizesAreNumbers ==
    ASSUME NEW s \in Seq(Messages), NEW i \in 1..Len(s) PROVE s[i].size \in Nat
<1>1. s[i] \in Messages
  OBVIOUS
<1> QED
  BY <1>1 DEF Messages

LEMMA SizeOfIs ==
    ASSUME NEW s \in Seq(Messages)
    PROVE  \E f : Sums(f, s) /\ SizeOf(s) = f[Len(s)]
<1> DEFINE n == Len(s)
           Upto(f) == f = [i \in 0..n |-> IF i = 0 THEN 0 ELSE f[i - 1] + s[i].size]
           step == [i \in 1..n |-> [v \in Nat |-> v + s[i].size]]
<1>1. IsStep(step, n, Nat) /\ \A i \in 1..n : \A v \in Nat : step[i][v] = v + s[i].size
  BY SizesAreNumbers DEF IsStep
<1>2. PICK g : Recurses(g, n, Nat, 0, step)
  <2>1. n \in Nat /\ 0 \in Nat
    OBVIOUS
  <2> HIDE DEF step, n
  <2> QED
    BY <1>1, <2>1, RecursionDefines
<1>3. Sums(g, s)
  <2>1. g \in [0..n -> Nat] /\ g[0] = 0 /\ \A i \in 1..n : g[i] = step[i][g[i - 1]]
    BY <1>2 DEF Recurses
  <2>2. ASSUME NEW i \in 1..n PROVE g[i] = g[i - 1] + s[i].size
    BY <2>1, <1>1
  <2> QED
    BY <2>1, <2>2 DEF Sums
<1>4. Upto(g)
  BY <1>3 DEF Sums
<1> DEFINE f == CHOOSE f : Upto(f)
<1>5. Upto(f)
  BY <1>4
<1>6. SizeOf(s) = f[n]
  BY DEF SizeOf
<1> HIDE DEF f
<1>7. AgreeStepwise(f, g, n)
  BY <1>5, <1>3 DEF AgreeStepwise, Sums
<1>8. f[n] = g[n]
  BY <1>7, RecursionsAgree DEF Agree
<1> QED
  BY <1>3, <1>6, <1>8

(* Two sums agree as far as their items do.                                *)
LEMMA SumsAgree ==
    ASSUME NEW s \in Seq(Messages), NEW t \in Seq(Messages), NEW f, NEW g,
           Sums(f, s), Sums(g, t), Len(s) <= Len(t), \A i \in 1..Len(s) : s[i] = t[i]
    PROVE  f[Len(s)] = g[Len(s)]
<1>1. AgreeStepwise(f, g, Len(s))
  BY DEF Sums, AgreeStepwise
<1>2. Agree(f, g, Len(s))
  BY <1>1, RecursionsAgree
<1> QED
  BY <1>2 DEF Agree

LEMMA SizeOfEmpty == SizeOf(<<>>) = 0
<1>1. <<>> \in Seq(Messages) /\ Len(<<>>) = 0
  OBVIOUS
<1>2. PICK f : Sums(f, <<>>) /\ SizeOf(<<>>) = f[Len(<<>>)]
  BY <1>1, SizeOfIs
<1> QED
  BY <1>1, <1>2 DEF Sums

LEMMA SizeOfAppend ==
    ASSUME NEW s \in Seq(Messages), NEW m \in Messages
    PROVE  SizeOf(Append(s, m)) = SizeOf(s) + m.size /\ SizeOf(s) \in Nat
<1> DEFINE t == Append(s, m)
<1>1. /\ t \in Seq(Messages) /\ Len(t) = Len(s) + 1 /\ t[Len(t)] = m
      /\ \A i \in 1..Len(s) : s[i] = t[i]
  OBVIOUS
<1>2. PICK f : Sums(f, s) /\ SizeOf(s) = f[Len(s)]
  BY SizeOfIs
<1>3. PICK g : Sums(g, t) /\ SizeOf(t) = g[Len(t)]
  BY <1>1, SizeOfIs
<1>4. f[Len(s)] = g[Len(s)]
  <2> HIDE DEF t
  <2>1. Len(s) <= Len(t)
    BY <1>1
  <2> QED
    BY <1>1, <1>2, <1>3, <2>1, SumsAgree
<1>5. g[Len(t)] = g[Len(t) - 1] + m.size
  BY <1>1, <1>3 DEF Sums
<1>6. f[Len(s)] \in Nat
  BY <1>2 DEF Sums
<1> HIDE DEF t
<1>7. Len(t) - 1 = Len(s)
  BY <1>1
<1> QED
  BY <1>2, <1>3, <1>4, <1>5, <1>6, <1>7 DEF t

(* The sum less the head is the sum of the rest.                           *)
LEMMA SizeOfTail ==
    ASSUME NEW s \in Seq(Messages), s # <<>>
    PROVE  SizeOf(s) = Head(s).size + SizeOf(Tail(s))
<1> DEFINE t == Tail(s)
<1>1. /\ t \in Seq(Messages) /\ Len(t) = Len(s) - 1 /\ Len(s) >= 1 /\ Head(s) = s[1]
      /\ \A i \in 1..Len(t) : t[i] = s[i + 1]
  OBVIOUS
<1>2. PICK f : Sums(f, s) /\ SizeOf(s) = f[Len(s)]
  BY SizeOfIs
<1>3. PICK g : Sums(g, t) /\ SizeOf(t) = g[Len(t)]
  BY <1>1, SizeOfIs
<1> HIDE DEF t
<1> DEFINE h == [i \in 0..Len(t) |-> f[i + 1] - f[1]]
<1>4. \A i \in 0..Len(s) : f[i] \in Nat
  BY <1>2 DEF Sums
<1>5. f[1] = s[1].size
  BY <1>1, SizesAreNumbers, <1>2 DEF Sums
<1>6. AgreeStepwise(g, h, Len(t))
  <2>1. g[0] = 0 /\ h[0] = 0
    BY <1>1, <1>3, <1>4 DEF Sums
  <2>2. ASSUME NEW i \in 1..Len(t), g[i - 1] = h[i - 1] PROVE g[i] = h[i]
    <3>1. g[i] = g[i - 1] + t[i].size
      BY <1>3 DEF Sums
    <3>2. i + 1 \in 1..Len(s) /\ i \in 0..Len(s) /\ 1 \in 0..Len(s)
      BY <1>1
    <3>3. f[i + 1] = f[i] + s[i + 1].size
      BY <1>2, <3>2 DEF Sums
    <3>4. h[i] = f[i + 1] - f[1] /\ h[i - 1] = f[i] - f[1]
      BY <1>1
    <3>5. s[i + 1].size \in Nat
      BY <3>2, SizesAreNumbers
    <3> HIDE DEF h
    <3> QED
      BY <1>1, <1>4, <2>2, <3>1, <3>2, <3>3, <3>4, <3>5
  <2> HIDE DEF h
  <2> QED
    BY <2>1, <2>2 DEF AgreeStepwise
<1>7. g[Len(t)] = h[Len(t)]
  BY <1>1, <1>6, RecursionsAgree DEF Agree
<1>8. h[Len(t)] = f[Len(s)] - f[1] /\ f[1] \in Nat /\ f[Len(s)] \in Nat
  BY <1>1, <1>4
<1> HIDE DEF h
<1> QED
  BY <1>1, <1>2, <1>3, <1>5, <1>7, <1>8 DEF t

Exact(p) == p.bytes = SizeOf(p.reliable) /\ Len(p.reliable) <= MaxItems

LEMMA NoticeExact == SizeOf(<<LagNotice>>) = LagNotice.size /\ Len(<<LagNotice>>) <= MaxItems
<1>1. <<>> \in Seq(Messages) /\ Append(<<>>, LagNotice) = <<LagNotice>>
  OBVIOUS
<1>2. SizeOf(<<LagNotice>>) = 0 + LagNotice.size
  BY <1>1, NoticeType, SizeOfEmpty, SizeOfAppend
<1> QED
  BY <1>2, QueueAssumption DEF LagNotice

LEMMA SentExact ==
    ASSUME NEW p \in Queues, NEW m \in Messages, Exact(p)
    PROVE  Exact(Sent(p, m))
BY QueueAssumption, SizeOfAppend, NoticeExact DEF Sent, Queues, HasRoom, Exact, Overflowed

LEMMA TakenExact ==
    ASSUME NEW p \in Queues, Exact(p)
    PROVE  Exact(AfterReceive(p))
<1>1. CASE p.reliable # <<>>
  <2> DEFINE m == Head(p.reliable)
  <2>1. /\ p.reliable \in Seq(Messages) /\ Tail(p.reliable) \in Seq(Messages)
        /\ m \in Messages /\ Len(Tail(p.reliable)) = Len(p.reliable) - 1
        /\ Len(p.reliable) \in Nat
    BY <1>1 DEF Queues
  <2>2. m.size \in Nat
    BY <2>1 DEF Messages
  <2>3. SizeOf(p.reliable) = m.size + SizeOf(Tail(p.reliable))
    BY <1>1, <2>1, SizeOfTail
  <2>4. SizeOf(Tail(p.reliable)) \in Nat
    BY <2>1, SizeOfAppend
  <2>5. /\ AfterReceive(p).reliable = Tail(p.reliable)
        /\ AfterReceive(p).bytes = Saturating(p.bytes, m.size)
    BY <1>1 DEF AfterReceive, Queues
  <2>6. Saturating(p.bytes, m.size) = SizeOf(Tail(p.reliable))
    BY <2>2, <2>3, <2>4 DEF Saturating, Exact
  <2> QED
    BY <2>1, <2>5, <2>6, QueueAssumption DEF Exact
<1>2. CASE p.reliable = <<>>
  BY <1>2 DEF AfterReceive, Queues, Exact
<1> QED
  BY <1>1, <1>2

LEMMA ExactStep == TypeOK /\ BytesExact /\ [WriterNext]_writerVars => BytesExact'
<1> SUFFICES ASSUME TypeOK, Exact(q), [WriterNext]_writerVars PROVE Exact(q')
  BY DEF BytesExact, Exact
<1>0. q \in Queues
  BY DEF TypeOK
<1>1. ASSUME NEW h \in Holders, NEW b \in Sizes, SendReliable(h, b) PROVE Exact(q')
  <2>1. Item(accepted + 1, b) \in Messages
    BY <1>1, WriterAssumption DEF Item, Messages, SendReliable, TypeOK
  <2> QED
    BY <1>0, <1>1, <2>1, SentExact DEF SendReliable
<1>2. ASSUME NEW h \in Holders, NEW b \in Sizes, SendClosing(h, b) PROVE Exact(q')
  <2> DEFINE m == Closing(accepted + 1, b)
  <2>1. m \in Messages
    BY <1>2, WriterAssumption DEF Closing, Messages, SendClosing, TypeOK
  <2>2. Exact(Sent(q, m)) /\ Sent(q, m) \in Queues
    BY <1>0, <2>1, SentExact, SentType
  <2>3. /\ q'.reliable = Sent(q, m).reliable
        /\ q'.bytes = Sent(q, m).bytes
    BY <1>2, <2>2 DEF SendClosing, SentClosing, Queues
  <2> QED
    BY <2>2, <2>3 DEF Exact
<1>3. ASSUME NEW h \in Holders,
             \/ SendClipboard(h) \/ ClearRender(h) \/ ResumeAfterLag(h) \/ Drop(h)
             \/ \E frames \in {<<Render>>, <<Render, Render>>} : TrySendRender(h, frames)
             \/ \E other \in Holders \ holders : Clone(h, other)
      PROVE  Exact(q')
  BY <1>0, <1>3 DEF SendClipboard, SentClipboard, ClearRender, RenderCleared, ResumeAfterLag,
     Resumed, Drop, TrySendRender, SentRender, Clone, Queues, Exact
<1>4. CASE Take
  BY <1>0, <1>4, TakenExact DEF Take
<1>5. CASE Close
  BY <1>0, <1>5, SizeOfEmpty, QueueAssumption DEF Close, Closed, Exact, Queues
<1>6. CASE Rest \/ Write \/ FailWrite \/ UNCHANGED writerVars
  BY <1>6 DEF Rest, Write, FailWrite, writerVars
<1> QED
  BY <1>1, <1>2, <1>3, <1>4, <1>5, <1>6 DEF WriterNext, Sender, WriterThread

LEMMA ExactInit == WriterInit => BytesExact
  BY SizeOfEmpty, QueueAssumption DEF WriterInit, NewQueue, BytesExact

-----------------------------------------------------------------------------
(* The closing frame.  Once it is queued the queue is dead, so nothing is  *)
(* queued behind it; only its own write makes the receipt true.            *)
LastOf(s, p) ==
    \A i \in 1..Len(s) :
      s[i].type = "closing" => /\ i = Len(s)
                              /\ p.clipboard = <<>> /\ p.render = <<>> /\ ~p.alive

DeliveredLast ==
    receipt = "delivered" =>
      ~Writing /\ Stream # <<>> /\ Stream[Len(Stream)].type = "closing"

ClosingInv == TypeOK /\ LastOf(Stream, q) /\ DeliveredLast

(* What is cut short, or grows while nothing closing is in it.             *)
LEMMA PrefixLast ==
    ASSUME NEW s \in Seq(Messages), NEW t \in Seq(Messages), NEW p, LastOf(s \o t, p)
    PROVE  LastOf(s, p)
BY ConcatProperties DEF LastOf

LEMMA AppendLast ==
    ASSUME NEW s \in Seq(Messages), NEW m \in Messages, NEW p, NEW o, LastOf(s, p), p.alive,
           m.type = "closing" => o.clipboard = <<>> /\ o.render = <<>> /\ ~o.alive
    PROVE  LastOf(Append(s, m), o)
BY DEF LastOf

(* The queue may only close further: no slot is filled, or nothing closing *)
(* is in what the Client reads.                                            *)
LEMMA SameLast ==
    ASSUME NEW s, NEW p, NEW o, LastOf(s, p),
           \/ p.alive
           \/ /\ ~o.alive
              /\ o.clipboard = p.clipboard \/ o.clipboard = <<>>
              /\ o.render = p.render \/ o.render = <<>>
    PROVE  LastOf(s, o)
BY DEF LastOf

LEMMA ClosingStep == ClosingInv /\ [WriterNext]_writerVars => ClosingInv'
<1> SUFFICES ASSUME ClosingInv, [WriterNext]_writerVars PROVE LastOf(Stream', q') /\ DeliveredLast'
  BY TypeStep DEF ClosingInv
<1>0. /\ TypeOK /\ TypeOK' /\ q \in Queues /\ q.reliable \in Seq(Messages)
      /\ delivered \in Seq(Messages) /\ Written \in Seq(Messages) /\ Stream \in Seq(Messages)
      /\ LastOf(Stream, q) /\ DeliveredLast
  BY TypeStep, WrittenType DEF ClosingInv, TypeOK, Queues
\* Behind the closing frame, delivered, nothing of the stream moves.
<1>1. ASSUME NEW m \in Messages, Writing' = Writing, Written' = Written,
             delivered' = delivered, receipt' = receipt \/ receipt' = "pending",
             \/ q' = q
             \/ /\ q.alive /\ q'.reliable = Append(q.reliable, m)
                /\ m.type = "closing" => q'.clipboard = <<>> /\ q'.render = <<>> /\ ~q'.alive
             \/ q.alive /\ q'.reliable = <<LagNotice>>
      PROVE  LastOf(Stream', q') /\ DeliveredLast'
  <2>1. CASE q' = q
    BY <1>1, <2>1, <1>0 DEF Stream, DeliveredLast
  <2>2. CASE q.alive /\ ~Writing
    BY <1>1, <2>2, <1>0, SameLast DEF Stream, DeliveredLast
  <2>3. CASE q.alive /\ Writing /\ q'.reliable = Append(q.reliable, m) /\ q' # q
    <3>1. Stream' = Append(Stream, m)
      BY <1>0, <1>1, <2>3, ConcatAppend DEF Stream
    <3>2. m.type = "closing" => q'.clipboard = <<>> /\ q'.render = <<>> /\ ~q'.alive
      <4>1. CASE q'.reliable = <<LagNotice>>
        <5>1. m = LagNotice
          <6>1. Append(q.reliable, m)[Len(Append(q.reliable, m))] = m
            BY <1>0
          <6>2. Append(q.reliable, m) = <<LagNotice>>
            BY <2>3, <4>1
          <6> QED
            BY <6>1, <6>2
        <5> QED
          BY <5>1 DEF LagNotice
      <4>2. CASE q'.reliable # <<LagNotice>>
        BY <1>1, <2>3, <4>2
      <4> QED
        BY <4>1, <4>2
    <3> QED
      BY <1>0, <1>1, <2>3, <3>1, <3>2, AppendLast DEF DeliveredLast
  <2>4. CASE q.alive /\ Writing /\ q'.reliable = <<LagNotice>> /\ q' # q
    <3>1. LastOf(Written, q)
      BY <1>0, <2>4, PrefixLast DEF Stream
    <3>2. Stream' = Append(Written, LagNotice)
      BY <1>0, <1>1, <2>4 DEF Stream
    <3>3. LagNotice.type # "closing"
      BY DEF LagNotice
    <3>4. LastOf(Append(Written, LagNotice), q')
      BY <1>0, <2>4, <3>1, <3>3, NoticeType, AppendLast
    <3> QED
      BY <1>0, <1>1, <2>4, <3>2, <3>4 DEF DeliveredLast
  <2> QED
    BY <1>1, <2>1, <2>2, <2>3, <2>4
<1>2. ASSUME NEW h \in Holders, NEW b \in Sizes, SendReliable(h, b)
      PROVE  LastOf(Stream', q') /\ DeliveredLast'
  <2> DEFINE m == Item(accepted + 1, b)
  <2>1. m \in Messages /\ m.type # "closing"
    BY <1>0, <1>2, WriterAssumption DEF Item, Messages, SendReliable, TypeOK
  <2>2. Writing' = Writing /\ Written' = Written /\ delivered' = delivered /\ receipt' = receipt
    BY <1>0, <1>2 DEF SendReliable, Notify, Writing, Written, TypeOK
  <2>3. \/ q' = q
        \/ q.alive /\ q'.reliable = Append(q.reliable, m)
        \/ q.alive /\ q'.reliable = <<LagNotice>>
    BY <1>0, <1>2 DEF SendReliable, Sent, Overflowed, Refusal, Queues
  <2> HIDE DEF m
  <2> QED
    BY <1>1, <2>1, <2>2, <2>3
<1>3. ASSUME NEW h \in Holders, NEW b \in Sizes, SendClosing(h, b)
      PROVE  LastOf(Stream', q') /\ DeliveredLast'
  <2> DEFINE m == Closing(accepted + 1, b)
  <2>1. m \in Messages
    BY <1>0, <1>3, WriterAssumption DEF Closing, Messages, SendClosing, TypeOK
  <2>2. /\ Writing' = Writing /\ Written' = Written /\ delivered' = delivered
        /\ receipt' = receipt \/ receipt' = "pending"
    BY <1>0, <1>3 DEF SendClosing, Notify, Writing, Written, TypeOK
  <2>3. \/ q' = q
        \/ /\ q.alive /\ q'.reliable = Append(q.reliable, m)
           /\ q'.clipboard = <<>> /\ q'.render = <<>> /\ ~q'.alive
        \/ q.alive /\ q'.reliable = <<LagNotice>>
    BY <1>3, <1>0, <2>1, SentType DEF SendClosing, SentClosing, SentOk, SendResult, Sent,
       Overflowed, Refusal, Queues
  <2> HIDE DEF m
  <2> QED
    BY <1>1, <2>1, <2>2, <2>3
<1>4. ASSUME NEW h \in Holders,
             \/ SendClipboard(h) \/ ClearRender(h) \/ ResumeAfterLag(h) \/ Drop(h)
             \/ \E frames \in {<<Render>>, <<Render, Render>>} : TrySendRender(h, frames)
             \/ \E other \in Holders \ holders : Clone(h, other)
      PROVE  LastOf(Stream', q') /\ DeliveredLast'
  <2>1. /\ q'.reliable = q.reliable
        /\ \/ q.alive
           \/ /\ ~q'.alive
              /\ q'.clipboard = q.clipboard \/ q'.clipboard = <<>>
              /\ q'.render = q.render \/ q'.render = <<>>
    BY <1>0, <1>4 DEF SendClipboard, SentClipboard, ClearRender, RenderCleared, ResumeAfterLag,
                      Resumed, Drop, TrySendRender, SentRender, RenderResult, Refusal, Clone, Queues
  <2>2. Writing' = Writing /\ Written' = Written /\ delivered' = delivered /\ receipt' = receipt
    BY <1>0, <1>4 DEF SendClipboard, ClearRender, ResumeAfterLag, Drop, TrySendRender, Clone,
                      Notify, Writing, Written, TypeOK
  <2>3. Stream' = Stream
    BY <2>1, <2>2 DEF Stream
  <2> QED
    BY <1>0, <2>1, <2>2, <2>3, SameLast DEF DeliveredLast
<1>5. CASE Take
  <2>1. HasItem(q) /\ q' = AfterReceive(q) /\ Writing /\ Written = delivered
    BY <1>5 DEF Take, Writing, Written
  <2>2. /\ q'.alive = q.alive
        /\ q'.clipboard = q.clipboard \/ q'.clipboard = <<>>
        /\ q.render = <<>> => q'.render = <<>>
    BY <1>0, <2>1 DEF AfterReceive, HasItem, Queues
  <2>3. Stream' = Stream
    <3>1. /\ Writing' /\ delivered' = delivered /\ holding'[1] = Received(q)
          /\ thread' = "writing"
      BY <1>5 DEF Take, Writing
    <3>2. CASE q.reliable # <<>>
      <4>1. Received(q) = Head(q.reliable) /\ q'.reliable = Tail(q.reliable)
        BY <1>0, <2>1, <3>2 DEF Received, AfterReceive, Queues
      <4>2. IsReliable(Head(q.reliable))
        <5>1. Head(q.reliable) \in Messages
          BY <1>0, <3>2
        <5> QED
          BY <5>1 DEF IsReliable, Messages
      <4>3. Stream' = Append(delivered, Head(q.reliable)) \o Tail(q.reliable)
        BY <3>1, <4>1, <4>2 DEF Stream, Written
      <4> QED
        BY <1>0, <2>1, <3>2, <4>3, ConcatHead DEF Stream
    <3>3. CASE q.reliable = <<>>
      <4>1. q'.reliable = q.reliable /\ Received(q) \in {Clipboard, Render}
        BY <1>0, <2>1, <3>3 DEF Received, AfterReceive, Queues, HasItem
      <4>2. Written' = delivered
        BY <3>1, <4>1 DEF Written, IsReliable, Clipboard, Render
      <4> QED
        BY <2>1, <3>1, <4>1, <4>2 DEF Stream
    <3> QED
      BY <3>2, <3>3
  <2>4. LastOf(Stream, q')
    BY <1>0, <2>2 DEF LastOf
  <2>5. receipt # "delivered" /\ receipt' = receipt
    BY <1>0, <1>5, <2>1 DEF Take, DeliveredLast
  <2> QED
    BY <2>3, <2>4, <2>5 DEF DeliveredLast
<1>6. CASE Rest
  <2>1. /\ q' = q /\ receipt' = receipt /\ delivered' = delivered /\ Writing
        /\ Written = delivered /\ Written' = delivered /\ q.reliable = <<>>
    BY <1>6 DEF Rest, Writing, Written, HasItem
  <2>2. Stream' = Stream
    BY <1>0, <2>1 DEF Stream
  <2> QED
    BY <1>0, <2>1, <2>2 DEF DeliveredLast
<1>7. CASE Write
  <2>1. /\ q' = q /\ delivered' = Written /\ Writing /\ thread = "writing" /\ Written' = Written
    BY <1>7 DEF Write, Written, Writing
  <2>2. CASE holding[1].type # "closing"
    BY <1>7, <2>1, <2>2, <1>0 DEF Write, Writing, Stream, DeliveredLast
  <2>3. CASE holding[1].type = "closing"
    <3>1. Written = Append(delivered, holding[1]) /\ Stream' = Written /\ ~Writing'
      BY <1>7, <2>1, <2>3 DEF Write, Written, Stream, Writing, IsReliable
    <3>2. Written # <<>> /\ Written[Len(Written)] = holding[1]
      BY <1>0, <3>1
    <3>3. LastOf(Written, q)
      BY <1>0, <2>1, PrefixLast DEF Stream
    <3> QED
      BY <2>1, <2>3, <3>1, <3>2, <3>3 DEF DeliveredLast
  <2> QED
    BY <2>2, <2>3
<1>8. CASE FailWrite
  <2>1. /\ q' = q /\ delivered' = delivered /\ Writing /\ ~Writing' /\ receipt # "delivered"
        /\ receipt' # "delivered"
    BY <1>0, <1>8 DEF FailWrite, Writing, DeliveredLast
  <2>2. LastOf(Written, q)
    BY <1>0, <2>1, PrefixLast DEF Stream
  <2>3. LastOf(delivered, q)
    <3>1. CASE IsReliable(holding[1])
      <4>1. holding[1] \in Messages
        BY <1>0, <1>8, SoleElement, <3>1 DEF TypeOK, FailWrite, IsReliable, Clipboard, Render
      <4>2. Written = delivered \o <<holding[1]>> /\ <<holding[1]>> \in Seq(Messages)
        BY <1>0, <1>8, <3>1, <4>1 DEF Written, FailWrite
      <4> QED
        BY <1>0, <2>2, <4>2, PrefixLast
    <3>2. CASE ~IsReliable(holding[1])
      BY <2>2, <3>2 DEF Written
    <3> QED
      BY <3>1, <3>2
  <2> QED
    BY <2>1, <2>3 DEF Stream, DeliveredLast
<1>9. CASE Close
  <2>1. /\ ~Writing /\ ~Writing' /\ delivered' = delivered /\ q' = Closed(q)
        /\ receipt' = "delivered" => receipt = "delivered"
    BY <1>9 DEF Close, Writing
  <2>2. ~q'.alive /\ q'.clipboard = <<>> /\ q'.render = <<>>
    BY <1>0, <2>1 DEF Closed, Queues
  <2>3. Stream' = Stream
    BY <2>1 DEF Stream
  <2> QED
    BY <1>0, <2>1, <2>2, <2>3, SameLast DEF DeliveredLast
<1>10. CASE UNCHANGED writerVars
  BY <1>0, <1>10 DEF writerVars, DeliveredLast, Stream, Written, Writing
<1> QED
  BY <1>2, <1>3, <1>4, <1>5, <1>6, <1>7, <1>8, <1>9, <1>10 DEF WriterNext, Sender, WriterThread

LEMMA ClosingInit == WriterInit => ClosingInv
BY TypeInit DEF WriterInit, NewQueue, Stream, Written, ClosingInv, LastOf, DeliveredLast

(* The byte count is exact, and the closing frame is the last.             *)
THEOREM QueuesAreExact == WriterSpec => []QueueIsExact
<1>1. ClosingInv /\ BytesExact => QueueIsExact
  BY DEF ClosingInv, LastOf, DeliveredLast, ClosingIsFinal, QueueIsExact
<1> QED
  BY <1>1, TypeInit, TypeStep, ExactInit, ExactStep, ClosingInit, ClosingStep, PTL DEF WriterSpec

-----------------------------------------------------------------------------
(* The types of the variables.                                             *)
SupervisorPcs == {"none", "starting", "spawning", "waiting", "delayed", "gone"}
Ended == {"exited", "error", "crashed", "killed"}
ServerPcs == Bound \cup Ended \cup {"none", "starting"}
CommandPcs == {"idle", "ensure", "stop", "poll", "again", "locked", "released", "spawn", "await",
               "done", "failed"}
SupervisorStates ==
    [pc : SupervisorPcs, restarts : Seq(Nat), all : Seq(Nat), gave_up : Nat \cup {-1}, killed : BOOLEAN]
ServerStates == [pc : ServerPcs, inode : Nat]
CommandStates ==
    [pc : CommandPcs, asked : Nat, between_restarts : BOOLEAN, is_down : BOOLEAN,
     supervised : SUBSET Slots, orphans : SUBSET Slots]
SpentStates ==
    [setting : SuperSettings, crashes : Nat, kills : Nat, failures : Nat, deaths : Nat, inodes : Nat]

Shape ==
    /\ supervisor \in [Slots -> SupervisorStates]
    /\ server \in [Slots -> ServerStates]
    /\ bind_lock \in {NoOne} \cup Slots \cup Commands
    /\ socket_path \in Nat
    /\ command \in [Commands -> CommandStates]
    /\ clock \in Nat
    /\ superSpent \in SpentStates

(* Inodes come from one counter.                                           *)
Inodes ==
    /\ socket_path <= superSpent.inodes
    /\ \A s \in Slots : server[s].inode <= superSpent.inodes
    /\ \A c \in Commands : command[c].asked <= superSpent.inodes

(* Only a command that asks a Server is connected to one.                  *)
Asks == \A c \in Commands : command[c].asked # NoPath => command[c].pc \in Asking

(* The bind lock is held exactly where the Server says so, or by a command *)
(* that polls it; and whoever listens has the path.                        *)
BindLock ==
    /\ \A s \in Slots : server[s].pc \in Bound <=> bind_lock = s
    /\ \A c \in Commands : command[c].pc = "locked" <=> bind_lock = c
    /\ PathNamesTheServer

(* A Supervisor has a Server while it waits for one, and one that was      *)
(* killed may leave its own behind.                                        *)
Children ==
    \A s \in Slots :
        /\ supervisor[s].killed => supervisor[s].pc = "gone"
        /\ supervisor[s].pc = "waiting" \/ supervisor[s].killed \/ server[s].pc = "none"
        /\ supervisor[s].pc # "gone" => supervisor[s].gave_up = -1

(* What a command that stops the Server may count on, before it has looked *)
(* for a Supervisor: who held its lock never gets it again, and an orphan  *)
(* that is not bound any more has ended.                                   *)
Stopping ==
    \A c \in Commands :
        /\ command[c].pc = "idle" => ~command[c].is_down
        /\ \A s \in command[c].supervised : supervisor[s].pc \in {"spawning", "waiting", "delayed", "gone"}
        /\ \A s \in command[c].orphans : supervisor[s].killed /\ server[s].pc # "starting"
        /\ command[c].pc \in {"locked", "released"} => \A s \in command[c].orphans : ~Lives(s)

(* The restarts that a Supervisor remembers are its last ones, and those   *)
(* it forgot are out of the window.                                        *)
Keeps(all, restarts) ==
    LET n == Len(all)
        k == Len(restarts)
    IN  /\ k <= n /\ k <= MaxRestarts
        /\ \A i \in 1..k : restarts[i] = all[(n - k) + i]
        /\ \A i \in 1..n - k : clock - all[i] >= Window
        /\ \A i \in 1..n : all[i] <= clock
        /\ \A i, j \in 1..n : i <= j => all[i] <= all[j]
Memory == \A s \in Slots : Keeps(supervisor[s].all, supervisor[s].restarts)

SuperInv ==
    /\ Shape /\ Inodes /\ Asks /\ BindLock /\ Children /\ Stopping /\ Memory
    /\ StoppedStaysStopped /\ RestartsAreBounded

-----------------------------------------------------------------------------
(* The variables keep their types                                          *)

(* Something that the setting allows is counted, and nothing else of it.   *)
LEMMA HappensIs ==
    ASSUME superSpent \in SpentStates, NEW what \in {"crashes", "kills", "failures", "deaths"},
           Happens(what)
    PROVE  superSpent' \in SpentStates /\ superSpent'.inodes = superSpent.inodes
BY DEF Happens, SpentStates

(* The restarts that still count are the last ones, from the first within  *)
(* the window on.                                                          *)
LEMMA RecentIs ==
    ASSUME clock \in Nat, NEW r \in Seq(Nat)
    PROVE  /\ Expired(r) \in 0..Len(r)
           /\ \A i \in 1..Expired(r) : clock - r[i] >= Window
           /\ Expired(r) < Len(r) => clock - r[Expired(r) + 1] < Window
           /\ Recent(r) \in Seq(Nat) /\ Len(Recent(r)) = Len(r) - Expired(r)
           /\ \A i \in 1..Len(r) - Expired(r) : Recent(r)[i] = r[Expired(r) + i]
<1> DEFINE T == {n \in 0..Len(r) : n < Len(r) => clock - r[n + 1] < Window}
<1>1. Len(r) \in T /\ T \subseteq Nat
  OBVIOUS
<1>2. PICK m \in T : \A n \in T : m <= n
  BY <1>1, LeastNumber
<1>3. ASSUME NEW i \in 1..m PROVE clock - r[i] >= Window
  <2>1. i - 1 \in 0..Len(r) /\ i - 1 \notin T
    <3>1. m \in 0..Len(r) /\ Len(r) \in Nat
      OBVIOUS
    <3>2. ~(m <= i - 1)
      BY <3>1
    <3> HIDE DEF T
    <3> QED
      BY <1>2, <3>1, <3>2
  <2>2. ~(clock - r[(i - 1) + 1] < Window) /\ (i - 1) + 1 = i
    BY <2>1
  <2> QED
    BY <2>2, SupervisionAssumption
<1>4. /\ Expired(r) \in 0..Len(r)
      /\ \A i \in 1..Expired(r) : clock - r[i] >= Window
      /\ Expired(r) < Len(r) => clock - r[Expired(r) + 1] < Window
  BY <1>2, <1>3 DEF Expired
<1>5. /\ Recent(r) \in Seq(Nat) /\ Len(Recent(r)) = Len(r) - Expired(r)
      /\ \A i \in 1..Len(r) - Expired(r) : Recent(r)[i] = r[Expired(r) + i]
  <2> DEFINE e == Expired(r)
             kept == SubSeq(r, e + 1, Len(r))
  <2>1. e \in 0..Len(r) /\ Len(r) \in Nat
    BY <1>4
  <2> HIDE DEF e
  <2>2. \A i \in e + 1..Len(r) : r[i] \in Nat
    BY <2>1
  <2>3. kept \in Seq(Nat) /\ Len(kept) = IF e + 1 <= Len(r) THEN (Len(r) - (e + 1)) + 1 ELSE 0
    BY <2>1, <2>2, SubSeqProperties
  <2>4. \A i \in 1..(Len(r) - (e + 1)) + 1 : kept[i] = r[((e + 1) + i) - 1]
    BY <2>1, <2>2, SubSeqProperties
  <2>5. \A i \in 1..Len(r) - e : kept[i] = r[e + i]
    BY <2>1, <2>4
  <2>6. Len(kept) = Len(r) - e
    BY <2>1, <2>3
  <2>7. Recent(r) = kept
    BY DEF Recent, e
  <2> HIDE DEF kept
  <2> QED
    BY <2>3, <2>5, <2>6, <2>7 DEF e
<1> QED
  BY <1>4, <1>5

LEMMA ServerShape ==
    ASSUME Shape, NEW s \in Slots,
           ServerSteps(s) \/ FailBind(s) \/ FailAccept(s) \/ Crash(s) \/ Kill(s)
    PROVE  Shape'
<1>1. CASE AcquireBindLock(s)
  BY <1>1 DEF Shape, AcquireBindLock, ServerGoes, ServerEnds, ServerStates, ServerPcs, Bound, Ended, NoPath
<1>2. CASE Listen(s)
  BY <1>2 DEF Shape, Listen, ServerEnds, ServerStates, ServerPcs, Bound, Ended, NoPath, SpentStates
<1>3. CASE Serve(s)
  BY <1>3 DEF Shape, Serve, ServerGoes, ServerStates, ServerPcs, Bound
<1>4. CASE FailBind(s)
  BY <1>4, HappensIs DEF Shape, FailBind, ServerEnds, ServerStates, ServerPcs, Bound, Ended, WithoutOwn, NoPath
<1>5. CASE FailAccept(s)
  BY <1>5, HappensIs DEF Shape, FailAccept, ServerGoes, ServerStates, ServerPcs, Bound
<1>6. CASE CleanUp(s)
  BY <1>6 DEF Shape, CleanUp, ServerGoes, ServerStates, ServerPcs, Bound, WithoutOwn, NoPath
<1>7. CASE Exit(s)
  BY <1>7 DEF Shape, Exit, ServerEnds, ServerStates, ServerPcs, Ended, NoPath
<1>8. CASE Crash(s)
  BY <1>8, HappensIs DEF Shape, Crash, ServerEnds, ServerStates, ServerPcs, Ended, NoPath
<1>9. CASE Kill(s)
  BY <1>9, HappensIs DEF Shape, Kill, ServerEnds, ServerStates, ServerPcs, Ended, NoPath
<1> QED
  BY <1>1, <1>2, <1>3, <1>4, <1>5, <1>6, <1>7, <1>8, <1>9 DEF ServerSteps

LEMMA SupervisorShape ==
    ASSUME Shape, NEW s \in Slots, SupervisorSteps(s) \/ SupervisorDies(s)
    PROVE  Shape'
<1>1. CASE HoldLock(s)
  BY <1>1 DEF Shape, HoldLock, SupervisorGoes, SupervisorStates, SupervisorPcs
<1>2. CASE RunServer(s)
  BY ZenonT(60), <1>2 DEF Shape, RunServer, SupervisorGoes, ServerGoes, SupervisorStates, SupervisorPcs,
              ServerStates, ServerPcs
<1>3. CASE Reap(s)
  <2> DEFINE v == supervisor[s]
  <2>1. /\ v \in SupervisorStates /\ v.restarts \in Seq(Nat) /\ v.all \in Seq(Nat) /\ clock \in Nat
        /\ Recent(v.restarts) \in Seq(Nat)
    BY RecentIs DEF Shape, SupervisorStates
  <2>2. /\ [v EXCEPT !.pc = "gone"] \in SupervisorStates
        /\ [v EXCEPT !.pc = "delayed", !.restarts = Append(Recent(v.restarts), clock),
                     !.all = Append(v.all, clock)] \in SupervisorStates
        /\ [v EXCEPT !.pc = "gone", !.restarts = Recent(v.restarts), !.gave_up = clock] \in SupervisorStates
    <3>1. Append(Recent(v.restarts), clock) \in Seq(Nat) /\ Append(v.all, clock) \in Seq(Nat)
      BY <2>1
    <3> QED
      BY <2>1, <3>1 DEF SupervisorStates, SupervisorPcs
  <2>3. supervisor' \in [Slots -> SupervisorStates]
    BY <1>3, <2>2 DEF Shape, Reap
  <2>4. server' \in [Slots -> ServerStates]
    BY <1>3 DEF Shape, Reap, ServerGoes, ServerStates, ServerPcs
  <2> QED
    BY <1>3, <2>3, <2>4 DEF Shape, Reap
<1>4. CASE Delay(s)
  BY <1>4 DEF Shape, Delay, SupervisorGoes, SupervisorStates, SupervisorPcs
<1>5. CASE SupervisorDies(s)
  BY <1>5, HappensIs DEF SupervisorDies, Shape, SupervisorStates, SupervisorPcs
<1> QED
  BY <1>1, <1>2, <1>3, <1>4, <1>5 DEF SupervisorSteps

(* What a command that was answered, or that looked for a Supervisor,      *)
(* becomes.                                                                *)
LEMMA AnsweredIs ==
    ASSUME Shape, NEW c \in Commands, Answered(c)
    PROVE  /\ command'[c].pc \in {"done", "poll"} /\ command'[c].asked = NoPath
           /\ command'[c].is_down = command[c].is_down
           /\ command'[c].supervised = command[c].supervised /\ command'[c].orphans = command[c].orphans
           /\ \A d \in Commands : d # c => command'[d] = command[d]
<1>1. \/ command' = [command EXCEPT ![c] = [command[c] EXCEPT !.pc = "done", !.asked = NoPath]]
      \/ command' = [command EXCEPT ![c] = [command[c] EXCEPT !.pc = "poll", !.asked = NoPath,
                                                              !.between_restarts = FALSE]]
  BY DEF Answered, Shape, CommandStates
<1>2. command \in [Commands -> CommandStates] /\ command[c] \in CommandStates
  BY DEF Shape
<1>3. \/ command'[c] = [command[c] EXCEPT !.pc = "done", !.asked = NoPath]
      \/ command'[c] = [command[c] EXCEPT !.pc = "poll", !.asked = NoPath, !.between_restarts = FALSE]
  BY <1>1, <1>2
<1>4. \A d \in Commands : d # c => command'[d] = command[d]
  BY <1>1, <1>2
<1> QED
  BY <1>2, <1>3, <1>4 DEF CommandStates

LEMMA LookedIs ==
    ASSUME Shape, NEW c \in Commands, CheckSupervisor(c)
    PROVE  /\ IF \E s \in Slots : HoldsLock(s)
              THEN command'[c].pc = "poll" /\ command'[c].is_down = command[c].is_down
              ELSE command'[c].pc \in {"done", "ensure"} /\ command'[c].is_down = TRUE
           /\ command'[c].asked = command[c].asked
           /\ command'[c].supervised = command[c].supervised /\ command'[c].orphans = command[c].orphans
           /\ \A d \in Commands : d # c => command'[d] = command[d]
<1>1. command \in [Commands -> CommandStates] /\ command[c] \in CommandStates
  BY DEF Shape
<1>2. CASE \E s \in Slots : HoldsLock(s)
  <2>1. command' = [command EXCEPT ![c] = [command[c] EXCEPT !.pc = "poll", !.between_restarts = TRUE]]
    BY <1>2 DEF CheckSupervisor
  <2>2. command'[c] = [command[c] EXCEPT !.pc = "poll", !.between_restarts = TRUE]
    BY <1>1, <2>1
  <2> QED
    BY <1>1, <1>2, <2>1, <2>2 DEF CommandStates
<1>3. CASE ~\E s \in Slots : HoldsLock(s)
  <2>1. command' = [command EXCEPT ![c] = [command[c] EXCEPT
             !.pc = IF Does(c) = "stop" THEN "done" ELSE "ensure", !.is_down = TRUE]]
    BY <1>3 DEF CheckSupervisor
  <2>2. command'[c] = [command[c] EXCEPT !.pc = IF Does(c) = "stop" THEN "done" ELSE "ensure", !.is_down = TRUE]
    BY <1>1, <2>1
  <2> QED
    BY <1>1, <1>3, <2>1, <2>2 DEF CommandStates
<1> QED
  BY <1>2, <1>3

LEMMA CommandShape ==
    ASSUME Shape, Asks, NEW c \in Commands, CommandSteps(c) \/ CheckSupervisor(c) \/ TimeOut(c)
    PROVE  Shape'
<1>0. command[c] \in CommandStates /\ socket_path \in Nat
  BY DEF Shape
<1>1. CASE Begin(c)
  BY <1>1, <1>0 DEF Begin, Shape, CommandStates, CommandPcs
<1>2. CASE Connect(c)
  BY <1>2 DEF Connect, CommandGoes, Shape, CommandStates, CommandPcs, Asking, Unanswered
<1>3. CASE Answered(c)
  <2>1. \/ command' = [command EXCEPT ![c] = [command[c] EXCEPT !.pc = "done", !.asked = NoPath]]
        \/ command' = [command EXCEPT ![c] = [command[c] EXCEPT !.pc = "poll", !.asked = NoPath,
                                                                !.between_restarts = FALSE]]
    BY <1>3 DEF Answered, Shape, CommandStates
  <2>2. command' \in [Commands -> CommandStates]
    <3>1. /\ [command[c] EXCEPT !.pc = "done", !.asked = NoPath] \in CommandStates
          /\ [command[c] EXCEPT !.pc = "poll", !.asked = NoPath,
                                !.between_restarts = FALSE] \in CommandStates
      BY <1>0 DEF CommandStates, CommandPcs, NoPath
    <3> QED
      BY <2>1, <3>1 DEF Shape
  <2>3. server' \in [Slots -> ServerStates]
    BY <1>3 DEF Answered, ServerGoes, Shape, ServerStates, ServerPcs, Bound
  <2> QED
    BY <1>3, <2>2, <2>3 DEF Answered, Shape
<1>4. CASE Disconnected(c)
  BY <1>4, <1>0 DEF Disconnected, Asks, CommandStates, CommandPcs, Unanswered, Asking, NoPath,
     Shape
<1>5. CASE Poll(c)
  BY <1>5 DEF Poll, CommandGoes, Shape, CommandStates, CommandPcs
<1>6. CASE LetGo(c)
  BY <1>6 DEF LetGo, CommandGoes, Shape, CommandStates, CommandPcs
<1>7. CASE CheckSupervisor(c)
  <2>1. \/ command' = [command EXCEPT ![c] = [command[c] EXCEPT !.pc = "poll", !.between_restarts = TRUE]]
        \/ command' = [command EXCEPT ![c] = [command[c] EXCEPT
                           !.pc = IF Does(c) = "stop" THEN "done" ELSE "ensure", !.is_down = TRUE]]
    BY <1>7 DEF CheckSupervisor, Shape, CommandStates
  <2>2. /\ [command[c] EXCEPT !.pc = "poll", !.between_restarts = TRUE] \in CommandStates
        /\ [command[c] EXCEPT !.pc = IF Does(c) = "stop" THEN "done" ELSE "ensure",
                              !.is_down = TRUE] \in CommandStates
    BY <1>0 DEF CommandStates, CommandPcs
  <2>3. command' \in [Commands -> CommandStates]
    BY <2>1, <2>2 DEF Shape
  <2> QED
    BY <1>7, <2>3 DEF CheckSupervisor, Shape
<1>8. CASE \E s \in Slots : SpawnServer(c, s)
  <2>1. PICK s \in Slots : SpawnServer(c, s)
    BY <1>8
  <2>2. supervisor' \in [Slots -> SupervisorStates]
    BY <2>1 DEF SpawnServer, SupervisorGoes, Shape, SupervisorStates, SupervisorPcs
  <2>3. command' \in [Commands -> CommandStates]
    BY <2>1 DEF SpawnServer, CommandGoes, Shape, CommandStates, CommandPcs
  <2> QED
    BY <2>1, <2>2, <2>3 DEF SpawnServer, Shape
<1>9. CASE Ready(c)
  BY ZenonT(60), <1>9 DEF Ready, CommandGoes, Shape, CommandStates, CommandPcs
<1>10. CASE TimeOut(c)
  BY <1>10 DEF TimeOut, CommandGoes, Shape, CommandStates, CommandPcs
<1> QED
  BY <1>1, <1>2, <1>3, <1>4, <1>5, <1>6, <1>7, <1>8, <1>9, <1>10 DEF CommandSteps

LEMMA ShapeStep == Shape /\ Asks /\ [SuperNext]_superVars => Shape'
BY ServerShape, SupervisorShape, CommandShape DEF Tick, Shape, superVars, SuperNext

LEMMA ShapeInit == ASSUME NEW setting \in SuperSettings, SuperInit(setting) PROVE Shape
<1>1. <<>> \in Seq(Nat)
  OBVIOUS
<1>2. NoSupervisor \in SupervisorStates /\ [NoSupervisor EXCEPT !.pc = "waiting"] \in SupervisorStates
  BY <1>1 DEF NoSupervisor, SupervisorStates, SupervisorPcs
<1>3. supervisor \in [Slots -> SupervisorStates]
  BY <1>2 DEF SuperInit
<1>4. server \in [Slots -> ServerStates]
  BY DEF SuperInit, NoServer, NoPath, ServerStates, ServerPcs, Bound
<1>5. command \in [Commands -> CommandStates]
  BY DEF SuperInit, NoCommand, NoPath, CommandStates, CommandPcs
<1>6. superSpent \in SpentStates
  BY DEF SuperInit, SpentStates
<1>7. bind_lock \in {NoOne} \cup Slots
  BY DEF SuperInit, SuperSettings
<1> QED
  BY <1>3, <1>4, <1>5, <1>6, <1>7 DEF Shape, SuperInit, NoPath

-----------------------------------------------------------------------------
(* One Server at most has the bind lock and the path                       *)

LEMMA ServerBindLock ==
    ASSUME Shape, Shape', BindLock, NEW s \in Slots,
           ServerSteps(s) \/ FailBind(s) \/ FailAccept(s) \/ Crash(s) \/ Kill(s)
    PROVE  BindLock'
<1>0. /\ server \in [Slots -> ServerStates] /\ UNCHANGED command
      /\ Slots \cap Commands = {} /\ NoOne \notin Slots /\ NoOne \notin Commands
      /\ HasSocket \subseteq Bound /\ Ended \cap Bound = {} /\ "starting" \notin Bound
  BY SupervisionAssumption
     DEF Shape, ServerSteps, AcquireBindLock, Listen, Serve, CleanUp, Exit, FailBind, FailAccept, Crash, Kill,
         HasSocket, Bound, Ended
<1>1. ASSUME server' = [server EXCEPT ![s].pc = server'[s].pc], server[s].pc \in Bound,
             server'[s].pc \in Bound, server'[s].pc \in HasSocket => server[s].pc \in HasSocket,
             bind_lock' = bind_lock, socket_path' = socket_path
      PROVE  BindLock'
  BY <1>0, <1>1 DEF BindLock, PathNamesTheServer, ServerStates
<1>2. ASSUME NEW how \in Ended, ServerEnds(s, how), socket_path' = socket_path \/ server[s].pc \in Bound
      PROVE  BindLock'
  BY <1>0, <1>2 DEF ServerEnds, BindLock, PathNamesTheServer
<1>3. CASE AcquireBindLock(s)
  BY <1>3, <1>0, <1>2 DEF AcquireBindLock, ServerGoes, Bound, HasSocket, BindLock, ServerStates,
     PathNamesTheServer, Ended
<1>4. CASE Listen(s)
  BY <1>4, <1>0, <1>2 DEF Listen, Bound, BindLock, PathNamesTheServer, Ended
<1>5. CASE Serve(s)
  BY <1>0, <1>1, <1>5 DEF Serve, ServerGoes, ServerStates, Bound, HasSocket
<1>6. CASE FailBind(s)
  BY <1>2, <1>6 DEF FailBind, Ended, Bound
<1>7. CASE FailAccept(s)
  BY <1>0, <1>1, <1>7 DEF FailAccept, ServerGoes, ServerStates, Bound, HasSocket
<1>8. CASE CleanUp(s)
  BY <1>8, <1>0 DEF CleanUp, ServerGoes, Bound, BindLock, ServerStates, HasSocket,
     PathNamesTheServer
<1>9. CASE Exit(s)
  BY <1>2, <1>9 DEF Exit, Ended
<1>10. CASE Crash(s)
  BY <1>2, <1>10 DEF Crash, Ended
<1>11. CASE Kill(s)
  BY <1>2, <1>11 DEF Kill, Ended
<1> QED
  BY <1>3, <1>4, <1>5, <1>6, <1>7, <1>8, <1>9, <1>10, <1>11 DEF ServerSteps

LEMMA SupervisorBindLock ==
    ASSUME Shape, BindLock, Children, NEW s \in Slots, SupervisorSteps(s) \/ SupervisorDies(s)
    PROVE  BindLock'
<1>0. server \in [Slots -> ServerStates] /\ "none" \notin Bound /\ "starting" \notin Bound /\ HasSocket \subseteq Bound
      /\ UNCHANGED <<bind_lock, socket_path, command>>
  BY DEF Shape, Bound, HasSocket, SupervisorSteps, HoldLock, RunServer, Reap, Delay, SupervisorDies
<1>1. ASSUME NEW pc, pc \notin Bound, ServerGoes(s, pc), server[s].pc \notin Bound PROVE BindLock'
  BY <1>0, <1>1 DEF ServerGoes, ServerStates, BindLock, PathNamesTheServer
<1>2. CASE RunServer(s)
  BY <1>2, <1>0, <1>1 DEF RunServer, Children
<1>3. CASE Reap(s)
  BY <1>3, <1>0, <1>1 DEF Reap, Bound
<1>4. CASE UNCHANGED server
  BY <1>0, <1>4 DEF BindLock, PathNamesTheServer
<1> QED
  BY <1>2, <1>3, <1>4 DEF SupervisorSteps, HoldLock, Delay, SupervisorDies

LEMMA CommandBindLock ==
    ASSUME Shape, Asks, BindLock, NEW c \in Commands, CommandSteps(c) \/ TimeOut(c)
    PROVE  BindLock'
<1>0. /\ server \in [Slots -> ServerStates] /\ command \in [Commands -> CommandStates]
      /\ Slots \cap Commands = {} /\ NoOne \notin Slots /\ NoOne \notin Commands
  BY SupervisionAssumption DEF Shape
<1>1. /\ UNCHANGED socket_path
      /\ \A d \in Commands : d # c => command'[d] = command[d]
  BY <1>0 DEF CommandSteps, Begin, Connect, Answered, Disconnected, Poll, LetGo, CheckSupervisor, SpawnServer,
         Ready, TimeOut, CommandGoes
<1>2. ASSUME UNCHANGED <<server, bind_lock>>, command[c].pc # "locked", command'[c].pc # "locked"
      PROVE  BindLock'
  BY <1>1, <1>2 DEF BindLock, PathNamesTheServer
<1>3. CASE Begin(c)
  BY <1>0, <1>3, <1>2 DEF Begin, CommandStates
<1>4. CASE Connect(c)
  BY <1>0, <1>4, <1>2 DEF Connect, CommandGoes, CommandStates, Unanswered, Asking
<1>5. CASE Answered(c)
  <2>1. PICK s \in Slots :
          /\ server[s].pc = "serving"
          /\ UNCHANGED server \/ ServerGoes(s, "stopping")
    BY <1>5 DEF Answered
  <2>2. UNCHANGED bind_lock /\ command[c].pc # "locked" /\ command'[c].pc # "locked"
    BY <1>5, AnsweredIs DEF Answered, Asks, Asking
  <2>3. /\ \A t \in Slots : server'[t].pc \in Bound <=> server[t].pc \in Bound
        /\ \A t \in Slots : server'[t].pc \in HasSocket => server[t].pc \in HasSocket
        /\ \A t \in Slots : server'[t].inode = server[t].inode
    BY <1>0, <2>1 DEF ServerGoes, ServerStates, Bound, HasSocket
  <2> QED
    BY <1>1, <2>2, <2>3 DEF BindLock, PathNamesTheServer
<1>6. CASE Disconnected(c)
  BY <1>6, <1>0, <1>2 DEF Disconnected, Asks, CommandStates, Asking, Unanswered
<1>7. CASE Poll(c)
  BY <1>0, <1>7, <1>1, <1>2 DEF Poll, CommandGoes, CommandStates, BindLock, PathNamesTheServer
<1>8. CASE LetGo(c)
  BY <1>0, <1>8, <1>1 DEF LetGo, CommandGoes, CommandStates, BindLock, PathNamesTheServer
<1>9. CASE CheckSupervisor(c)
  BY <1>9, LookedIs, <1>2 DEF CheckSupervisor
<1>10. CASE \E s \in Slots : SpawnServer(c, s)
  BY <1>0, <1>2, <1>10 DEF SpawnServer, CommandGoes, CommandStates
<1>11. CASE Ready(c)
  BY <1>0, <1>2, <1>11 DEF Ready, CommandGoes, CommandStates
<1>12. CASE TimeOut(c)
  BY <1>0, <1>2, <1>12 DEF TimeOut, CommandGoes, CommandStates
<1> QED
  BY <1>3, <1>4, <1>5, <1>6, <1>7, <1>8, <1>9, <1>10, <1>11, <1>12 DEF CommandSteps

LEMMA BindLockStep == Shape /\ Asks /\ BindLock /\ Children /\ [SuperNext]_superVars => BindLock'
BY ShapeStep, ServerBindLock, SupervisorBindLock, CommandBindLock DEF Tick, BindLock,
   PathNamesTheServer, superVars, SuperNext

-----------------------------------------------------------------------------
(* What the steps of each process may do to the others                     *)

(* A Server never lives again, and nobody else moves.                      *)
LEMMA ServerMoves ==
    ASSUME Shape, NEW s \in Slots,
           ServerSteps(s) \/ FailBind(s) \/ FailAccept(s) \/ Crash(s) \/ Kill(s)
    PROVE  /\ UNCHANGED <<supervisor, command, clock>>
           /\ Lives(s) /\ server'[s].pc \in Bound \cup Ended
           /\ \A t \in Slots : t # s => server'[t] = server[t]
           /\ \A t \in Slots : server'[t].inode = server[t].inode \/ server'[t].inode <= superSpent'.inodes
           /\ superSpent.inodes <= superSpent'.inodes
           /\ socket_path' <= superSpent'.inodes \/ socket_path' = socket_path
<1>0. server \in [Slots -> ServerStates] /\ superSpent \in SpentStates /\ superSpent.inodes \in Nat
  BY DEF Shape, SpentStates
<1>1. ASSUME NEW how \in Ended, ServerEnds(s, how)
      PROVE  /\ server'[s].pc \in Bound \cup Ended /\ server'[s].inode = 0
             /\ \A t \in Slots : t # s => server'[t] = server[t]
  BY <1>0, <1>1 DEF ServerEnds, NoPath
<1>2. ASSUME NEW pc \in Bound, ServerGoes(s, pc)
      PROVE  /\ server'[s].pc \in Bound \cup Ended /\ server'[s].inode = server[s].inode
             /\ \A t \in Slots : t # s => server'[t] = server[t]
  BY <1>0, <1>2 DEF ServerGoes, ServerStates
<1>3. ASSUME UNCHANGED superSpent \/ \E what \in {"crashes", "kills", "failures", "deaths"} : Happens(what)
      PROVE  superSpent'.inodes = superSpent.inodes
  BY <1>0, <1>3, HappensIs
<1>4. WithoutOwn(s) = 0 \/ WithoutOwn(s) = socket_path
  BY DEF WithoutOwn, NoPath
<1>5. CASE AcquireBindLock(s)
  BY <1>0, <1>1, <1>2, <1>5 DEF AcquireBindLock, Lives, Bound, Ended
<1>6. CASE Listen(s)
  BY <1>6, <1>0, <1>1 DEF Listen, SpentStates, Lives, Bound, Ended
<1>7. CASE Serve(s)
  BY <1>0, <1>2, <1>7 DEF Serve, Lives, Bound
<1>8. CASE FailBind(s)
  BY <1>0, <1>1, <1>3, <1>4, <1>8 DEF FailBind, Lives, Bound, Ended
<1>9. CASE FailAccept(s)
  BY <1>0, <1>2, <1>3, <1>9 DEF FailAccept, Lives, Bound
<1>10. CASE CleanUp(s)
  BY <1>0, <1>2, <1>4, <1>10 DEF CleanUp, Lives, Bound
<1>11. CASE Exit(s)
  BY <1>0, <1>1, <1>11 DEF Exit, Lives, Bound, Ended
<1>12. CASE Crash(s)
  BY <1>0, <1>1, <1>3, <1>12 DEF Crash, Ended
<1>13. CASE Kill(s)
  BY <1>0, <1>1, <1>3, <1>13 DEF Kill, Ended
<1> QED
  BY <1>5, <1>6, <1>7, <1>8, <1>9, <1>10, <1>11, <1>12, <1>13 DEF ServerSteps

(* A Supervisor starts its Server, and reaps it when it has ended.          *)
LEMMA SupervisorMoves ==
    ASSUME Shape, NEW s \in Slots, SupervisorSteps(s) \/ SupervisorDies(s)
    PROVE  /\ UNCHANGED <<command, clock, socket_path>> /\ superSpent'.inodes = superSpent.inodes
           /\ \A t \in Slots : t # s => supervisor'[t] = supervisor[t] /\ server'[t] = server[t]
           /\ \A t \in Slots : server'[t].inode = server[t].inode
           /\ supervisor[s].pc \in {"starting", "spawning", "waiting", "delayed"}
           /\ supervisor'[s].pc \in {"spawning", "waiting", "delayed", "gone"}
           /\ \/ supervisor[s].pc = "starting" /\ supervisor'[s].pc = "spawning" /\ server'[s] = server[s]
                 /\ supervisor'[s] = [supervisor[s] EXCEPT !.pc = "spawning"]
              \/ supervisor[s].pc = "spawning" /\ supervisor'[s].pc = "waiting" /\ server'[s].pc = "starting"
                 /\ supervisor'[s] = [supervisor[s] EXCEPT !.pc = "waiting"]
              \/ supervisor[s].pc = "waiting" /\ server'[s].pc = "none" /\ Reap(s)
                 /\ supervisor'[s].killed = supervisor[s].killed
              \/ supervisor[s].pc = "delayed" /\ supervisor'[s].pc = "spawning" /\ server'[s] = server[s]
                 /\ supervisor'[s] = [supervisor[s] EXCEPT !.pc = "spawning"]
              \/ supervisor'[s].killed /\ supervisor'[s].pc = "gone" /\ server'[s] = server[s]
                 /\ supervisor'[s] = [supervisor[s] EXCEPT !.pc = "gone", !.killed = TRUE]
<1>0. /\ server \in [Slots -> ServerStates] /\ supervisor \in [Slots -> SupervisorStates]
      /\ superSpent \in SpentStates
  BY DEF Shape
<1>1. CASE HoldLock(s)
  BY <1>0, <1>1 DEF HoldLock, SupervisorGoes, SupervisorStates
<1>2. CASE RunServer(s)
  BY <1>0, <1>2 DEF RunServer, SupervisorGoes, ServerGoes, SupervisorStates, ServerStates
<1>3. CASE Reap(s)
  BY <1>3, <1>0 DEF Reap, SupervisorStates, ServerGoes, ServerStates
<1>4. CASE Delay(s)
  BY <1>0, <1>4 DEF Delay, SupervisorGoes, SupervisorStates
<1>5. CASE SupervisorDies(s)
  BY <1>5, <1>0, HappensIs DEF SupervisorDies, SupervisorStates, HoldsLock
<1> QED
  BY <1>1, <1>2, <1>3, <1>4, <1>5 DEF SupervisorSteps

(* A command asks a Server to stop and starts a Supervisor.                 *)
SameAim(c) ==
    /\ command'[c].is_down = command[c].is_down
    /\ command'[c].supervised = command[c].supervised /\ command'[c].orphans = command[c].orphans
LEMMA CommandMoves ==
    ASSUME Shape, Asks, NEW c \in Commands, CommandSteps(c) \/ TimeOut(c)
    PROVE  /\ UNCHANGED <<clock, socket_path, superSpent>>
           /\ \A d \in Commands : d # c => command'[d] = command[d]
           /\ \A t \in Slots : server'[t].inode = server[t].inode
           /\ \A t \in Slots : server'[t].pc = server[t].pc
                               \/ (server[t].pc = "serving" /\ server'[t].pc = "stopping")
           /\ \A t \in Slots : supervisor'[t] = supervisor[t]
                               \/ (supervisor[t].pc = "none"
                                   /\ supervisor'[t] = [supervisor[t] EXCEPT !.pc = "starting"])
           /\ command'[c].asked \in {NoPath, command[c].asked, socket_path}
           /\ command'[c].asked # NoPath => command'[c].pc \in Asking
           /\ command'[c].pc # "idle"
           /\ \/ Begin(c)
              \/ CheckSupervisor(c)
              \/ /\ SameAim(c) /\ command[c].pc # "idle"
                 /\ command'[c].pc = "locked" => bind_lock = NoOne /\ UNCHANGED server
                 /\ command'[c].pc = "released" => command[c].pc = "locked" /\ UNCHANGED server
<1>0. /\ server \in [Slots -> ServerStates] /\ supervisor \in [Slots -> SupervisorStates]
      /\ command \in [Commands -> CommandStates] /\ command[c] \in CommandStates
  BY DEF Shape
<1>1. CASE Begin(c)
  BY <1>1, <1>0 DEF Begin, CommandStates, Asks, Asking
<1>2. CASE Connect(c)
  BY <1>0, <1>2 DEF Connect, CommandGoes, CommandStates, Unanswered, Asking, SameAim
<1>3. CASE Answered(c)
  <2>1. PICK s \in Slots : server[s].pc = "serving" /\ (UNCHANGED server \/ ServerGoes(s, "stopping"))
    BY <1>3 DEF Answered
  <2>2. /\ \A t \in Slots : server'[t].inode = server[t].inode
        /\ \A t \in Slots : server'[t].pc = server[t].pc
                            \/ (server[t].pc = "serving" /\ server'[t].pc = "stopping")
    BY <1>0, <2>1 DEF ServerGoes, ServerStates
  <2>3. command[c].pc # "idle"
    BY <1>3 DEF Answered, Asks, Asking
  <2> QED
    BY <1>3, <2>2, <2>3, AnsweredIs DEF Answered, SameAim
<1>4. CASE Disconnected(c)
  BY <1>4, <1>0 DEF Disconnected, Asks, CommandStates, SameAim, Unanswered, Asking
<1>5. CASE Poll(c)
  BY <1>0, <1>5 DEF Poll, CommandGoes, CommandStates, Asks, Asking, SameAim
<1>6. CASE LetGo(c)
  BY <1>0, <1>6 DEF LetGo, CommandGoes, CommandStates, Asks, Asking, SameAim
<1>7. CASE CheckSupervisor(c)
  BY <1>7, LookedIs DEF CheckSupervisor, Asks, Asking
<1>8. CASE \E s \in Slots : SpawnServer(c, s)
  BY <1>8, <1>0 DEF SpawnServer, SupervisorGoes, CommandGoes, CommandStates, SameAim, Asks, Asking
<1>9. CASE Ready(c)
  BY <1>0, <1>9 DEF Ready, CommandGoes, CommandStates, Asks, Asking, SameAim
<1>10. CASE TimeOut(c)
  BY <1>0, <1>10 DEF TimeOut, CommandGoes, CommandStates, Asks, Asking, SameAim
<1> QED
  BY <1>1, <1>2, <1>3, <1>4, <1>5, <1>6, <1>7, <1>8, <1>9, <1>10 DEF CommandSteps

-----------------------------------------------------------------------------
(* Inodes, connections, children and stops                                 *)

LEMMA AsksStep == Shape /\ Asks /\ Inodes /\ [SuperNext]_superVars => Asks' /\ Inodes'
<1> SUFFICES ASSUME Shape, Asks, Inodes, [SuperNext]_superVars PROVE Asks' /\ Inodes'
  OBVIOUS
<1>0. /\ Shape' /\ superSpent.inodes \in Nat /\ superSpent'.inodes \in Nat /\ socket_path \in Nat
      /\ \A s \in Slots : server[s].inode \in Nat
      /\ \A c \in Commands : command[c].asked \in Nat
  BY ShapeStep DEF Shape, SpentStates, ServerStates, CommandStates
<1>1. ASSUME NEW s \in Slots,
             ServerSteps(s) \/ FailBind(s) \/ FailAccept(s) \/ Crash(s) \/ Kill(s)
      PROVE  Asks' /\ Inodes'
  BY <1>1, ServerMoves, <1>0 DEF Asks, Inodes
<1>2. ASSUME NEW s \in Slots, SupervisorSteps(s) \/ SupervisorDies(s)
      PROVE  Asks' /\ Inodes'
  BY <1>2, SupervisorMoves DEF Asks, Inodes
<1>3. ASSUME NEW c \in Commands, CommandSteps(c) \/ TimeOut(c)
      PROVE  Asks' /\ Inodes'
  BY <1>3, CommandMoves, <1>0 DEF Asks, Inodes, NoPath
<1>4. CASE Tick
  BY <1>4 DEF Tick, Asks, Inodes
<1>5. CASE UNCHANGED superVars
  BY <1>5 DEF superVars, Asks, Inodes
<1> QED
  BY <1>1, <1>2, <1>3, <1>4, <1>5 DEF SuperNext

LEMMA ChildrenStep == Shape /\ Asks /\ Children /\ [SuperNext]_superVars => Children'
<1> SUFFICES ASSUME Shape, Asks, Children, [SuperNext]_superVars PROVE Children'
  OBVIOUS
<1>0. supervisor \in [Slots -> SupervisorStates]
  BY DEF Shape
<1>1. ASSUME NEW s \in Slots,
             ServerSteps(s) \/ FailBind(s) \/ FailAccept(s) \/ Crash(s) \/ Kill(s)
      PROVE  Children'
  BY <1>1, ServerMoves DEF Lives, Bound, Children
<1>2. ASSUME NEW s \in Slots, SupervisorSteps(s) \/ SupervisorDies(s)
      PROVE  Children'
  <2>1. CASE supervisor[s].pc = "waiting" /\ server'[s].pc = "none" /\ Reap(s)
             /\ supervisor'[s].killed = supervisor[s].killed
    <3>1. supervisor' = [supervisor EXCEPT ![s] =
             IF server[s].pc # "crashed" THEN [supervisor[s] EXCEPT !.pc = "gone"]
             ELSE IF MayRestart(s)
             THEN [supervisor[s] EXCEPT !.pc = "delayed", !.restarts = Append(Recent(supervisor[s].restarts), clock),
                            !.all = Append(supervisor[s].all, clock)]
             ELSE [supervisor[s] EXCEPT !.pc = "gone", !.restarts = Recent(supervisor[s].restarts),
                                        !.gave_up = clock]]
      BY <2>1 DEF Reap
    <3>2. supervisor'[s] =
             IF server[s].pc # "crashed" THEN [supervisor[s] EXCEPT !.pc = "gone"]
             ELSE IF MayRestart(s)
             THEN [supervisor[s] EXCEPT !.pc = "delayed", !.restarts = Append(Recent(supervisor[s].restarts), clock),
                            !.all = Append(supervisor[s].all, clock)]
             ELSE [supervisor[s] EXCEPT !.pc = "gone", !.restarts = Recent(supervisor[s].restarts),
                                        !.gave_up = clock]
      BY <1>0, <3>1
    <3>3. supervisor'[s].pc # "gone" => supervisor'[s].gave_up = supervisor[s].gave_up
      BY <1>0, <3>2 DEF SupervisorStates
    <3>4. \A t \in Slots : t # s => supervisor'[t] = supervisor[t] /\ server'[t] = server[t]
      BY <1>2, SupervisorMoves
    <3>5. ~supervisor[s].killed
      BY <2>1 DEF Children
    <3> QED
      BY <2>1, <3>3, <3>4, <3>5 DEF Children
  <2>2. CASE ~(supervisor[s].pc = "waiting" /\ server'[s].pc = "none" /\ Reap(s)
               /\ supervisor'[s].killed = supervisor[s].killed)
    <3>1. /\ \A t \in Slots : t # s => supervisor'[t] = supervisor[t] /\ server'[t] = server[t]
          /\ supervisor[s].pc \in {"starting", "spawning", "waiting", "delayed"}
          /\ \/ supervisor'[s].pc = "spawning" /\ supervisor[s].pc # "waiting" /\ server'[s] = server[s]
                /\ supervisor'[s] = [supervisor[s] EXCEPT !.pc = "spawning"]
             \/ supervisor'[s].pc = "waiting" /\ supervisor'[s] = [supervisor[s] EXCEPT !.pc = "waiting"]
             \/ supervisor'[s].killed /\ supervisor'[s].pc = "gone"
      BY <1>2, <2>2, SupervisorMoves
    <3>2. /\ ~supervisor[s].killed /\ supervisor[s].gave_up = -1
          /\ supervisor[s].pc = "waiting" \/ server[s].pc = "none"
      BY <3>1 DEF Children
    <3>3. \/ supervisor'[s].killed /\ supervisor'[s].pc = "gone"
          \/ ~supervisor'[s].killed /\ supervisor'[s].gave_up = -1
      BY <1>0, <3>1, <3>2 DEF SupervisorStates
    <3> QED
      BY <3>1, <3>2, <3>3 DEF Children
  <2> QED
    BY <2>1, <2>2
<1>3. ASSUME NEW c \in Commands, CommandSteps(c) \/ TimeOut(c)
      PROVE  Children'
  <2>1. /\ \A t \in Slots : server'[t].pc = server[t].pc
                            \/ (server[t].pc = "serving" /\ server'[t].pc = "stopping")
        /\ \A t \in Slots : supervisor'[t] = supervisor[t]
                            \/ (supervisor[t].pc = "none"
                                /\ supervisor'[t] = [supervisor[t] EXCEPT !.pc = "starting"])
    BY <1>3, CommandMoves
  <2>2. ASSUME NEW t \in Slots, supervisor[t].pc = "none",
               supervisor'[t] = [supervisor[t] EXCEPT !.pc = "starting"]
        PROVE  /\ supervisor'[t].pc = "starting" /\ supervisor'[t].killed = supervisor[t].killed
               /\ supervisor'[t].gave_up = supervisor[t].gave_up
    BY <1>0, <2>2 DEF SupervisorStates
  <2>3. ASSUME NEW t \in Slots
        PROVE  /\ supervisor'[t].killed => supervisor'[t].pc = "gone"
               /\ supervisor'[t].pc = "waiting" \/ supervisor'[t].killed \/ server'[t].pc = "none"
               /\ supervisor'[t].pc # "gone" => supervisor'[t].gave_up = -1
    <3>1. /\ supervisor[t].killed => supervisor[t].pc = "gone"
          /\ supervisor[t].pc = "waiting" \/ supervisor[t].killed \/ server[t].pc = "none"
          /\ supervisor[t].pc # "gone" => supervisor[t].gave_up = -1
      BY DEF Children
    <3>2. server[t].pc = "none" => server'[t].pc = "none"
      BY <2>1
    <3>3. CASE supervisor'[t] = supervisor[t]
      BY <3>1, <3>2, <3>3
    <3>4. CASE supervisor[t].pc = "none" /\ supervisor'[t] = [supervisor[t] EXCEPT !.pc = "starting"]
      BY <2>2, <3>1, <3>2, <3>4
    <3> QED
      BY <2>1, <3>3, <3>4
  <2> QED
    BY <2>3 DEF Children
<1>4. CASE Tick
  BY <1>4 DEF Tick, Children
<1>5. CASE UNCHANGED superVars
  BY <1>5 DEF superVars, Children
<1> QED
  BY <1>1, <1>2, <1>3, <1>4, <1>5 DEF SuperNext

LEMMA StoppingStep ==
    Shape /\ Asks /\ BindLock /\ Children /\ Stopping /\ StoppedStaysStopped /\ [SuperNext]_superVars
        => Stopping' /\ StoppedStaysStopped'
<1> SUFFICES ASSUME Shape, Asks, BindLock, Children, Stopping, StoppedStaysStopped, [SuperNext]_superVars
             PROVE  Stopping' /\ StoppedStaysStopped'
  OBVIOUS
<1>0. supervisor \in [Slots -> SupervisorStates] /\ \A c \in Commands : command[c] \in CommandStates
  BY DEF Shape
<1>1. ASSUME NEW s \in Slots,
             ServerSteps(s) \/ FailBind(s) \/ FailAccept(s) \/ Crash(s) \/ Kill(s)
      PROVE  Stopping' /\ StoppedStaysStopped'
  BY <1>1, ServerMoves, <1>0 DEF Lives, Bound, Ended, Stopping, CommandStates, StoppedStaysStopped
<1>2. ASSUME NEW s \in Slots, SupervisorSteps(s) \/ SupervisorDies(s)
      PROVE  Stopping' /\ StoppedStaysStopped'
  <2>1. /\ UNCHANGED command
        /\ \A t \in Slots : t # s => supervisor'[t] = supervisor[t] /\ server'[t] = server[t]
        /\ supervisor[s].pc # "gone" /\ supervisor'[s].pc \in {"spawning", "waiting", "delayed", "gone"}
        /\ \/ server'[s] = server[s]
           \/ supervisor[s].pc = "spawning" /\ server'[s].pc = "starting"
           \/ server'[s].pc = "none"
    BY <1>2, SupervisorMoves
  <2>2. ~supervisor[s].killed
    BY <2>1 DEF Children
  <2>3. /\ \A c \in Commands : s \notin command[c].orphans
        /\ \A t \in Slots : t # s => (Lives(t)' <=> Lives(t))
    BY <2>1, <2>2 DEF Stopping, Lives
  <2>4. \A c \in Commands : command[c].is_down => s \notin command[c].supervised
    BY <2>1, <2>2 DEF StoppedStaysStopped
  <2>5. Stopping'
    BY <1>0, <2>1, <2>3 DEF Stopping, CommandStates
  <2>6. StoppedStaysStopped'
    BY <1>0, <2>1, <2>3, <2>4 DEF StoppedStaysStopped, CommandStates
  <2> QED
    BY <2>5, <2>6
<1>3. ASSUME NEW c \in Commands, CommandSteps(c) \/ TimeOut(c)
      PROVE  Stopping' /\ StoppedStaysStopped'
  <2>1. /\ \A d \in Commands : d # c => command'[d] = command[d]
        /\ \A t \in Slots : server'[t].pc = server[t].pc
                            \/ (server[t].pc = "serving" /\ server'[t].pc = "stopping")
        /\ \A t \in Slots : supervisor'[t] = supervisor[t]
                            \/ (supervisor[t].pc = "none"
                                /\ supervisor'[t] = [supervisor[t] EXCEPT !.pc = "starting"])
        /\ command'[c].pc # "idle"
    BY <1>3, CommandMoves
  <2>2. \A t \in Slots : /\ Lives(t)' <=> Lives(t)
                         /\ server'[t].pc = "starting" => server[t].pc = "starting"
    BY <2>1 DEF Lives, Bound
  <2>3. \A t \in Slots : supervisor[t].pc # "none" => supervisor'[t] = supervisor[t]
    BY <2>1
  <2>4. \A t \in Slots : supervisor[t].killed => supervisor'[t] = supervisor[t]
    BY <2>1, <2>3 DEF Children
  <2>5. ASSUME NEW d \in Commands, d # c
        PROVE  /\ command'[d].pc = "idle" => ~command'[d].is_down
               /\ \A s \in command'[d].supervised :
                    supervisor'[s].pc \in {"spawning", "waiting", "delayed", "gone"}
               /\ \A s \in command'[d].orphans : supervisor'[s].killed /\ server'[s].pc # "starting"
               /\ command'[d].pc \in {"locked", "released"} => \A s \in command'[d].orphans : ~Lives(s)'
               /\ command'[d].is_down =>
                    /\ \A s \in command'[d].supervised :
                         supervisor'[s].killed \/ (supervisor'[s].pc = "gone" /\ ~Lives(s)')
                    /\ \A s \in command'[d].orphans : ~Lives(s)'
    BY <1>0, <2>1, <2>5, <2>3, <2>4, <2>2 DEF CommandStates, Stopping, StoppedStaysStopped
  <2>6. CASE Begin(c)
    BY <2>6, <1>0, <2>3, <2>2, <2>4, <2>1, <2>5 DEF Begin, Stopping, Shape, CommandStates,
       HoldsLock, Bound, StoppedStaysStopped
  <2>7. CASE CheckSupervisor(c)
    <3>1. /\ IF \E s \in Slots : HoldsLock(s)
             THEN command'[c].pc = "poll" /\ command'[c].is_down = command[c].is_down
             ELSE command'[c].pc \in {"done", "ensure"} /\ command'[c].is_down = TRUE
          /\ command'[c].supervised = command[c].supervised /\ command'[c].orphans = command[c].orphans
      BY <2>7, LookedIs
    <3>2. command[c].pc = "released" /\ UNCHANGED <<server, supervisor>>
      BY <2>7 DEF CheckSupervisor
    <3>3. command[c].supervised \subseteq Slots /\ command[c].orphans \subseteq Slots
      BY <1>0 DEF CommandStates
    <3>4. ASSUME ~\E s \in Slots : HoldsLock(s)
          PROVE  /\ \A s \in command[c].supervised :
                      supervisor[s].killed \/ (supervisor[s].pc = "gone" /\ ~Lives(s))
                 /\ \A s \in command[c].orphans : ~Lives(s)
      BY <3>3, <3>4, <3>2 DEF Stopping, HoldsLock, Children, Lives, Bound
    <3>5. /\ \A s \in command[c].supervised :
               supervisor[s].pc \in {"spawning", "waiting", "delayed", "gone"}
          /\ \A s \in command[c].orphans : supervisor[s].killed /\ server[s].pc # "starting"
          /\ command[c].is_down =>
               /\ \A s \in command[c].supervised :
                    supervisor[s].killed \/ (supervisor[s].pc = "gone" /\ ~Lives(s))
               /\ \A s \in command[c].orphans : ~Lives(s)
      BY DEF Stopping, StoppedStaysStopped
    <3>6. command'[c].pc \notin {"idle", "locked", "released"}
      BY <3>1
    <3>7. \A s \in Slots : Lives(s)' <=> Lives(s)
      BY <2>2
    <3> QED
      BY <2>5, <3>1, <3>2, <3>3, <3>4, <3>5, <3>6, <3>7 DEF Stopping, StoppedStaysStopped
  <2>8. CASE SameAim(c) /\ ~Begin(c) /\ ~CheckSupervisor(c)
    <3>1. /\ command'[c].pc = "locked" => bind_lock = NoOne /\ UNCHANGED server
          /\ command'[c].pc = "released" => command[c].pc = "locked" /\ UNCHANGED server
      BY <1>3, <2>8, CommandMoves
    <3>2. command[c].supervised \subseteq Slots /\ command[c].orphans \subseteq Slots
      BY <1>0 DEF CommandStates
    <3>3. \A s \in command[c].supervised : supervisor'[s] = supervisor[s]
      BY <2>3, <3>2 DEF Stopping
    <3>4. \A s \in command[c].orphans : supervisor'[s] = supervisor[s]
      BY <2>4, <3>2 DEF Stopping
    <3>5. ASSUME bind_lock = NoOne PROVE \A s \in command[c].orphans : ~Lives(s)
      BY SupervisionAssumption, <3>5, <3>2 DEF BindLock, Stopping, Lives
    <3>6. command'[c].pc \in {"locked", "released"} => \A s \in command[c].orphans : ~Lives(s)'
      BY <2>2, <3>1, <3>2, <3>5 DEF Stopping
    <3>7. /\ \A s \in command[c].supervised :
               supervisor'[s].pc \in {"spawning", "waiting", "delayed", "gone"}
          /\ \A s \in command[c].orphans : supervisor'[s].killed /\ server'[s].pc # "starting"
      BY <2>2, <3>2, <3>3, <3>4 DEF Stopping
    <3>8. command[c].is_down =>
            /\ \A s \in command[c].supervised :
                 supervisor'[s].killed \/ (supervisor'[s].pc = "gone" /\ ~Lives(s)')
            /\ \A s \in command[c].orphans : ~Lives(s)'
      BY <2>2, <3>2, <3>3, <3>4 DEF StoppedStaysStopped
    <3> QED
      BY <2>1, <2>5, <2>8, <3>6, <3>7, <3>8 DEF SameAim, Stopping, StoppedStaysStopped
  <2> QED
    BY <1>3, <2>6, <2>7, <2>8, CommandMoves
<1>4. CASE Tick
  BY <1>4 DEF Tick, Stopping, StoppedStaysStopped, Lives
<1>5. CASE UNCHANGED superVars
  BY <1>5 DEF superVars, Stopping, StoppedStaysStopped, Lives
<1> QED
  BY <1>1, <1>2, <1>3, <1>4, <1>5 DEF SuperNext

-----------------------------------------------------------------------------
(* The restarts a Supervisor remembers                                     *)

(* Forgetting what is out of the window loses nothing that counts.         *)
LEMMA KeepsRecent ==
    ASSUME clock \in Nat, NEW a \in Seq(Nat), NEW r \in Seq(Nat), Keeps(a, r)
    PROVE  Keeps(a, Recent(r))
<1> DEFINE e == Expired(r)
           recent == Recent(r)
           n == Len(a)
           k == Len(r)
<1>0. n \in Nat /\ k \in Nat
  OBVIOUS
<1>1. /\ e \in 0..k /\ recent \in Seq(Nat) /\ Len(recent) = k - e /\ n \in Nat /\ k \in Nat
      /\ \A i \in 1..e : clock - r[i] >= Window
      /\ \A i \in 1..k - e : recent[i] = r[e + i]
  BY RecentIs, <1>0
<1>2. /\ k <= n /\ k <= MaxRestarts
      /\ \A i \in 1..k : r[i] = a[(n - k) + i]
      /\ \A i \in 1..n - k : clock - a[i] >= Window
      /\ \A i \in 1..n : a[i] <= clock
      /\ \A i, j \in 1..n : i <= j => a[i] <= a[j]
  BY DEF Keeps
<1> HIDE DEF e, recent, n, k
<1>3. MaxRestarts \in Nat /\ n - (k - e) = (n - k) + e
  BY <1>1, SupervisionAssumption
<1>4. ASSUME NEW i \in 1..k - e PROVE recent[i] = a[(n - (k - e)) + i]
  BY <1>1, <1>2
<1>5. ASSUME NEW i \in 1..n - (k - e) PROVE clock - a[i] >= Window
  <2>1. CASE i <= n - k
    BY <1>1, <2>1, <1>2
  <2>2. CASE i > n - k
    <3>1. i - (n - k) \in 1..e /\ i - (n - k) \in 1..k /\ (n - k) + (i - (n - k)) = i
      BY <1>1, <1>3, <2>2
    <3>2. r[i - (n - k)] = a[(n - k) + (i - (n - k))]
      BY <1>2, <3>1
    <3>3. r[i - (n - k)] = a[i] /\ clock - r[i - (n - k)] >= Window
      BY <1>1, <3>1, <3>2
    <3> QED
      BY <3>3
  <2> QED
    BY <1>1, <2>1, <2>2
<1>6. k - e <= n /\ k - e <= MaxRestarts
  BY <1>1, <1>2, <1>3
<1>7. Keeps(a, recent)
  BY <1>1, <1>2, <1>4, <1>5, <1>6 DEF Keeps, n
<1> QED
  BY <1>7 DEF recent

(* A restart is remembered, and as far from the one MaxRestarts before it  *)
(* as the window asks.                                                     *)
Spaced(a) == \A i \in DOMAIN a : i + MaxRestarts \in DOMAIN a => a[i + MaxRestarts] - a[i] >= Window
LEMMA KeepsAnother ==
    ASSUME clock \in Nat, NEW a \in Seq(Nat), NEW r \in Seq(Nat), Keeps(a, r), Len(r) < MaxRestarts, Spaced(a)
    PROVE  Keeps(Append(a, clock), Append(r, clock)) /\ Spaced(Append(a, clock))
<1> DEFINE a2 == Append(a, clock)
           r2 == Append(r, clock)
           n == Len(a)
           k == Len(r)
<1>1. /\ a2 \in Seq(Nat) /\ r2 \in Seq(Nat) /\ Len(a2) = n + 1 /\ Len(r2) = k + 1
      /\ a2[n + 1] = clock /\ r2[k + 1] = clock
      /\ \A i \in 1..n : a2[i] = a[i]
      /\ \A i \in 1..k : r2[i] = r[i]
      /\ n \in Nat /\ k \in Nat /\ MaxRestarts \in Nat /\ Window \in Nat /\ k + 1 <= MaxRestarts
      /\ DOMAIN a = 1..n /\ DOMAIN a2 = 1..n + 1
  BY SupervisionAssumption
<1>2. /\ k <= n /\ k <= MaxRestarts
      /\ \A i \in 1..k : r[i] = a[(n - k) + i]
      /\ \A i \in 1..n - k : clock - a[i] >= Window
      /\ \A i \in 1..n : a[i] <= clock
      /\ \A i, j \in 1..n : i <= j => a[i] <= a[j]
  BY DEF Keeps
<1>3. \A i \in 1..n : a[i] \in Nat
  OBVIOUS
<1> HIDE DEF a2, r2, n, k
<1>4. ASSUME NEW i \in 1..k + 1 PROVE r2[i] = a2[((n + 1) - (k + 1)) + i]
  BY <1>1, <1>2
<1>5. \A i \in 1..(n + 1) - (k + 1) : clock - a2[i] >= Window
  BY <1>1, <1>2
<1>6. \A i \in 1..n + 1 : a2[i] <= clock /\ (i = n + 1 \/ i \in 1..n)
  BY <1>1, <1>2
<1>7. ASSUME NEW i \in 1..n + 1, NEW j \in 1..n + 1, i <= j PROVE a2[i] <= a2[j]
  <2>1. CASE j = n + 1
    BY <1>1, <1>6, <2>1
  <2>2. CASE j # n + 1
    BY <1>1, <1>7, <2>2, <1>2
  <2> QED
    BY <2>1, <2>2
<1>8. Keeps(a2, r2)
  BY <1>1, <1>2, <1>4, <1>5, <1>6, <1>7 DEF Keeps
<1>9. ASSUME NEW i \in 1..n + 1, i + MaxRestarts \in 1..n + 1 PROVE a2[i + MaxRestarts] - a2[i] >= Window
  <2>1. CASE i + MaxRestarts = n + 1
    <3>1. i \in 1..n - k /\ i \in 1..n
      BY <1>1, <1>2, <2>1
    <3> QED
      BY <1>1, <1>2, <2>1, <3>1
  <2>2. CASE i + MaxRestarts # n + 1
    <3>1. i \in 1..n /\ i + MaxRestarts \in 1..n
      BY <1>1, <1>9, <2>2
    <3>2. a[i + MaxRestarts] - a[i] >= Window
      BY <1>1, <3>1 DEF Spaced
    <3> QED
      BY <1>1, <3>1, <3>2
  <2> QED
    BY <2>1, <2>2
<1>10. Spaced(a2)
  BY <1>1, <1>9 DEF Spaced
<1> QED
  BY <1>8, <1>10 DEF a2, r2

(* When as many are within the window as there may be, they are just those *)
(* that it remembers.                                                      *)
LEMMA WithinWindow ==
    ASSUME clock \in Nat, NEW a \in Seq(Nat), NEW r \in Seq(Nat), Keeps(a, r), Len(r) = MaxRestarts,
           r # <<>> => clock - r[1] < Window
    PROVE  Cardinality({i \in DOMAIN a : clock - a[i] < Window}) = MaxRestarts
<1> DEFINE n == Len(a)
           k == Len(r)
           low == (n - k) + 1
<1>1. /\ n \in Nat /\ k \in Nat /\ Window \in Nat /\ DOMAIN a = 1..n
      /\ \A i \in 1..n : a[i] \in Nat
      /\ k # 0 => r # <<>>
  BY SupervisionAssumption
<1>2. /\ k <= n
      /\ \A i \in 1..k : r[i] = a[(n - k) + i]
      /\ \A i \in 1..n - k : clock - a[i] >= Window
      /\ \A i, j \in 1..n : i <= j => a[i] <= a[j]
  BY DEF Keeps
<1> HIDE DEF n, k
<1>3. low \in Int /\ low \in 1..n + 1
  BY <1>1, <1>2
<1>4. ASSUME NEW i \in 1..n PROVE clock - a[i] < Window <=> i \in low..n
  BY <1>1, <1>2
<1>5. {i \in DOMAIN a : clock - a[i] < Window} = low..n
  BY SMTT(30), <1>1, <1>3, <1>4
<1>6. Cardinality(low..n) = IF low > n THEN 0 ELSE n - low + 1
  BY <1>1, <1>3, FS_Interval
<1>7. Cardinality(low..n) = k
  BY <1>1, <1>2, <1>6
<1> QED
  BY <1>5, <1>7 DEF k

(* What a Supervisor becomes when its Server has ended.                    *)
Restarted(v) ==
    [v EXCEPT !.pc = "delayed", !.restarts = Append(Recent(v.restarts), clock), !.all = Append(v.all, clock)]
GivenUp(v) == [v EXCEPT !.pc = "gone", !.restarts = Recent(v.restarts), !.gave_up = clock]
LEMMA ReapIs ==
    ASSUME Shape, NEW s \in Slots, Reap(s)
    PROVE  LET v == supervisor[s]
               w == supervisor'[s]
           IN  /\ v.pc = "waiting"
               /\ \/ w.all = v.all /\ w.restarts = v.restarts /\ w.gave_up = v.gave_up
                  \/ /\ MayRestart(s) /\ w.all = Append(v.all, clock)
                     /\ w.restarts = Append(Recent(v.restarts), clock) /\ w.gave_up = v.gave_up
                  \/ /\ ~MayRestart(s) /\ w.all = v.all
                     /\ w.restarts = Recent(v.restarts) /\ w.gave_up = clock
BY DEF Shape, Reap, Restarted, GivenUp, SupervisorStates

LEMMA MemoryStep ==
    Shape /\ Asks /\ Children /\ Memory /\ RestartsAreBounded /\ [SuperNext]_superVars
        => Memory' /\ RestartsAreBounded'
<1> SUFFICES ASSUME Shape, Asks, Children, Memory, RestartsAreBounded, [SuperNext]_superVars
             PROVE  Memory' /\ RestartsAreBounded'
  OBVIOUS
<1> DEFINE Enough(v) == v.gave_up >= 0 =>
             Cardinality({i \in DOMAIN v.all : v.gave_up - v.all[i] < Window}) = MaxRestarts
           Same(v, w) == w.all = v.all /\ w.restarts = v.restarts /\ w.gave_up = v.gave_up
<1>0. /\ supervisor \in [Slots -> SupervisorStates] /\ clock \in Nat
      /\ \A t \in Slots : Keeps(supervisor[t].all, supervisor[t].restarts)
      /\ \A t \in Slots : Spaced(supervisor[t].all) /\ Enough(supervisor[t])
      /\ \A t \in Slots : supervisor[t].all \in Seq(Nat) /\ supervisor[t].restarts \in Seq(Nat)
  BY DEF Shape, Memory, RestartsAreBounded, Spaced, SupervisorStates
<1>1. ASSUME UNCHANGED clock,
             \A t \in Slots : Keeps(supervisor'[t].all, supervisor'[t].restarts),
             \A t \in Slots : Spaced(supervisor'[t].all) /\ Enough(supervisor'[t])
      PROVE  Memory' /\ RestartsAreBounded'
  BY <1>1 DEF Memory, RestartsAreBounded, Spaced, Keeps
<1>2. ASSUME UNCHANGED clock, \A t \in Slots : Same(supervisor[t], supervisor'[t])
      PROVE  Memory' /\ RestartsAreBounded'
  BY <1>0, <1>1, <1>2
<1>3. ASSUME NEW s \in Slots, Reap(s) PROVE Memory' /\ RestartsAreBounded'
  <2> DEFINE v == supervisor[s]
             w == supervisor'[s]
             recent == Recent(v.restarts)
  <2>1. UNCHANGED clock
    BY <1>3 DEF Reap
  <2>2. \A t \in Slots : t # s => supervisor'[t] = supervisor[t]
    BY ZenonT(60), <1>3, SupervisorMoves DEF SupervisorSteps
  <2>3. /\ v.pc = "waiting"
        /\ \/ Same(v, w)
           \/ /\ MayRestart(s) /\ w.all = Append(v.all, clock)
              /\ w.restarts = Append(recent, clock) /\ w.gave_up = v.gave_up
           \/ ~MayRestart(s) /\ w.all = v.all /\ w.restarts = recent /\ w.gave_up = clock
    BY <1>3, ReapIs
  <2>4. v.all \in Seq(Nat) /\ v.restarts \in Seq(Nat) /\ recent \in Seq(Nat)
    BY <1>0, RecentIs
  <2>5. Keeps(v.all, recent) /\ Spaced(v.all) /\ Enough(v) /\ v.gave_up = -1
    BY <1>0, <2>3, <2>4, KeepsRecent DEF Children
  <2>6. CASE Same(v, w)
    BY <1>0, <1>2, <2>1, <2>2, <2>6
  <2>7. CASE MayRestart(s) /\ w.all = Append(v.all, clock) /\ w.restarts = Append(recent, clock)
             /\ w.gave_up = v.gave_up
    <3>1. Len(recent) < MaxRestarts
      BY <2>7 DEF MayRestart
    <3>2. Keeps(Append(v.all, clock), Append(recent, clock)) /\ Spaced(Append(v.all, clock))
      BY <1>0, <2>4, <2>5, <3>1, KeepsAnother
    <3>3. ~(w.gave_up >= 0)
      BY <2>5, <2>7
    <3>4. Keeps(w.all, w.restarts) /\ Spaced(w.all) /\ Enough(w)
      BY <2>7, <3>2, <3>3
    <3> QED
      BY <1>0, <1>1, <2>1, <2>2, <3>4
  <2>8. CASE ~MayRestart(s) /\ w.all = v.all /\ w.restarts = recent /\ w.gave_up = clock
    <3>1. Len(recent) = MaxRestarts
      BY <2>5, <2>8, <2>4, SupervisionAssumption DEF MayRestart, Keeps
    <3>2. recent # <<>> => clock - recent[1] < Window
      <4> SUFFICES ASSUME recent # <<>> PROVE clock - recent[1] < Window
        OBVIOUS
      <4>1. /\ Expired(v.restarts) \in 0..Len(v.restarts)
            /\ Expired(v.restarts) < Len(v.restarts) => clock - v.restarts[Expired(v.restarts) + 1] < Window
            /\ Len(recent) = Len(v.restarts) - Expired(v.restarts)
            /\ \A i \in 1..Len(v.restarts) - Expired(v.restarts) : recent[i] = v.restarts[Expired(v.restarts) + i]
        BY <1>0, <2>4, RecentIs
      <4>2. Len(recent) # 0 /\ Len(recent) \in Nat /\ Len(v.restarts) \in Nat
        BY <2>4
      <4>3. Expired(v.restarts) < Len(v.restarts) /\ 1 \in 1..Len(v.restarts) - Expired(v.restarts)
        BY <4>1, <4>2
      <4> QED
        BY <4>1, <4>3
    <3>3. Cardinality({i \in DOMAIN v.all : clock - v.all[i] < Window}) = MaxRestarts
      BY <1>0, <2>4, <2>5, <3>1, <3>2, WithinWindow
    <3>4. Keeps(w.all, w.restarts) /\ Spaced(w.all) /\ Enough(w)
      BY <2>5, <2>8, <3>3
    <3> QED
      BY <1>0, <1>1, <2>1, <2>2, <3>4
  <2> QED
    BY <2>3, <2>6, <2>7, <2>8
<1>4. ASSUME NEW s \in Slots, SupervisorSteps(s) \/ SupervisorDies(s)
      PROVE  Memory' /\ RestartsAreBounded'
  <2>1. /\ UNCHANGED clock
        /\ \A t \in Slots : t # s => supervisor'[t] = supervisor[t]
        /\ \/ Reap(s)
           \/ supervisor'[s] = [supervisor[s] EXCEPT !.pc = "spawning"]
           \/ supervisor'[s] = [supervisor[s] EXCEPT !.pc = "waiting"]
           \/ supervisor'[s] = [supervisor[s] EXCEPT !.pc = "gone", !.killed = TRUE]
    BY <1>4, SupervisorMoves
  <2>2. Reap(s) \/ Same(supervisor[s], supervisor'[s])
    BY <1>0, <2>1 DEF SupervisorStates
  <2>3. CASE Same(supervisor[s], supervisor'[s])
    BY <1>2, <2>1, <2>3
  <2> QED
    BY <1>3, <2>2, <2>3
<1>5. ASSUME NEW c \in Commands, CommandSteps(c) \/ TimeOut(c)
      PROVE  Memory' /\ RestartsAreBounded'
  <2>1. UNCHANGED clock /\ \A t \in Slots : supervisor'[t] = supervisor[t]
                            \/ supervisor'[t] = [supervisor[t] EXCEPT !.pc = "starting"]
    BY <1>5, CommandMoves
  <2>2. \A t \in Slots : Same(supervisor[t], supervisor'[t])
    BY ZenonT(60), <1>0, <2>1 DEF SupervisorStates
  <2> QED
    BY <1>2, <2>1, <2>2
<1>6. ASSUME NEW s \in Slots,
             ServerSteps(s) \/ FailBind(s) \/ FailAccept(s) \/ Crash(s) \/ Kill(s)
      PROVE  Memory' /\ RestartsAreBounded'
  BY <1>2, <1>6, ServerMoves
<1>7. CASE Tick
  <2>1. UNCHANGED supervisor /\ clock' = clock + 1
    BY <1>7 DEF Tick
  <2>2. ASSUME NEW s \in Slots PROVE Keeps(supervisor[s].all, supervisor[s].restarts)'
    <3> DEFINE a == supervisor[s].all
               n == Len(a)
               k == Len(supervisor[s].restarts)
    <3>1. Keeps(a, supervisor[s].restarts) /\ \A i \in 1..n : a[i] \in Nat
      BY <1>0
    <3>2. n \in Nat /\ k \in Nat
      BY <1>0
    <3>3. \A i \in 1..n - k : i \in 1..n
      BY <3>2
    <3>4. /\ \A i \in 1..n - k : clock' - a[i] >= Window
          /\ \A i \in 1..n : a[i] <= clock'
      <4>1. /\ \A i \in 1..n - k : clock - a[i] >= Window
            /\ \A i \in 1..n : a[i] <= clock
        BY <3>1 DEF Keeps
      <4>2. clock \in Nat /\ clock' = clock + 1 /\ Window \in Nat
        BY <1>0, <2>1, SupervisionAssumption
      <4> HIDE DEF a, n, k
      <4> QED
        BY <3>1, <3>2, <3>3, <4>1, <4>2
    <3> QED
      BY <2>1, <3>1, <3>4 DEF Keeps
  <2> QED
    BY <2>1, <2>2 DEF Memory, RestartsAreBounded
<1>8. CASE UNCHANGED superVars
  BY <1>2, <1>8 DEF superVars
<1> QED
  BY <1>4, <1>5, <1>6, <1>7, <1>8 DEF SuperNext

-----------------------------------------------------------------------------
(* The processes are sound                                                 *)

LEMMA SuperInvInit == ASSUME NEW setting \in SuperSettings, SuperInit(setting) PROVE SuperInv
<1>1. Shape
  BY ShapeInit
<1>2. Inodes /\ Asks
  BY DEF SuperInit, Inodes, Asks, NoServer, NoCommand, NoPath
<1>3. BindLock
  BY SupervisionAssumption DEF SuperInit, SuperSettings, NoCommand, BindLock, PathNamesTheServer,
     NoServer, Bound, HasSocket
<1>4. Children
  BY DEF SuperInit, Children, NoSupervisor, NoServer
<1>5. Stopping /\ StoppedStaysStopped
  BY DEF SuperInit, Stopping, StoppedStaysStopped, NoCommand
<1>6. \A s \in Slots : supervisor[s].all = <<>> /\ supervisor[s].restarts = <<>> /\ supervisor[s].gave_up = -1
  BY DEF SuperInit, NoSupervisor
<1>7. Memory
  <2>1. Len(<<>>) = 0 /\ MaxRestarts \in Nat
    BY SupervisionAssumption
  <2>2. Keeps(<<>>, <<>>)
    BY <2>1 DEF Keeps
  <2> QED
    BY <1>6, <2>2 DEF Memory
<1>8. RestartsAreBounded
  BY <1>6 DEF RestartsAreBounded
<1> QED
  BY <1>1, <1>2, <1>3, <1>4, <1>5, <1>7, <1>8 DEF SuperInv

LEMMA SuperInvStep == SuperInv /\ [SuperNext]_superVars => SuperInv'
BY ShapeStep, AsksStep, BindLockStep, ChildrenStep, StoppingStep, MemoryStep DEF SuperInv

(* The inductive invariant: types, the bind lock, who has a child, what a  *)
(* stopping command may count on, and what a Supervisor remembers.         *)
THEOREM ProcessesInv == SuperSpec => []SuperInv
<1>1. (\E setting \in SuperSettings : SuperInit(setting)) => SuperInv
  BY SuperInvInit
<1> QED
  BY <1>1, SuperInvStep, PTL DEF SuperSpec

(* For any number of Supervisors and commands, and any crashes, kills and  *)
(* timeouts: the socket at the path is that of the Server that has the     *)
(* bind lock, a command that says `stopped` is right, and restarts within  *)
(* the window are exactly bounded (supervisor.rs, endpoint/local.rs,       *)
(* server/local.rs).                                                       *)
THEOREM ProcessesAreSound == SuperSpec => []SupervisorIsSound
<1>1. SuperInv => SupervisorIsSound
  <2> SUFFICES ASSUME SuperInv PROVE SuperTypeOK
    BY DEF SuperInv, BindLock, SupervisorIsSound
  <2>1. bind_lock \in {NoOne} \cup Slots \cup Commands /\ superSpent.inodes \in Nat
        /\ \A c \in Commands : command[c].asked \in Nat
    BY DEF SuperInv, Shape, SpentStates, CommandStates
  <2>2. \A c \in Commands : command[c].asked \in 0..superSpent.inodes
    BY <2>1 DEF SuperInv, Inodes
  <2>3. \A s \in Slots : Len(supervisor[s].restarts) <= MaxRestarts
    BY DEF SuperInv, Memory, Keeps
  <2>4. \A s \in Slots : server[s].pc \in Bound <=> bind_lock = s
    BY DEF SuperInv, BindLock
  <2> QED
    BY <2>1, <2>2, <2>3, <2>4 DEF SuperTypeOK
<1> QED
  BY <1>1, ProcessesInv, PTL

-----------------------------------------------------------------------------
(* The Git watcher: what the variables hold.                               *)

Places == {"none", "scanned", "before", "after"}
GitMessages ==
    [type : {"Watch"}, workspace : Workspaces, git_dir : BOOLEAN]
      \cup [type : {"Retain"}, keep : SUBSET Workspaces]
      \cup [type : {"Refresh"}, workspace : Workspaces]
      \cup [type : {"TerminalActivity"}, workspace : Workspaces]
      \cup [type : {"Filesystem"}, workspace : Workspaces, path : Kinds]
      \cup {Stop}
Pendings == {s \in Seq(Kinds) : Len(s) <= MaxPending}
Entries ==
    [watched : {TRUE}, root_subscribed : BOOLEAN, git_dir_subscribed : BOOLEAN,
     pending : Pendings, filesystem_due : BOOLEAN, terminal_due : BOOLEAN, fingerprint : Nat,
     forced : BOOLEAN, overflow : BOOLEAN, storm : BOOLEAN, dropped : BOOLEAN, failed : BOOLEAN]
ScanStates ==
    [stage : {"begun"}, workspace : Workspaces, filesystem : BOOLEAN, changed : BOOLEAN,
     fingerprint : Nat, pending : Pendings, forced : BOOLEAN, overflow : BOOLEAN]
      \cup [stage : {"found"}, workspace : Workspaces, refs : Nat, files_changed : BOOLEAN]
      \cup [stage : {"read"}, workspace : Workspaces, git : Gits, files_changed : BOOLEAN]
      \cup {NoScan}
GitSpentStates ==
    [setting : GitSettings, created : SUBSET Workspaces, refreshes : Nat, outputs : Nat,
     failures : Nat, refusals : Nat, heard : [Workspaces -> BOOLEAN], changes : [Kinds -> Nat]]

GitTypes ==
    /\ disk \in [Workspaces -> [repository : BOOLEAN, refs : Nat, files : Nat]]
    /\ opened \subseteq Workspaces
    /\ known \in [Workspaces -> Gits] /\ told \in [Workspaces -> Nat]
    /\ inbox \in Seq(GitMessages)
    /\ activity \in [Workspaces -> Places] /\ probed \in [Workspaces -> Places]
    /\ watched \in [Workspaces -> Entries \cup {NotWatched}]
    /\ scan \in ScanStates
    /\ worker \in [running : BOOLEAN, stopping : BOOLEAN]
    /\ gitSpent \in GitSpentStates

IsWatched(w) == watched[w] # NotWatched
ScanIs(w, stage) == scan.stage = stage /\ scan.workspace = w
Scanned(w) == ScanIs(w, "found") \/ ScanIs(w, "read")

(* What is queued for a Workspace.                                         *)
In(s, m) == \E i \in DOMAIN s : s[i] = m
Drops(m, w) == m.type = "Retain" /\ w \notin m.keep
Watches(m, w) == m.type = "Watch" /\ m.workspace = w
Dropped(s, w) == \E k \in DOMAIN s : Drops(s[k], w)
(* It will be put under watch and refreshed, and stay there.               *)
PromisedAt(s, w, i, j) ==
    /\ i < j /\ Watches(s[i], w) /\ s[j] = Refresh(w)
    /\ \A k \in DOMAIN s : Drops(s[k], w) => k < i
Promised(s, w) == \E i, j \in DOMAIN s : PromisedAt(s, w, i, j)
(* After each message that puts it under watch, one takes it from there.   *)
Unwatches(s, w) == \A i \in DOMAIN s : Watches(s[i], w) => \E k \in DOMAIN s : i < k /\ Drops(s[k], w)

(* With what is queued, it will be watched if it is in the Session.        *)
Booked(s, w, open, on) ==
    /\ open => ((~on \/ Dropped(s, w)) => Promised(s, w))
    /\ ~open => (on => Dropped(s, w)) /\ Unwatches(s, w)
BookInv(w) == Booked(inbox, w, w \in opened, IsWatched(w))

(* A full scan of it is asked for, whatever it finds.                      *)
Forced(w) ==
    \/ In(inbox, Refresh(w))
    \/ IsWatched(w) /\ watched[w].filesystem_due /\ watched[w].forced
(* A change of this kind is to be looked at.                               *)
Reported(w, kind) ==
    \/ In(inbox, Filesystem(w, kind))
    \/ IsWatched(w) /\ watched[w].filesystem_due /\ kind \in Paths(watched[w].pending)
Overflown(w) == IsWatched(w) /\ watched[w].filesystem_due /\ watched[w].overflow
WillScan(w) == Forced(w) \/ Reported(w, "git") \/ Reported(w, "file") \/ Overflown(w)
Failed(w) == IsWatched(w) /\ watched[w].failed

(* The scan that has begun sees its way through, or hides what it skipped. *)
Unskipped ==
    scan.changed \/ scan.forced \/ scan.overflow \/ \E p \in Paths(scan.pending) : p # "ignored"

(* With a filesystem watcher.                                              *)
TreeInv(w) ==
    /\ IsWatched(w) => watched[w].root_subscribed
    /\ Linked(w) /\ Scanned(w) => watched[w].git_dir_subscribed
    /\ w \in opened =>
         /\ Linked(w) /\ IsWatched(w) =>
              \/ watched[w].git_dir_subscribed \/ Failed(w) \/ Forced(w)
              \/ ScanIs(w, "begun") /\ scan.forced
         /\ ~Scanned(w) =>
              \/ known[w] = OnDisk(w) \/ WillScan(w) \/ Failed(w)
              \/ IsWatched(w) /\ watched[w].storm
              \/ ScanIs(w, "begun") /\ Unskipped
         /\ ScanIs(w, "found") => (scan.refs = disk[w].refs \/ WillScan(w))
         /\ ScanIs(w, "read") => (scan.git = OnDisk(w) \/ WillScan(w))

(* What the Clients were told of its files.                                *)
FilesInv(w) ==
    w \in opened =>
      \/ told[w] = disk[w].files \/ Forced(w) \/ Reported(w, "file")
      \/ IsWatched(w) /\ watched[w].dropped
      \/ ScanIs(w, "begun") /\ (scan.forced \/ "file" \in Paths(scan.pending))
      \/ Scanned(w) /\ scan.files_changed

(* Output that no scan has covered yet.                                    *)
WillLook(w) ==
    \/ probed[w] \in {"before", "after"} \/ activity[w] \in {"before", "after"}
    \/ IsWatched(w) /\ watched[w].terminal_due
IsCurrentGit(w, git) == git # NoGit /\ git.refs = disk[w].refs

(* Without one.                                                            *)
LookInv(w) ==
    /\ IsWatched(w) => watched[w].fingerprint <= disk[w].refs
    /\ known[w] # NoGit => known[w].refs <= disk[w].refs
    /\ ScanIs(w, "begun") => scan.fingerprint <= disk[w].refs
    /\ ScanIs(w, "found") => watched[w].fingerprint <= scan.refs /\ scan.refs <= disk[w].refs
    /\ ScanIs(w, "read") /\ scan.git # NoGit =>
         watched[w].fingerprint <= scan.git.refs /\ scan.git.refs <= disk[w].refs
    /\ w \in opened =>
         /\ known[w] # NoGit /\ IsWatched(w) =>
              \/ watched[w].fingerprint <= known[w].refs \/ Failed(w)
              \/ Scanned(w) \/ (ScanIs(w, "begun") /\ scan.changed)
         /\ ~Scanned(w) /\ gitSpent.heard[w] /\ disk[w].repository =>
              \/ IsCurrentGit(w, known[w]) \/ Failed(w) \/ Forced(w) \/ WillLook(w)
              \/ ScanIs(w, "begun") /\ (scan.changed \/ scan.forced)
         /\ ScanIs(w, "found") /\ gitSpent.heard[w] =>
              scan.refs = disk[w].refs \/ Forced(w) \/ WillLook(w)
         /\ ScanIs(w, "read") /\ gitSpent.heard[w] /\ disk[w].repository =>
              IsCurrentGit(w, scan.git) \/ Forced(w) \/ WillLook(w)

Held(w) == BookInv(w) /\ LookInv(w) /\ (SeesFiles => TreeInv(w) /\ FilesInv(w))

ScanInv ==
    /\ scan # NoScan => IsWatched(scan.workspace)
    /\ scan.stage = "found" => disk[scan.workspace].repository
    /\ \A w \in Workspaces : Linked(w) => disk[w].repository

GitInv ==
    /\ GitTypes /\ ScanInv
    /\ Serving => ~In(inbox, Stop) /\ \A w \in Workspaces : Held(w)

-----------------------------------------------------------------------------
(* What is queued, after a message more or one less.                       *)

(* Of a queue with one message more.                                       *)
LEMMA InAppend ==
    ASSUME NEW s \in Seq(GitMessages), NEW m \in GitMessages
    PROVE  /\ Append(s, m) \in Seq(GitMessages)
           /\ \A x : In(Append(s, m), x) <=> In(s, x) \/ x = m
<1>1. /\ Append(s, m) \in Seq(GitMessages)
      /\ DOMAIN Append(s, m) = DOMAIN s \cup {Len(s) + 1}
      /\ \A i \in DOMAIN s : Append(s, m)[i] = s[i]
      /\ Append(s, m)[Len(s) + 1] = m
  OBVIOUS
<1> QED
  BY <1>1 DEF In

(* Of a queue with its first message taken.                                *)
LEMMA TailIs ==
    ASSUME NEW s \in Seq(GitMessages), s # <<>>
    PROVE  /\ Tail(s) \in Seq(GitMessages) /\ Head(s) = s[1] /\ Head(s) \in GitMessages
           /\ DOMAIN s = 1 .. Len(s) /\ DOMAIN Tail(s) = 1 .. Len(s) - 1 /\ Len(s) \in Nat \ {0}
           /\ \A i \in DOMAIN Tail(s) : Tail(s)[i] = s[i + 1]
OBVIOUS

LEMMA InTail ==
    ASSUME NEW s \in Seq(GitMessages), s # <<>>
    PROVE  /\ \A x : In(s, x) <=> x = Head(s) \/ In(Tail(s), x)
           /\ \A w : Dropped(s, w) <=> Drops(Head(s), w) \/ Dropped(Tail(s), w)
<1>1. /\ Head(s) = s[1] /\ DOMAIN s = 1 .. Len(s) /\ DOMAIN Tail(s) = 1 .. Len(s) - 1
      /\ Len(s) \in Nat \ {0} /\ \A i \in DOMAIN Tail(s) : Tail(s)[i] = s[i + 1]
  BY TailIs
<1>2. \A i \in DOMAIN s : i = 1 \/ (i - 1 \in DOMAIN Tail(s) /\ Tail(s)[i - 1] = s[i])
  BY <1>1
<1>3. \A i \in DOMAIN Tail(s) : i + 1 \in DOMAIN s
  BY <1>1
<1>4. 1 \in DOMAIN s
  BY <1>1
<1>5. \A x : In(s, x) <=> x = Head(s) \/ In(Tail(s), x)
  BY <1>1, <1>2, <1>3, <1>4 DEF In
<1>6. \A w : Dropped(s, w) <=> Drops(Head(s), w) \/ Dropped(Tail(s), w)
  BY <1>1, <1>2, <1>3, <1>4 DEF Dropped
<1> QED
  BY <1>5, <1>6

(* A message more, that takes no open Workspace from under watch and puts  *)
(* no closed one there.                                                    *)
LEMMA BookedAppend ==
    ASSUME NEW s \in Seq(GitMessages), NEW m \in GitMessages, NEW w \in Workspaces,
           NEW open \in BOOLEAN, NEW on \in BOOLEAN, Booked(s, w, open, on),
           ~(Drops(m, w) /\ open), ~(Watches(m, w) /\ ~open)
    PROVE  Booked(Append(s, m), w, open, on)
BY DEF Dropped, PromisedAt, Promised, Booked, Unwatches

(* A message less, whose work is done.                                     *)
LEMMA BookedTail ==
    ASSUME NEW s \in Seq(GitMessages), s # <<>>, NEW w \in Workspaces,
           NEW open \in BOOLEAN, NEW on \in BOOLEAN, NEW then \in BOOLEAN, Booked(s, w, open, on),
           Drops(Head(s), w) => ~then, Watches(Head(s), w) => then,
           ~Drops(Head(s), w) /\ ~Watches(Head(s), w) => (then <=> on)
    PROVE  /\ Booked(Tail(s), w, open, then)
           /\ open /\ (~on \/ Drops(Head(s), w)) => In(Tail(s), Refresh(w))
<1> DEFINE t == Tail(s)
<1>1. /\ Head(s) = s[1] /\ DOMAIN s = 1 .. Len(s) /\ DOMAIN t = 1 .. Len(s) - 1
      /\ Len(s) \in Nat \ {0} /\ \A i \in DOMAIN t : t[i] = s[i + 1]
  BY TailIs
<1>2. \A i \in DOMAIN s : i = 1 \/ (i - 1 \in DOMAIN t /\ t[i - 1] = s[i])
  BY <1>1
<1>3. \A x \in Workspaces : Dropped(s, x) <=> Drops(Head(s), x) \/ Dropped(t, x)
  BY InTail
<1> HIDE DEF t
<1>4. ASSUME NEW i \in DOMAIN s, NEW j \in DOMAIN s, PromisedAt(s, w, i, j)
      PROVE  /\ In(t, Refresh(w))
             /\ i # 1 => Promised(t, w)
             /\ i = 1 => ~Dropped(t, w) /\ ~Drops(Head(s), w) /\ Watches(Head(s), w)
  <2>1. i \in Nat /\ j \in Nat /\ i < j /\ i >= 1 /\ j - 1 \in DOMAIN t /\ t[j - 1] = Refresh(w)
    BY <1>1, <1>2, <1>4 DEF PromisedAt
  <2>2. In(t, Refresh(w))
    BY <2>1 DEF In
  <2>3. ASSUME i # 1 PROVE Promised(t, w)
    BY <1>2, <2>1, <2>3, <1>1, <1>4 DEF PromisedAt, Promised
  <2>4. ASSUME i = 1 PROVE ~Dropped(t, w) /\ ~Drops(Head(s), w) /\ Watches(Head(s), w)
    BY <1>1, <1>4, <2>4, <1>3 DEF PromisedAt, Dropped
  <2> QED
    BY <2>2, <2>3, <2>4
<1>5. CASE open
  BY <1>5, <1>4, <1>3 DEF Booked, Promised, t
<1>6. CASE ~open
  <2>1. then => Dropped(t, w)
    BY <1>1, <1>6, <1>2, <1>3 DEF Booked, Unwatches, Dropped
  <2>2. Unwatches(t, w)
    <3>1. SUFFICES ASSUME NEW i \in DOMAIN t, Watches(t[i], w)
                   PROVE  \E k \in DOMAIN t : i < k /\ Drops(t[k], w)
      BY DEF Unwatches
    <3>2. i \in Nat /\ i + 1 \in DOMAIN s /\ Watches(s[i + 1], w)
      BY <1>1, <3>1
    <3>3. PICK k \in DOMAIN s : i + 1 < k /\ Drops(s[k], w)
      BY <1>6, <3>2 DEF Booked, Unwatches
    <3>4. k - 1 \in DOMAIN t /\ t[k - 1] = s[k] /\ i < k - 1
      BY <1>1, <1>2, <3>2, <3>3
    <3> QED
      BY <3>3, <3>4
  <2> QED
    BY <1>6, <2>1, <2>2 DEF Booked, t
<1> QED
  BY <1>5, <1>6

-----------------------------------------------------------------------------
(* A step that is not about Workspace w, or only takes or brings a message:*)
(* its disk and what is known of it stay, nothing asked for is forgotten.  *)

AnyScan(w) == scan # NoScan /\ scan.workspace = w
SameScan(w) ==
    \/ scan' = scan /\ (AnyScan(w) => watched'[w] = watched[w])
    \/ ~AnyScan(w) /\ ~AnyScan(w)'
SameEntry(e, f) ==
    /\ f.failed = e.failed /\ f.storm = e.storm /\ f.fingerprint = e.fingerprint
    /\ e.dropped => f.dropped
    /\ e.root_subscribed => f.root_subscribed
    /\ e.git_dir_subscribed => f.git_dir_subscribed
EntryKept(w) ==
    IsWatched(w)' =>
      \/ IsWatched(w) /\ SameEntry(watched[w], watched'[w])
      \/ /\ Forced(w)' \/ w \notin opened'
         /\ watched'[w].fingerprint = 0 /\ (SeesFiles' => watched'[w].root_subscribed)
StillAsked(w) ==
    /\ IsWatched(w) /\ ~IsWatched(w)' => Forced(w)'
    /\ Forced(w) => Forced(w)'
    /\ Reported(w, "git") => Reported(w, "git")' \/ Overflown(w)' \/ Forced(w)'
    /\ Reported(w, "file") =>
         \/ Reported(w, "file")' \/ Forced(w)'
         \/ Overflown(w)' /\ watched'[w].dropped
    /\ Overflown(w) => Overflown(w)' \/ Forced(w)'
    /\ WillLook(w) => WillLook(w)' \/ Forced(w)'
    /\ gitSpent'.heard[w] => gitSpent.heard[w] \/ WillLook(w)'
Kept(w) ==
    /\ disk'[w] = disk[w] /\ known'[w] = known[w] /\ told'[w] = told[w]
    /\ gitSpent'.setting = gitSpent.setting /\ (SeesFiles' => SeesFiles)
    /\ SameScan(w) /\ EntryKept(w)
    /\ w \in opened' => w \in opened /\ StillAsked(w)

(* With a filesystem watcher: such a step breaks no promise of a scan.     *)
LEMMA TreeKept ==
    ASSUME GitTypes, GitTypes', NEW w \in Workspaces, Kept(w), ScanInv, TreeInv(w), SeesFiles'
    PROVE  TreeInv(w)'
<1>1. Linked(w)' <=> Linked(w)
  BY DEF Kept, Linked
<1>2. OnDisk(w)' = OnDisk(w)
  BY DEF Kept, OnDisk
<1>3. /\ Scanned(w)' <=> Scanned(w)
      /\ Scanned(w) => AnyScan(w) /\ scan' = scan /\ watched'[w] = watched[w] /\ IsWatched(w)
      /\ \A stage \in {"begun", "found", "read"} :
           ScanIs(w, stage)' <=> ScanIs(w, stage) /\ AnyScan(w) /\ scan' = scan
  BY DEF Kept, SameScan, AnyScan, Scanned, ScanIs, NoScan, ScanInv, GitTypes, ScanStates
<1>4. IsWatched(w)' => watched'[w].root_subscribed
  BY DEF Kept, EntryKept, SameEntry, TreeInv
<1>5. Linked(w)' /\ Scanned(w)' => watched'[w].git_dir_subscribed
  BY <1>1, <1>3 DEF TreeInv
<1>6. ASSUME w \in opened'
      PROVE  /\ w \in opened
             /\ WillScan(w) => WillScan(w)'
             /\ Forced(w) => Forced(w)'
             /\ Failed(w) => Failed(w)' \/ Forced(w)'
             /\ IsWatched(w) /\ watched[w].storm => (IsWatched(w)' /\ watched'[w].storm) \/ Forced(w)'
             /\ IsWatched(w)' /\ ~Forced(w)' => IsWatched(w) /\ SameEntry(watched[w], watched'[w])
             /\ Forced(w)' => WillScan(w)'
  BY <1>6 DEF Kept, StillAsked, WillScan, EntryKept, Failed, SameEntry
<1>7. known'[w] = known[w] /\ disk'[w] = disk[w]
  BY DEF Kept
<1>8. ASSUME w \in opened', Linked(w), IsWatched(w)', ~Forced(w)', ~watched'[w].git_dir_subscribed
      PROVE  Failed(w)' \/ (ScanIs(w, "begun")' /\ scan'.forced)
  BY <1>6, <1>8 DEF SameEntry, TreeInv, ScanIs, AnyScan, NoScan, Kept, SameScan
<1>9. ASSUME w \in opened', ~Scanned(w)', ~WillScan(w)', known'[w] # OnDisk(w)'
      PROVE  \/ Failed(w)' \/ (IsWatched(w)' /\ watched'[w].storm)
             \/ ScanIs(w, "begun")' /\ Unskipped'
  BY <1>2, <1>3, <1>6, <1>7, <1>9 DEF TreeInv, ScanIs, AnyScan, NoScan, Kept, SameScan, Unskipped,
     Paths
<1>10. ASSUME w \in opened', ScanIs(w, "found")', ~WillScan(w)'
       PROVE  scan'.refs = disk'[w].refs
  BY <1>3, <1>6, <1>7, <1>10 DEF TreeInv
<1>11. ASSUME w \in opened', ScanIs(w, "read")', ~WillScan(w)'
       PROVE  scan'.git = OnDisk(w)'
  BY <1>2, <1>3, <1>6, <1>7, <1>11 DEF TreeInv
<1> QED
  BY <1>1, <1>4, <1>5, <1>6, <1>8, <1>9, <1>10, <1>11 DEF TreeInv

(* Nor of telling the Clients of changed files.                            *)
LEMMA FilesKept ==
    ASSUME GitTypes, GitTypes', NEW w \in Workspaces, Kept(w), ScanInv, FilesInv(w)
    PROVE  FilesInv(w)'
BY DEF FilesInv, Kept, StillAsked, EntryKept, Overflown, SameEntry, SameScan, ScanIs, Scanned,
   Paths, AnyScan, NoScan

(* Nor, without one, of looking after output.                              *)
LEMMA LookKept ==
    ASSUME GitTypes, GitTypes', NEW w \in Workspaces, Kept(w), ScanInv, LookInv(w)
    PROVE  LookInv(w)'
<1>1. /\ Scanned(w)' <=> Scanned(w)
      /\ Scanned(w) => AnyScan(w) /\ scan' = scan /\ watched'[w] = watched[w] /\ IsWatched(w)
      /\ \A stage \in {"begun", "found", "read"} :
           ScanIs(w, stage)' <=> ScanIs(w, stage) /\ AnyScan(w) /\ scan' = scan
  BY DEF Kept, SameScan, AnyScan, Scanned, ScanIs, NoScan, ScanInv, GitTypes, ScanStates
<1>2. known'[w] = known[w] /\ disk'[w] = disk[w] /\ disk[w].refs \in Nat
  BY DEF Kept, GitTypes
<1>3. IsWatched(w)' => watched'[w].fingerprint <= disk[w].refs
  BY <1>2 DEF Kept, EntryKept, SameEntry, LookInv
<1>4. ScanIs(w, "begun")' => scan'.fingerprint <= disk[w].refs
  BY <1>1 DEF LookInv
<1>5. ScanIs(w, "found")' => watched'[w].fingerprint <= scan'.refs /\ scan'.refs <= disk[w].refs
  BY <1>1 DEF LookInv, Scanned
<1>6. ScanIs(w, "read")' /\ scan'.git # NoGit =>
        watched'[w].fingerprint <= scan'.git.refs /\ scan'.git.refs <= disk[w].refs
  BY <1>1 DEF LookInv, Scanned
<1>7. ASSUME w \in opened'
      PROVE  /\ w \in opened
             /\ Forced(w) => Forced(w)'
             /\ WillLook(w) => WillLook(w)' \/ Forced(w)'
             /\ Failed(w) => Failed(w)' \/ Forced(w)'
             /\ gitSpent'.heard[w] => gitSpent.heard[w] \/ WillLook(w)'
  BY <1>7 DEF Kept, EntryKept, Failed, SameEntry, StillAsked
<1>8. ASSUME w \in opened', known[w] # NoGit, IsWatched(w)'
      PROVE  \/ watched'[w].fingerprint <= known[w].refs \/ Failed(w)'
             \/ Scanned(w)' \/ (ScanIs(w, "begun")' /\ scan'.changed)
  BY <1>8, <1>1, <1>7 DEF GitTypes, Gits, ScanIs, AnyScan, Kept, SameScan, NoScan, SameEntry,
     LookInv, Failed, EntryKept
<1>9. ASSUME w \in opened', ~Scanned(w)', gitSpent'.heard[w], disk[w].repository,
             ~Failed(w)', ~Forced(w)', ~WillLook(w)'
      PROVE  \/ IsCurrentGit(w, known[w])
             \/ ScanIs(w, "begun")' /\ (scan'.changed \/ scan'.forced)
  BY <1>1, <1>7, <1>9 DEF ScanIs, AnyScan, Kept, SameScan, NoScan, LookInv
<1>10. ASSUME w \in opened', ScanIs(w, "found")', gitSpent'.heard[w], ~Forced(w)', ~WillLook(w)'
       PROVE  scan'.refs = disk[w].refs
  BY <1>1, <1>7, <1>10 DEF LookInv
<1>11. ASSUME w \in opened', ScanIs(w, "read")', gitSpent'.heard[w], disk[w].repository,
              ~Forced(w)', ~WillLook(w)'
       PROVE  IsCurrentGit(w, scan'.git)
  BY <1>1, <1>7, <1>11 DEF LookInv
<1>13. known'[w] # NoGit => known'[w].refs <= disk'[w].refs
  BY <1>2 DEF LookInv
<1> QED
  BY <1>2, <1>3, <1>4, <1>5, <1>6, <1>7, <1>8, <1>9, <1>10, <1>11, <1>13 DEF LookInv, IsCurrentGit

(* So such a step keeps all that is owed to the Workspace.                 *)
LEMMA KeptHolds ==
    ASSUME GitTypes, GitTypes', NEW w \in Workspaces, ScanInv, Held(w), Kept(w), BookInv(w)'
    PROVE  Held(w)'
BY LookKept, TreeKept, FilesKept DEF Held, Kept

-----------------------------------------------------------------------------
(* Every step keeps the types.                                             *)

LEMMA MessageTypes ==
    ASSUME NEW w \in Workspaces
    PROVE  /\ Refresh(w) \in GitMessages /\ TerminalActivity(w) \in GitMessages
           /\ Stop \in GitMessages
           /\ \A git : Watch(w, git) \in GitMessages
           /\ \A kind \in Kinds : Filesystem(w, kind) \in GitMessages
           /\ \A keep \in SUBSET Workspaces : RetainOnly(keep) \in GitMessages
BY DEF GitMessages, Refresh, TerminalActivity, Stop, Watch, Filesystem, RetainOnly

LEMMA ChangeTypes ==
    ASSUME GitTypes, NEW w \in Workspaces, NEW kind \in Kinds, Change(w, kind)
    PROVE  /\ GitTypes'
           /\ gitSpent'.setting = gitSpent.setting /\ gitSpent'.refusals = gitSpent.refusals
           /\ gitSpent'.heard = [gitSpent.heard EXCEPT ![w] = gitSpent.heard[w] /\ kind # "git"]
<1>1. disk[w] \in [repository : BOOLEAN, refs : Nat, files : Nat]
  BY DEF GitTypes
<1>2. disk' \in [Workspaces -> [repository : BOOLEAN, refs : Nat, files : Nat]]
  <2>1. [repository |-> TRUE, refs |-> disk[w].refs + 1, files |-> disk[w].files]
          \in [repository : BOOLEAN, refs : Nat, files : Nat]
    BY <1>1
  <2>2. [disk[w] EXCEPT !.files = disk[w].files + 1] \in [repository : BOOLEAN, refs : Nat, files : Nat]
    BY <1>1
  <2>3. CASE kind = "git"
    BY <2>1, <2>3 DEF GitTypes, Change
  <2>4. CASE kind = "file"
    BY <2>4, <2>2 DEF GitTypes, Change
  <2>5. CASE kind = "ignored"
    BY <2>5 DEF GitTypes, Change
  <2> QED
    BY <2>3, <2>4, <2>5 DEF Kinds
<1>3. inbox' \in Seq(GitMessages)
  BY MessageTypes DEF GitTypes, Change
<1>4. gitSpent' = [gitSpent EXCEPT !.changes = [gitSpent.changes EXCEPT ![kind] = gitSpent.changes[kind] + 1],
                     !.heard = [gitSpent.heard EXCEPT ![w] = gitSpent.heard[w] /\ kind # "git"]]
  BY DEF GitTypes, GitSpentStates, Change
<1>5. gitSpent' \in GitSpentStates
  <2>1. [gitSpent.changes EXCEPT ![kind] = gitSpent.changes[kind] + 1] \in [Kinds -> Nat]
    BY DEF GitTypes, GitSpentStates
  <2>2. [gitSpent.heard EXCEPT ![w] = gitSpent.heard[w] /\ kind # "git"] \in [Workspaces -> BOOLEAN]
    BY DEF GitTypes, GitSpentStates
  <2> QED
    BY <1>4, <2>1, <2>2 DEF GitTypes, GitSpentStates
<1>6. GitTypes'
  BY <1>2, <1>3, <1>5 DEF GitTypes, Change
<1> QED
  BY <1>4, <1>6 DEF GitTypes, GitSpentStates

(* What has happened only counts up.                                       *)
LEMMA SpentTypes ==
    ASSUME NEW s \in GitSpentStates
    PROVE  /\ [s EXCEPT !.refreshes = s.refreshes + 1] \in GitSpentStates
           /\ [s EXCEPT !.failures = s.failures + 1] \in GitSpentStates
           /\ [s EXCEPT !.refusals = s.refusals + 1] \in GitSpentStates
           /\ \A h \in [Workspaces -> BOOLEAN] :
                [s EXCEPT !.outputs = s.outputs + 1, !.heard = h] \in GitSpentStates
<1>1. /\ s.refreshes + 1 \in Nat /\ s.failures + 1 \in Nat /\ s.refusals + 1 \in Nat
      /\ s.outputs + 1 \in Nat
  BY DEF GitSpentStates
<1>2. \A n \in Nat : /\ [s EXCEPT !.refreshes = n] \in GitSpentStates
                     /\ [s EXCEPT !.failures = n] \in GitSpentStates
                     /\ [s EXCEPT !.refusals = n] \in GitSpentStates
                     /\ \A h \in [Workspaces -> BOOLEAN] :
                          [s EXCEPT !.outputs = n, !.heard = h] \in GitSpentStates
  BY DEF GitSpentStates
<1> QED
  BY <1>1, <1>2

LEMMA SessionTypes ==
    ASSUME GitTypes, NEW w \in Workspaces,
           CreateWorkspace(w) \/ CloseWorkspace(w) \/ RefreshWorkspace(w)
    PROVE  GitTypes'
<1>1. Refresh(w) \in GitMessages /\ (\A git : Watch(w, git) \in GitMessages)
      /\ \A keep \in SUBSET Workspaces : RetainOnly(keep) \in GitMessages
  BY MessageTypes
<1>2. CASE CreateWorkspace(w)
  <2>1. Discovered(w) \in Gits /\ NoGit \in Gits
    BY DEF Discovered, Gits, GitTypes, Unscanned
  <2>2. opened' \in SUBSET Workspaces /\ RetainOnly(opened') \in GitMessages
    BY <1>1, <1>2 DEF GitTypes, CreateWorkspace
  <2>3. inbox' \in Seq(GitMessages)
    BY <1>2, <1>1, <2>2 DEF CreateWorkspace, GitTypes
  <2>4. known' \in [Workspaces -> Gits]
    BY <1>2, <2>1 DEF CreateWorkspace, GitTypes
  <2>5. told' \in [Workspaces -> Nat]
    BY <1>2 DEF CreateWorkspace, GitTypes
  <2>6. gitSpent' \in GitSpentStates
    BY <1>2 DEF CreateWorkspace, GitTypes, GitSpentStates
  <2> QED
    BY <1>2, <2>2, <2>3, <2>4, <2>5, <2>6 DEF CreateWorkspace, GitTypes
<1>3. CASE CloseWorkspace(w)
  BY <1>1, <1>3 DEF CloseWorkspace, GitTypes, Gits
<1>4. CASE RefreshWorkspace(w)
  <2>1. gitSpent' \in GitSpentStates
    BY <1>4, SpentTypes DEF RefreshWorkspace, GitTypes
  <2> QED
    BY <1>1, <1>4, <2>1 DEF RefreshWorkspace, GitTypes
<1> QED
  BY <1>2, <1>3, <1>4

(* The later of two Instants, one of them of uncovered output, is as well. *)
LEMMA LaterPlace ==
    ASSUME NEW a \in Places, NEW b \in Places
    PROVE  /\ Later(a, b) \in Places
           /\ {a, b} \cap {"before", "after"} # {} => Later(a, b) \in {"before", "after"}
BY DEF Instants, Places, Later

LEMMA OutputTypes ==
    ASSUME GitTypes, NEW w \in Workspaces, Output(w) \/ RequestTerminalRefresh(w) \/ Shutdown
    PROVE  GitTypes'
<1>1. TerminalActivity(w) \in GitMessages /\ Stop \in GitMessages
  BY MessageTypes
<1>2. CASE Output(w)
  BY <1>2, SpentTypes DEF Output, GitTypes, GitSpentStates, Places
<1>3. CASE RequestTerminalRefresh(w)
  <2>1. Later(activity[w], probed[w]) \in Places
    BY LaterPlace DEF GitTypes
  <2>2. activity' \in [Workspaces -> Places]
    BY <1>3, <2>1 DEF RequestTerminalRefresh, GitTypes
  <2>3. inbox' \in Seq(GitMessages)
    <3>1. inbox' = Append(inbox, TerminalActivity(w)) \/ inbox' = inbox
      BY <1>3 DEF RequestTerminalRefresh
    <3> QED
      BY <1>1, <3>1, InAppend DEF GitTypes
  <2> QED
    BY <1>3, <2>2, <2>3 DEF RequestTerminalRefresh, GitTypes, Places
<1>4. CASE Shutdown
  <2>1. inbox' \in Seq(GitMessages)
    BY <1>1, <1>4 DEF Shutdown, GitTypes
  <2>2. worker' \in [running : BOOLEAN, stopping : BOOLEAN]
    BY <1>4 DEF Shutdown, GitTypes
  <2> QED
    BY <1>4, <2>1, <2>2 DEF Shutdown, GitTypes
<1> QED
  BY <1>2, <1>3, <1>4

-----------------------------------------------------------------------------
(* The steps beside the worker.                                            *)

KeepsAsking(w) ==
    /\ In(inbox, Refresh(w)) => In(inbox', Refresh(w))
    /\ \A kind \in Kinds : In(inbox, Filesystem(w, kind)) => In(inbox', Filesystem(w, kind))
Steady(w) ==
    /\ disk'[w] = disk[w] /\ known'[w] = known[w] /\ told'[w] = told[w] /\ watched'[w] = watched[w]
    /\ gitSpent'.setting = gitSpent.setting /\ (SeesFiles' => SeesFiles)
    /\ SameScan(w)
    /\ w \in opened' =>
         /\ w \in opened /\ KeepsAsking(w) /\ (WillLook(w) => WillLook(w)')
         /\ gitSpent'.heard[w] => gitSpent.heard[w] \/ WillLook(w)'

(* A step that leaves the entry alone is one of those.                     *)
LEMMA SteadyIsKept ==
    ASSUME NEW w \in Workspaces, Steady(w)
    PROVE  Kept(w)
BY DEF Steady, IsWatched, EntryKept, SameEntry, KeepsAsking, Forced, Reported, Kinds, Paths,
   Overflown, StillAsked, Kept

(* A message more that is not the end of anything.                         *)
LEMMA AppendKeeps ==
    ASSUME GitTypes, NEW w \in Workspaces, NEW m \in GitMessages, inbox' = Append(inbox, m)
    PROVE  /\ KeepsAsking(w) /\ \A x : In(inbox', x) <=> In(inbox, x) \/ x = m
           /\ BookInv(w) /\ (w \in opened' <=> w \in opened) /\ (IsWatched(w)' <=> IsWatched(w))
                /\ ~(Drops(m, w) /\ w \in opened) /\ ~(Watches(m, w) /\ w \notin opened)
              => BookInv(w)'
BY InAppend, BookedAppend DEF GitTypes, BookInv, Booked, KeepsAsking

(* No message more: only what is opened or watched could unsettle it.      *)
LEMMA SameBooks ==
    ASSUME NEW w \in Workspaces, BookInv(w), inbox' = inbox,
           w \in opened' <=> w \in opened, IsWatched(w)' <=> IsWatched(w)
    PROVE  BookInv(w)' /\ KeepsAsking(w)
BY DEF BookInv, Booked, KeepsAsking, Dropped, Promised, PromisedAt, Unwatches, In

(* A change on disk: its report is queued, or will be made up for.         *)
LEMMA ChangeKeeps ==
    ASSUME GitInv, Serving, NEW v \in Workspaces, NEW kind \in Kinds, Change(v, kind)
    PROVE  \A w \in Workspaces : Held(w)'
<1> TAKE w \in Workspaces
<1>1. /\ GitTypes /\ GitTypes' /\ ScanInv /\ Held(w)
      /\ gitSpent'.setting = gitSpent.setting /\ gitSpent'.refusals = gitSpent.refusals
      /\ gitSpent'.heard = [gitSpent.heard EXCEPT ![v] = gitSpent.heard[v] /\ kind # "git"]
  BY ChangeTypes DEF GitInv
<1>2. /\ opened' = opened /\ known' = known /\ told' = told /\ watched' = watched
      /\ scan' = scan /\ activity' = activity /\ probed' = probed
  BY DEF Change
<1>3. IsWatched(w)' <=> IsWatched(w)
  BY <1>2 DEF IsWatched
<1>4. Filesystem(v, kind) \in GitMessages /\ ~Drops(Filesystem(v, kind), w)
      /\ ~Watches(Filesystem(v, kind), w)
  BY MessageTypes DEF Filesystem, Drops, Watches
<1>5. BookInv(w)' /\ KeepsAsking(w)
  BY <1>1, <1>2, <1>3, <1>4, AppendKeeps, SameBooks DEF Change, Held
<1>6. Reports(v, kind) => In(inbox', Filesystem(v, kind))
  BY <1>1, <1>4, AppendKeeps DEF Change
<1>7. SeesFiles' <=> SeesFiles
  BY <1>1 DEF SeesFiles
<1>8. SameScan(w) /\ (WillLook(w)' <=> WillLook(w))
  BY <1>2, <1>3 DEF SameScan, WillLook
<1>9. CASE w # v \/ kind = "ignored"
  <2>1. disk'[w] = disk[w]
    BY <1>1, <1>9 DEF Change, GitTypes, Kinds
  <2>2. gitSpent'.heard[w] => gitSpent.heard[w]
    BY <1>1, <1>9 DEF GitTypes, GitSpentStates
  <2>3. Steady(w)
    BY <1>1, <1>2, <1>5, <1>7, <1>8, <2>1, <2>2 DEF Steady
  <2> QED
    BY <1>1, <1>5, <2>3, SteadyIsKept, KeptHolds
<1>10. CASE w = v /\ kind # "ignored"
  <2>1. /\ disk'[w].refs >= disk[w].refs
        /\ kind = "file" => disk'[w].refs = disk[w].refs /\ disk'[w].repository = disk[w].repository
        /\ kind = "git" => disk'[w].files = disk[w].files /\ disk'[w].repository
        /\ kind = "git" => ~gitSpent'.heard[w]
        /\ kind = "file" => (gitSpent'.heard[w] <=> gitSpent.heard[w])
        /\ kind \in {"file", "git"}
        /\ disk'[w].refs \in Nat /\ disk[w].refs \in Nat
    <3>1. disk[w] \in [repository : BOOLEAN, refs : Nat, files : Nat] /\ gitSpent.heard \in [Workspaces -> BOOLEAN]
      BY <1>1 DEF GitTypes, GitSpentStates
    <3>4. gitSpent'.heard[w] <=> gitSpent.heard[w] /\ kind # "git"
      BY <1>1, <1>10, <3>1
    <3>2. CASE kind = "git"
      BY <1>1, <1>10, <3>2, <3>1, <3>4 DEF Change, GitTypes
    <3>3. CASE kind = "file"
      BY <1>1, <1>10, <3>3, <3>1, <3>4 DEF Change, GitTypes
    <3> QED
      BY <1>10, <3>2, <3>3 DEF Kinds
  <2>2. /\ Forced(w) => Forced(w)'
        /\ WillScan(w) => WillScan(w)'
        /\ Reported(w, "file") => Reported(w, "file")'
        /\ Failed(w)' <=> Failed(w)
        /\ \A stage : ScanIs(w, stage)' <=> ScanIs(w, stage)
        /\ Scanned(w)' <=> Scanned(w)
        /\ Unskipped' <=> Unskipped
    BY <1>2, <1>3, <1>5 DEF Forced, KeepsAsking, Reported, Paths, Overflown, WillScan, Kinds,
       Failed, ScanIs, Scanned, Unskipped
  <2>3. LookInv(w)'
    <3>1. /\ known[w] # NoGit => known[w].refs \in Nat
          /\ IsWatched(w) => watched[w].fingerprint \in Nat
          /\ ScanIs(w, "begun") => scan.fingerprint \in Nat
          /\ ScanIs(w, "found") => scan.refs \in Nat
          /\ ScanIs(w, "read") /\ scan.git # NoGit => scan.git.refs \in Nat
      <4>1. known[w] \in Gits /\ watched[w] \in Entries \cup {NotWatched} /\ scan \in ScanStates
        BY <1>1 DEF GitTypes
      <4>2. known[w] # NoGit => known[w].refs \in Nat
        BY <4>1 DEF Gits
      <4>3. IsWatched(w) => watched[w].fingerprint \in Nat
        BY <4>1 DEF IsWatched, Entries
      <4>4. /\ ScanIs(w, "begun") => scan.fingerprint \in Nat
            /\ ScanIs(w, "found") => scan.refs \in Nat
            /\ ScanIs(w, "read") => scan.git \in Gits
        BY <4>1 DEF ScanIs, ScanStates, NoScan
      <4> QED
        BY <4>2, <4>3, <4>4 DEF Gits
    <3>2. LookInv(w)
      BY <1>1 DEF Held
    <3>3. CASE kind = "git"
      BY <1>2, <1>3, <2>1, <2>2, <3>1, <3>2, <3>3 DEF LookInv
    <3>4. CASE kind = "file"
      BY <1>2, <1>3, <1>8, <2>1, <2>2, <3>1, <3>2, <3>4 DEF LookInv, IsCurrentGit
    <3> QED
      BY <2>1, <3>3, <3>4
  <2>4. ASSUME SeesFiles' PROVE TreeInv(w)' /\ FilesInv(w)'
    <3>1. TreeInv(w) /\ FilesInv(w) /\ SeesFiles /\ (Linked(w)' <=> Linked(w))
      BY <1>1, <1>7, <2>4 DEF Held, Linked
    <3>2. ASSUME w \in opened
          PROVE  \/ In(inbox', Filesystem(w, kind)) \/ Forced(w)'
                 \/ kind = "git" /\ ~Scanned(w) /\ (Failed(w) \/ (ScanIs(w, "begun") /\ scan.forced))
      BY <1>1, <3>2, <2>2, <3>1, <1>6, <1>10 DEF Held, BookInv, Booked, Promised, PromisedAt, In,
         Forced, Reports, TreeInv, IsWatched
    <3>3. ASSUME w \in opened
          PROVE  WillScan(w)' \/ (~Scanned(w) /\ (Failed(w) \/ (ScanIs(w, "begun") /\ scan.forced)))
      BY <2>1, <3>2, <3>3 DEF WillScan, Reported
    <3>4. TreeInv(w)'
      BY <2>2, <3>3, <1>2, <1>3, <3>1 DEF Unskipped, Scanned, TreeInv
    <3>5. FilesInv(w)'
      BY <1>2, <3>2, <1>3, <2>1, <2>2, <3>1 DEF FilesInv, Reported, Paths
    <3> QED
      BY <3>4, <3>5
  <2> QED
    BY <1>5, <2>3, <2>4 DEF Held
<1> QED
  BY <1>9, <1>10

(* What the three messages of a new Workspace make of the queue.           *)
LEMMA CreateMessages ==
    ASSUME NEW s \in Seq(GitMessages), NEW a \in GitMessages, NEW b \in GitMessages,
           NEW c \in GitMessages
    PROVE  LET t == s \o <<a, b, c>> IN
           /\ t = Append(Append(Append(s, a), b), c)
           /\ \A w \in Workspaces :
                Watches(b, w) /\ c = Refresh(w) /\ ~Drops(a, w) => Promised(t, w)
<1> DEFINE t == s \o <<a, b, c>>
<1>1. /\ Len(s) \in Nat /\ DOMAIN s = 1 .. Len(s) /\ DOMAIN t = 1 .. Len(s) + 3
      /\ \A i \in DOMAIN s : t[i] = s[i]
      /\ t[Len(s) + 1] = a /\ t[Len(s) + 2] = b /\ t[Len(s) + 3] = c
  OBVIOUS
<1>2. t = Append(Append(Append(s, a), b), c)
  OBVIOUS
<1> HIDE DEF t
<1>3. ASSUME NEW w \in Workspaces, Watches(b, w), c = Refresh(w), ~Drops(a, w)
      PROVE  Promised(t, w)
  BY <1>3, <1>1 DEF Drops, Watches, Refresh, PromisedAt, Promised
<1> QED
  BY <1>2, <1>3 DEF t

(* A new Workspace is promised its watch and a full scan.                  *)
LEMMA CreateKeeps ==
    ASSUME GitInv, NEW v \in Workspaces, CreateWorkspace(v)
    PROVE  \A w \in Workspaces : Held(w)'
<1> TAKE w \in Workspaces
<1>1. /\ GitTypes /\ GitTypes' /\ ScanInv /\ Held(w)
  BY SessionTypes DEF GitInv, CreateWorkspace
<1>2. /\ opened' = opened \cup {v} /\ disk' = disk /\ watched' = watched /\ scan' = scan
      /\ activity' = activity /\ probed' = probed
      /\ gitSpent'.setting = gitSpent.setting /\ gitSpent'.refusals = gitSpent.refusals
      /\ gitSpent'.heard = gitSpent.heard
  BY <1>1 DEF CreateWorkspace, GitTypes, GitSpentStates
<1>3. PICK git \in {Discovered(v), NoGit} :
        /\ known' = [known EXCEPT ![v] = git]
        /\ inbox' = inbox \o <<RetainOnly(opened'), Watch(v, git), Refresh(v)>>
  BY DEF CreateWorkspace
<1>4. /\ RetainOnly(opened') \in GitMessages /\ Watch(v, git) \in GitMessages
      /\ Refresh(v) \in GitMessages /\ inbox \in Seq(GitMessages)
  BY <1>1, MessageTypes DEF GitTypes
<1> DEFINE s1 == Append(inbox, RetainOnly(opened'))
           s2 == Append(s1, Watch(v, git))
<1>5. s1 \in Seq(GitMessages) /\ s2 \in Seq(GitMessages) /\ inbox' = Append(s2, Refresh(v))
  BY <1>3, <1>4, CreateMessages
<1>6. \A x : In(inbox', x) <=> In(inbox, x) \/ x \in {RetainOnly(opened'), Watch(v, git), Refresh(v)}
  BY <1>4, <1>5, InAppend
<1>7. (IsWatched(w)' <=> IsWatched(w)) /\ SameScan(w) /\ (WillLook(w)' <=> WillLook(w))
  BY <1>2 DEF IsWatched, SameScan, WillLook
<1>8. CASE w # v
  <2>1. (w \in opened' <=> w \in opened) /\ known'[w] = known[w] /\ told'[w] = told[w]
    BY <1>1, <1>2, <1>3, <1>8 DEF CreateWorkspace, GitTypes
  <2>2. PICK open \in BOOLEAN, on \in BOOLEAN : (open <=> w \in opened) /\ (on <=> IsWatched(w))
    OBVIOUS
  <2>3. /\ ~(Drops(RetainOnly(opened'), w) /\ open) /\ ~Watches(RetainOnly(opened'), w)
        /\ ~Watches(Watch(v, git), w) /\ ~Drops(Watch(v, git), w)
        /\ ~Watches(Refresh(v), w) /\ ~Drops(Refresh(v), w)
    BY <1>8, <2>1, <2>2 DEF Drops, Watches, RetainOnly, Watch, Refresh
  <2>4. Booked(inbox, w, open, on)
    BY <1>1, <2>2 DEF Held, BookInv, Booked
  <2>5. Booked(s1, w, open, on)
    BY <1>4, <2>3, <2>4, BookedAppend
  <2>6. Booked(s2, w, open, on)
    BY <1>4, <1>5, <2>3, <2>5, BookedAppend
  <2>7. Booked(inbox', w, open, on)
    BY <1>4, <1>5, <2>3, <2>6, BookedAppend
  <2>8. BookInv(w)'
    BY <1>7, <2>1, <2>2, <2>7 DEF BookInv, Booked
  <2>9. Steady(w)
    BY <1>2, <1>6, <1>7, <2>1 DEF Steady, KeepsAsking, SeesFiles
  <2> QED
    BY <1>1, <2>8, <2>9, SteadyIsKept, KeptHolds
<1>9. CASE w = v
  <2>1. w \in opened' /\ known'[w] = git /\ In(inbox', Refresh(w)) /\ disk'[w] = disk[w]
    BY <1>1, <1>2, <1>3, <1>6, <1>9 DEF GitTypes
  <2>2. Forced(w)' /\ WillScan(w)'
    BY <2>1 DEF Forced, WillScan
  <2>3. BookInv(w)'
    BY <1>9, <2>1, <1>3, <1>4, CreateMessages DEF Watches, Watch, Drops, RetainOnly, BookInv,
       Booked
  <2>4. LookInv(w)'
    BY <1>1, <1>9, <1>2, <1>7, <2>1, <2>2 DEF GitTypes, Held, Discovered, LookInv, ScanIs
  <2>5. ASSUME SeesFiles' PROVE TreeInv(w)' /\ FilesInv(w)'
    BY <1>1, <1>2, <2>5, <1>7, <2>2 DEF SeesFiles, Held, Linked, Scanned, ScanIs, TreeInv,
       FilesInv
  <2> QED
    BY <2>3, <2>4, <2>5 DEF Held
<1> QED
  BY <1>8, <1>9

(* A closed one is promised to be let go.                                  *)
LEMMA CloseKeeps ==
    ASSUME GitInv, NEW v \in Workspaces, CloseWorkspace(v)
    PROVE  \A w \in Workspaces : Held(w)'
<1> TAKE w \in Workspaces
<1> DEFINE m == RetainOnly(opened')
<1>1. /\ GitTypes /\ GitTypes' /\ ScanInv /\ Held(w)
  BY SessionTypes DEF GitInv, CloseWorkspace
<1>2. /\ opened' = opened \ {v} /\ disk' = disk /\ watched' = watched /\ scan' = scan /\ v \in opened
      /\ activity' = activity /\ probed' = probed /\ told' = told /\ gitSpent' = gitSpent
      /\ known' = [known EXCEPT ![v] = NoGit] /\ inbox' = Append(inbox, m)
  BY DEF CloseWorkspace
<1>3. m \in GitMessages /\ inbox \in Seq(GitMessages)
  BY <1>1, MessageTypes DEF GitTypes
<1>4. (IsWatched(w)' <=> IsWatched(w)) /\ SameScan(w) /\ (WillLook(w)' <=> WillLook(w))
  BY <1>2 DEF IsWatched, SameScan, WillLook
<1>5. CASE w # v
  <2>1. (w \in opened' <=> w \in opened) /\ known'[w] = known[w]
    BY <1>1, <1>2, <1>5 DEF GitTypes
  <2>2. ~(Drops(m, w) /\ w \in opened) /\ ~Watches(m, w)
    BY <2>1 DEF Drops, Watches, RetainOnly
  <2>3. BookInv(w)' /\ KeepsAsking(w)
    BY <1>1, <1>2, <1>3, <1>4, <2>1, <2>2, AppendKeeps DEF Held
  <2>4. Steady(w)
    BY <1>2, <1>4, <2>1, <2>3 DEF Steady, SeesFiles
  <2> QED
    BY <1>1, <2>3, <2>4, SteadyIsKept, KeptHolds
<1>6. CASE w = v
  <2>1. w \notin opened' /\ known'[w] = NoGit /\ Drops(m, w)
    BY <1>1, <1>2, <1>6 DEF Drops, RetainOnly, GitTypes
  <2>2. BookInv(w)'
    <3>1. /\ DOMAIN inbox' = DOMAIN inbox \cup {Len(inbox) + 1} /\ Len(inbox) \in Nat
          /\ DOMAIN inbox = 1 .. Len(inbox)
          /\ inbox'[Len(inbox) + 1] = m /\ \A i \in DOMAIN inbox : inbox'[i] = inbox[i]
      BY <1>2, <1>3
    <3>2. ~Watches(m, w)
      BY DEF Watches, RetainOnly
    <3>3. Dropped(inbox', w)
      BY <2>1, <3>1 DEF Dropped
    <3>4. Unwatches(inbox', w)
      BY <3>1, <3>2, <2>1 DEF Unwatches
    <3> QED
      BY <2>1, <3>3, <3>4 DEF BookInv, Booked
  <2>3. LookInv(w)'
    BY <1>1, <1>2, <1>4, <2>1 DEF LookInv, Held, ScanIs
  <2>4. ASSUME SeesFiles' PROVE TreeInv(w)' /\ FilesInv(w)'
    BY <1>1, <1>2, <2>4, <1>4, <2>1 DEF SeesFiles, Held, TreeInv, FilesInv, Linked, Scanned,
       ScanIs
  <2> QED
    BY <2>2, <2>3, <2>4 DEF Held
<1> QED
  BY <1>5, <1>6

(* A refresh, output, and the probe that tells of it.                      *)
LEMMA AskKeeps ==
    ASSUME GitInv, Serving, NEW v \in Workspaces,
           RefreshWorkspace(v) \/ Output(v) \/ RequestTerminalRefresh(v)
    PROVE  \A w \in Workspaces : Held(w)'
<1> TAKE w \in Workspaces
<1>1. GitTypes /\ GitTypes' /\ ScanInv /\ Held(w)
  BY SessionTypes, OutputTypes DEF GitInv
<1>2. /\ opened' = opened /\ disk' = disk /\ watched' = watched /\ scan' = scan
      /\ known' = known /\ told' = told
      /\ gitSpent'.setting = gitSpent.setting /\ gitSpent'.refusals = gitSpent.refusals
  BY <1>1 DEF RefreshWorkspace, Output, RequestTerminalRefresh, GitTypes, GitSpentStates
<1>3. \/ inbox' = inbox \/ inbox' = Append(inbox, Refresh(v))
      \/ inbox' = Append(inbox, TerminalActivity(v))
  BY DEF RefreshWorkspace, Output, RequestTerminalRefresh
<1>4. (IsWatched(w)' <=> IsWatched(w)) /\ SameScan(w)
  BY <1>2 DEF IsWatched, SameScan
<1>5. BookInv(w)' /\ KeepsAsking(w)
  BY MessageTypes, <1>1, <1>2, <1>3, <1>4, AppendKeeps, SameBooks DEF Drops, Watches, Refresh,
     TerminalActivity, Held
<1>6. ASSUME w \in opened'
      PROVE  /\ WillLook(w) => WillLook(w)'
             /\ gitSpent'.heard[w] => gitSpent.heard[w] \/ WillLook(w)'
  <2>1. CASE RefreshWorkspace(v)
    BY <1>1, <1>2, <1>4, <2>1 DEF RefreshWorkspace, WillLook, GitTypes, GitSpentStates
  <2>2. CASE Output(v)
    BY <1>1, <2>2, <1>2, <1>4 DEF Output, GitTypes, GitSpentStates, WillLook
  <2>3. CASE RequestTerminalRefresh(v)
    <3>1. gitSpent' = gitSpent
      BY <2>3 DEF RequestTerminalRefresh
    <3>2. CASE w # v
      BY <1>1, <2>3, <3>2, <1>2, <1>4, <3>1 DEF RequestTerminalRefresh, GitTypes, WillLook
    <3>3. CASE w = v
      <4>1. activity'[w] = Later(activity[w], probed[w])
        BY <1>1, <1>2, <1>6, <2>3, <3>3 DEF RequestTerminalRefresh, GitTypes
      <4>2. activity[w] \in Places /\ probed[w] \in Places
        BY <1>1 DEF GitTypes
      <4>3. {activity[w], probed[w]} \cap {"before", "after"} # {} => activity'[w] \in {"before", "after"}
        BY <4>1, <4>2, LaterPlace
      <4> QED
        BY <1>2, <1>4, <3>1, <4>3 DEF WillLook
    <3> QED
      BY <3>2, <3>3
  <2> QED
    BY <2>1, <2>2, <2>3
<1>7. Steady(w)
  BY <1>2, <1>4, <1>5, <1>6 DEF Steady, SeesFiles
<1> QED
  BY <1>1, <1>5, <1>7, SteadyIsKept, KeptHolds

-----------------------------------------------------------------------------
(* The worker takes a message.                                             *)

(* What all messages have in common: m is the first, and it is no Stop.    *)
Takes(m) ==
    /\ GitInv /\ Serving /\ scan = NoScan /\ inbox # <<>> /\ m = Head(inbox) /\ m # Stop
    /\ inbox' = Tail(inbox)
    /\ UNCHANGED <<disk, opened, known, told, probed, scan, worker>>
AboutOthers(m, w) == IF m.type = "Retain" THEN w \in m.keep ELSE m.workspace # w

(* What holds of a Workspace when any message is taken.                    *)
LEMMA TakesThen ==
    ASSUME NEW m, Takes(m), NEW w \in Workspaces
    PROVE  /\ GitTypes /\ ScanInv /\ Held(w) /\ m \in GitMessages
           /\ \A x : In(inbox, x) => x = m \/ In(inbox', x)
           /\ ~AnyScan(w) /\ SameScan(w)
           /\ LET kept == (Drops(m, w) => ~IsWatched(w)') /\ (Watches(m, w) => IsWatched(w)')
                            /\ (~Drops(m, w) /\ ~Watches(m, w) => (IsWatched(w)' <=> IsWatched(w)))
              IN  kept => BookInv(w)'
           /\ w \in opened /\ (~IsWatched(w) \/ Drops(m, w)) => In(inbox', Refresh(w)) /\ Forced(w)'
BY TailIs, InTail, BookedTail DEF Takes, GitInv, GitTypes, AnyScan, SameScan, Held, BookInv,
   Booked, Drops, Watches, Forced

(* A message about another Workspace.                                      *)
LEMMA OthersMessage ==
    ASSUME NEW m, Takes(m), NEW w \in Workspaces, AboutOthers(m, w), GitTypes',
           watched'[w] = watched[w], activity'[w] = activity[w],
           gitSpent'.setting = gitSpent.setting, gitSpent'.refusals = 0 => gitSpent.refusals = 0,
           gitSpent'.heard = gitSpent.heard
    PROVE  Held(w)'
<1>1. /\ GitTypes /\ ScanInv /\ Held(w) /\ SameScan(w) /\ m \in GitMessages
      /\ \A x : In(inbox, x) => x = m \/ In(inbox', x)
  BY TakesThen
<1>2. IsWatched(w)' <=> IsWatched(w)
  BY DEF IsWatched
<1>3. ~Drops(m, w) /\ ~Watches(m, w) /\ m # Refresh(w) /\ \A kind : m # Filesystem(w, kind)
  BY DEF AboutOthers, Drops, Watches, Refresh, Filesystem
<1>4. BookInv(w)'
  BY <1>2, <1>3, TakesThen
<1>5. KeepsAsking(w)
  BY <1>1, <1>3 DEF KeepsAsking
<1>6. Steady(w)
  BY <1>1, <1>2, <1>5 DEF Steady, Takes, SeesFiles, WillLook
<1> QED
  BY <1>1, <1>4, <1>6, SteadyIsKept, KeptHolds

(* A directory that comes not to be watched is counted as refused.         *)
LEMMA SubscriptionsAre ==
    ASSUME GitTypes, NEW ok \in Subscriptions
    PROVE  /\ ok \in BOOLEAN /\ Refused(ok) \in GitSpentStates
           /\ Refused(ok).setting = gitSpent.setting /\ Refused(ok).heard = gitSpent.heard
           /\ Refused(ok).refusals = 0 => gitSpent.refusals = 0
           /\ Refused(ok).refusals = 0 /\ gitSpent.setting.notify => ok
<1>1. gitSpent \in GitSpentStates /\ gitSpent.refusals \in Nat /\ gitSpent.setting \in GitSettings
  BY DEF GitTypes, GitSpentStates
<1>2. ok \in BOOLEAN
  <2>1. (gitSpent.refusals >= gitSpent.setting.refusals) \in BOOLEAN
    OBVIOUS
  <2> QED
    BY <2>1, Zenon DEF Subscriptions
<1>3. Refused(ok) = gitSpent \/ Refused(ok) = [gitSpent EXCEPT !.refusals = gitSpent.refusals + 1]
  BY <1>1 DEF Refused, GitSpentStates
<1>4. Refused(ok).refusals = IF ok \/ ~gitSpent.setting.notify THEN gitSpent.refusals ELSE gitSpent.refusals + 1
  BY <1>1 DEF Refused, GitSpentStates
<1>5. Refused(ok) \in GitSpentStates
  BY <1>1, <1>3, SpentTypes
<1>6. Refused(ok).setting = gitSpent.setting /\ Refused(ok).heard = gitSpent.heard
  BY <1>1, <1>3 DEF GitSpentStates
<1> QED
  BY <1>1, <1>2, <1>4, <1>5, <1>6

(* An entry is told from its absence by its mark.                          *)
LEMMA EntryIsWatched ==
    ASSUME NEW e \in Entries
    PROVE  e # NotWatched
BY DEF Entries, NotWatched

(* A Workspace is put under watch, or its Git directory as well.           *)
LEMMA HandleWatch ==
    ASSUME NEW m, Takes(m), m.type = "Watch", OnWatch(m), activity' = activity
    PROVE  GitTypes' /\ \A w \in Workspaces : Held(w)'
<1> DEFINE v == m.workspace
           old == watched[v]
           entry == IF watched[v] = NotWatched THEN NewWatched ELSE watched[v]
<1>1. GitTypes /\ ScanInv
  BY DEF Takes, GitInv
<1>2. m \in [type : {"Watch"}, workspace : Workspaces, git_dir : BOOLEAN]
  BY <1>1, TailIs DEF Takes, GitTypes, GitMessages
<1>3. v \in Workspaces /\ old \in Entries \cup {NotWatched}
  BY <1>1, <1>2 DEF GitTypes
<1>4. NewWatched \in Entries
  BY GitAssumption DEF Pendings, NewWatched, Entries, NoFingerprint
<1>5. entry \in Entries
  BY <1>3, <1>4
<1>6. PICK ok \in Subscriptions :
        LET subscribed == [entry EXCEPT !.root_subscribed = entry.root_subscribed \/ ok] IN
        /\ watched' = [watched EXCEPT ![v] =
                IF m.git_dir THEN WithGitDir(v, subscribed, ok) ELSE subscribed]
        /\ gitSpent' = IF entry.root_subscribed /\ ~m.git_dir THEN gitSpent ELSE Refused(ok)
  BY DEF OnWatch
<1> DEFINE subscribed == [entry EXCEPT !.root_subscribed = entry.root_subscribed \/ ok]
           next == IF m.git_dir THEN WithGitDir(v, subscribed, ok) ELSE subscribed
<1>7. /\ ok \in BOOLEAN /\ gitSpent' \in GitSpentStates /\ gitSpent'.setting = gitSpent.setting
      /\ gitSpent'.heard = gitSpent.heard /\ (gitSpent'.refusals = 0 => gitSpent.refusals = 0)
      /\ gitSpent'.refusals = 0 /\ gitSpent.setting.notify => ok \/ entry.root_subscribed
  BY <1>1, <1>6, SubscriptionsAre DEF GitTypes
<1> HIDE DEF entry
<1>8. /\ subscribed \in Entries /\ SameEntry(entry, subscribed)
      /\ subscribed.filesystem_due = entry.filesystem_due /\ subscribed.terminal_due = entry.terminal_due
      /\ subscribed.pending = entry.pending /\ subscribed.forced = entry.forced
      /\ subscribed.overflow = entry.overflow /\ subscribed.dropped = entry.dropped
      /\ subscribed.root_subscribed = (entry.root_subscribed \/ ok)
  BY <1>5, <1>7 DEF Entries, SameEntry
<1> HIDE DEF subscribed
<1>9. /\ next \in Entries /\ SameEntry(entry, next)
      /\ next.filesystem_due = entry.filesystem_due /\ next.terminal_due = entry.terminal_due
      /\ next.pending = entry.pending /\ next.forced = entry.forced
      /\ next.overflow = entry.overflow /\ next.dropped = entry.dropped
      /\ next.root_subscribed = (entry.root_subscribed \/ ok)
  <2>1. CASE ~m.git_dir
    BY <1>8, <2>1
  <2>2. CASE m.git_dir
    BY <2>2, <1>8 DEF WithGitDir, Entries, SameEntry
  <2> QED
    BY <2>1, <2>2
<1>10. watched' = [watched EXCEPT ![v] = next]
  BY <1>6 DEF subscribed
<1> HIDE DEF next
<1>11. GitTypes'
  BY <1>1, <1>3, <1>9, <1>10, TailIs, <1>7 DEF GitTypes, Takes
<1>12. ASSUME NEW w \in Workspaces, w # v PROVE Held(w)'
  BY <1>1, <1>10, <1>12, <1>7, <1>11, OthersMessage DEF GitTypes, AboutOthers
<1>13. ASSUME NEW w \in Workspaces, w = v PROVE Held(w)'
  <2>1. /\ Held(w) /\ SameScan(w) /\ ~AnyScan(w) /\ (\A x : In(inbox, x) => x = m \/ In(inbox', x))
        /\ w \in opened /\ (~IsWatched(w) \/ Drops(m, w)) => Forced(w)'
    BY TakesThen
  <2>2. IsWatched(w)' /\ watched'[w] = next
    BY <1>1, <1>9, <1>10, <1>13, EntryIsWatched DEF IsWatched, GitTypes
  <2>3. Watches(m, w) /\ ~Drops(m, w) /\ m # Refresh(w) /\ \A kind : m # Filesystem(w, kind)
    BY <1>13 DEF Watches, Drops, Refresh, Filesystem
  <2>4. BookInv(w)'
    BY <2>2, <2>3, TakesThen
  <2>5. IsWatched(w) => entry = watched[w]
    BY <1>13 DEF entry, IsWatched
  <2>6. ~IsWatched(w) => entry = NewWatched
    BY <1>13 DEF entry, IsWatched
  <2>7. SeesFiles' => SeesFiles /\ watched'[w].root_subscribed
    BY <1>7, <1>9, <2>2 DEF SeesFiles
  <2>8. EntryKept(w)
    BY <1>9, <2>2, <2>5, <2>6, <2>1, <2>7 DEF EntryKept, SameEntry, NewWatched, NoFingerprint,
       Takes
  <2>9. ASSUME w \in opened' PROVE w \in opened /\ StillAsked(w)
    BY <2>1, <2>3, <2>9, <1>9, <2>2, <2>5, <1>7 DEF KeepsAsking, Takes, Forced, Reported, Paths,
       Overflown, WillLook, StillAsked, Kinds
  <2>10. Kept(w)
    BY <1>7, <2>1, <2>7, <2>8, <2>9 DEF Kept, Takes
  <2> QED
    BY <1>1, <1>11, <2>1, <2>4, <2>10, KeptHolds
<1> QED
  BY <1>11, <1>12, <1>13

(* The closed Workspaces are let go.                                       *)
LEMMA HandleRetain ==
    ASSUME NEW m, Takes(m), m.type = "Retain", OnRetain(m), activity' = activity
    PROVE  GitTypes' /\ \A w \in Workspaces : Held(w)'
BY TailIs, OthersMessage, TakesThen, KeptHolds DEF Takes, GitInv, GitTypes, OnRetain, AboutOthers,
   Drops, Watches, IsWatched, StillAsked, Kept, EntryKept, SeesFiles

(* A message to a Workspace that leaves all its entry asks for.            *)
AsksNoLess(e, f) ==
    /\ SameEntry(e, f)
    /\ e.filesystem_due => f.filesystem_due
    /\ e.forced => f.forced
    /\ e.overflow => f.overflow
    /\ e.terminal_due => f.terminal_due
    /\ Paths(e.pending) \subseteq Paths(f.pending)

(* Of the message itself: what it asks for comes to be asked of the entry. *)
Answers(m, w) ==
    LET f == watched'[w] IN
    /\ m = Refresh(w) => f.filesystem_due /\ f.forced
    /\ \A kind \in Kinds : m = Filesystem(w, kind) =>
         f.filesystem_due /\ (kind \in Paths(f.pending) \/ (f.overflow /\ f.dropped))
    /\ activity[w] \in {"before", "after"} => activity'[w] \in {"before", "after"} \/ f.terminal_due

(* So a message to an entry keeps what is owed to its Workspace.           *)
LEMMA ToItsEntry ==
    ASSUME NEW m, Takes(m), m.type \in {"Refresh", "TerminalActivity", "Filesystem"},
           GitTypes', gitSpent' = gitSpent,
           NEW w \in Workspaces, m.workspace = w, IsWatched(w)' <=> IsWatched(w),
           IsWatched(w) => AsksNoLess(watched[w], watched'[w]) /\ Answers(m, w)
    PROVE  Held(w)'
<1>1. ~Drops(m, w) /\ ~Watches(m, w)
  BY DEF Drops, Watches
<1>2. GitTypes /\ ScanInv /\ Held(w) /\ SameScan(w) /\ BookInv(w)'
      /\ (w \in opened /\ ~IsWatched(w) => Forced(w)') /\ \A x : In(inbox, x) => x = m \/ In(inbox', x)
  BY <1>1, TakesThen
<1>3. EntryKept(w)
  BY DEF EntryKept, AsksNoLess
<1>4. ASSUME w \in opened, IsWatched(w) PROVE StillAsked(w)
  BY <1>4, <1>2 DEF Forced, Answers, AsksNoLess, Reported, Overflown, Takes, WillLook, StillAsked,
     Kinds
<1>5. ASSUME w \in opened, ~IsWatched(w) PROVE StillAsked(w)
  BY <1>2, <1>5 DEF StillAsked
<1>6. Kept(w)
  BY <1>2, <1>3, <1>4, <1>5 DEF Kept, Takes, SeesFiles
<1> QED
  BY <1>2, <1>6, KeptHolds

(* A refresh is booked as a forced scan.                                   *)
LEMMA HandleRefresh ==
    ASSUME NEW m, Takes(m), m.type = "Refresh", OnRefresh(m), activity' = activity
    PROVE  GitTypes' /\ \A w \in Workspaces : Held(w)'
<1> DEFINE v == m.workspace
           next == [watched[v] EXCEPT !.forced = TRUE, !.filesystem_due = TRUE]
<1>1. GitTypes /\ ScanInv /\ inbox \in Seq(GitMessages) /\ inbox # <<>> /\ m = Head(inbox)
  BY DEF Takes, GitInv, GitTypes
<1>2. m \in [type : {"Refresh"}, workspace : Workspaces]
  BY <1>1, TailIs DEF GitMessages, Takes
<1>3. /\ gitSpent' = gitSpent
      /\ watched' = IF IsWatched(v) THEN [watched EXCEPT ![v] = next] ELSE watched
  BY DEF OnRefresh, IsWatched
<1>4. IsWatched(v) => /\ next \in Entries /\ next.filesystem_due /\ next.forced
                      /\ AsksNoLess(watched[v], next)
  <2> SUFFICES ASSUME IsWatched(v) PROVE /\ next \in Entries /\ next.filesystem_due /\ next.forced
                                         /\ AsksNoLess(watched[v], next)
    OBVIOUS
  <2>1. watched[v] \in Entries
    BY <1>1, <1>2 DEF GitTypes, IsWatched
  <2> QED
    BY <2>1 DEF Entries, AsksNoLess, SameEntry, Paths
<1> HIDE DEF next
<1>5. GitTypes'
  BY <1>1, TailIs, <1>3, <1>4 DEF Takes, GitTypes
<1>6. ASSUME NEW w \in Workspaces, w # v PROVE Held(w)'
  BY <1>1, <1>3, <1>6, <1>5, OthersMessage DEF GitTypes, AboutOthers
<1>7. Held(v)'
  <2>1. IsWatched(v) => watched'[v] = next
    BY <1>1, <1>2, <1>3 DEF GitTypes
  <2>2. IsWatched(v)' <=> IsWatched(v)
    BY <1>3, <1>4, <2>1, EntryIsWatched DEF IsWatched
  <2>3. IsWatched(v) => AsksNoLess(watched[v], watched'[v]) /\ Answers(m, v)
    BY <1>2, <1>4, <2>1 DEF Answers, Filesystem
  <2> QED
    BY <1>2, <1>3, <1>5, <2>2, <2>3, ToItsEntry
<1> QED
  BY <1>5, <1>6, <1>7

(* Output not covered by a scan is booked as a look.                       *)
LEMMA HandleTerminalActivity ==
    ASSUME NEW m, Takes(m), m.type = "TerminalActivity", OnTerminalActivity(m),
           activity' = [activity EXCEPT ![m.workspace] = "none"]
    PROVE  GitTypes' /\ \A w \in Workspaces : Held(w)'
<1> DEFINE v == m.workspace
           next == [watched[v] EXCEPT !.terminal_due = TRUE]
           idle == ~IsWatched(v) \/ activity[v] \in {"none", "scanned"}
<1>1. GitTypes /\ ScanInv /\ inbox \in Seq(GitMessages) /\ inbox # <<>> /\ m = Head(inbox)
  BY DEF Takes, GitInv, GitTypes
<1>2. m \in [type : {"TerminalActivity"}, workspace : Workspaces]
  BY <1>1, TailIs DEF GitMessages, Takes
<1>3. gitSpent' = gitSpent /\ watched' = IF idle THEN watched ELSE [watched EXCEPT ![v] = next]
  BY <1>1, <1>2 DEF OnTerminalActivity, IsWatched, GitTypes
<1>4. IsWatched(v) => next \in Entries /\ next.terminal_due /\ AsksNoLess(watched[v], next)
  <2> SUFFICES ASSUME IsWatched(v)
               PROVE  next \in Entries /\ next.terminal_due /\ AsksNoLess(watched[v], next)
    OBVIOUS
  <2>1. watched[v] \in Entries
    BY <1>1, <1>2 DEF GitTypes, IsWatched
  <2> QED
    BY <2>1 DEF Entries, AsksNoLess, SameEntry, Paths
<1> HIDE DEF next
<1>5. GitTypes'
  BY <1>1, TailIs, <1>3, <1>4 DEF Takes, GitTypes, Places
<1>6. ASSUME NEW w \in Workspaces, w # v PROVE Held(w)'
  BY <1>1, <1>3, <1>6, <1>5, OthersMessage DEF GitTypes, AboutOthers
<1>7. Held(v)'
  <2>1. /\ idle => watched'[v] = watched[v]
        /\ ~idle => watched'[v] = next
    BY <1>1, <1>2, <1>3 DEF GitTypes
  <2>2. IsWatched(v)' <=> IsWatched(v)
    BY <1>4, <2>1, EntryIsWatched DEF IsWatched
  <2>3. AsksNoLess(watched[v], watched[v])
    BY DEF AsksNoLess, SameEntry
  <2>4. IsWatched(v) => AsksNoLess(watched[v], watched'[v]) /\ Answers(m, v)
    BY <1>2, <1>4, <2>1, <2>3 DEF Answers, Refresh, Filesystem
  <2> QED
    BY <1>2, <1>3, <1>5, <2>2, <2>4, ToItsEntry
<1> QED
  BY <1>5, <1>6, <1>7

(* A path past the limit is told by the mark that it was dropped.          *)
LEMMA WithPendingKeeps ==
    ASSUME NEW e \in Entries, NEW path \in Kinds
    PROVE  LET f == WithPending(e, path) IN
           /\ f \in Entries /\ AsksNoLess(e, f)
           /\ path \in Paths(f.pending) \/ (f.overflow /\ f.dropped)
<1>1. e.pending \in Seq(Kinds) /\ Len(e.pending) <= MaxPending /\ Len(e.pending) \in Nat
  BY DEF Entries, Pendings
<1>2. CASE Len(e.pending) < MaxPending
  <2> DEFINE longer == Append(e.pending, path)
  <2>1. longer \in Pendings
    BY <1>1, <1>2, GitAssumption DEF Pendings
  <2>2. path \in Paths(longer) /\ Paths(e.pending) \subseteq Paths(longer)
    <3>1. DOMAIN longer = DOMAIN e.pending \cup {Len(e.pending) + 1}
          /\ longer[Len(e.pending) + 1] = path /\ \A i \in DOMAIN e.pending : longer[i] = e.pending[i]
      BY <1>1
    <3> QED
      BY <3>1 DEF Paths
  <2>3. WithPending(e, path) = [e EXCEPT !.pending = longer]
    BY <1>2 DEF WithPending
  <2> HIDE DEF longer
  <2> QED
    BY <2>1, <2>2, <2>3 DEF Entries, AsksNoLess, SameEntry
<1>3. CASE ~(Len(e.pending) < MaxPending)
  BY <1>3 DEF WithPending, Entries, AsksNoLess, SameEntry
<1> QED
  BY <1>2, <1>3

(* A changed path is booked, or marked as dropped.                         *)
LEMMA HandleFilesystem ==
    ASSUME NEW m, Takes(m), m.type = "Filesystem", OnFilesystem(m), activity' = activity
    PROVE  GitTypes' /\ \A w \in Workspaces : Held(w)'
<1> DEFINE v == m.workspace
           kept == WithPending(watched[v], m.path)
           next == [kept EXCEPT !.filesystem_due = TRUE]
<1>1. GitTypes /\ ScanInv /\ inbox \in Seq(GitMessages) /\ inbox # <<>> /\ m = Head(inbox)
  BY DEF Takes, GitInv, GitTypes
<1>2. m \in [type : {"Filesystem"}, workspace : Workspaces, path : Kinds]
  BY <1>1, TailIs DEF GitMessages, Takes
<1>3. /\ gitSpent' = gitSpent
      /\ watched' = IF IsWatched(v) THEN [watched EXCEPT ![v] = next] ELSE watched
  BY DEF OnFilesystem, IsWatched
<1>4. ASSUME IsWatched(v)
      PROVE  /\ next \in Entries /\ AsksNoLess(watched[v], next) /\ next.filesystem_due
             /\ m.path \in Paths(next.pending) \/ (next.overflow /\ next.dropped)
  <2>1. watched[v] \in Entries /\ m.path \in Kinds
    BY <1>1, <1>2, <1>4 DEF GitTypes, IsWatched
  <2>2. /\ kept \in Entries /\ AsksNoLess(watched[v], kept)
        /\ m.path \in Paths(kept.pending) \/ (kept.overflow /\ kept.dropped)
    BY <2>1, WithPendingKeeps
  <2> HIDE DEF kept
  <2>3. /\ next \in Entries /\ next.filesystem_due /\ next.pending = kept.pending
        /\ next.overflow = kept.overflow /\ next.dropped = kept.dropped
    BY <2>2 DEF Entries
  <2>4. AsksNoLess(watched[v], next)
    BY <2>2 DEF Entries, AsksNoLess, SameEntry
  <2> QED
    BY <2>2, <2>3, <2>4
<1> HIDE DEF next
<1>5. GitTypes'
  BY <1>1, TailIs, <1>3, <1>4 DEF Takes, GitTypes
<1>6. ASSUME NEW w \in Workspaces, w # v PROVE Held(w)'
  BY <1>1, <1>3, <1>6, <1>5, OthersMessage DEF GitTypes, AboutOthers
<1>7. Held(v)'
  <2>1. IsWatched(v) => watched'[v] = next
    BY <1>1, <1>2, <1>3 DEF GitTypes
  <2>2. IsWatched(v)' <=> IsWatched(v)
    BY <1>3, <1>4, <2>1, EntryIsWatched DEF IsWatched
  <2>3. IsWatched(v) => AsksNoLess(watched[v], watched'[v]) /\ Answers(m, v)
    BY <1>2, <1>4, <2>1 DEF Answers, Refresh, Filesystem
  <2> QED
    BY <1>2, <1>3, <1>5, <2>2, <2>3, ToItsEntry
<1> QED
  BY <1>5, <1>6, <1>7

(* Every message, by its type.                                             *)
LEMMA HandleKeeps ==
    ASSUME GitInv, HandleMessage
    PROVE  GitTypes' /\ ~In(inbox', Stop) /\ \A w \in Workspaces : Held(w)'
BY InTail, TailIs, HandleWatch, HandleRetain, HandleRefresh, HandleTerminalActivity,
   HandleFilesystem DEF HandleMessage, Taking, Serving, GitInv, GitTypes, Takes, GitMessages

-----------------------------------------------------------------------------
(* A scan begins.                                                          *)

(* Output since the last recorded scan of it.                              *)
Ahead(p) == p \in {"before", "after"}

(* Beginning a scan forgets no output of another Workspace.                *)
LEMMA InstantsOf ==
    ASSUME NEW p \in [Workspaces -> Places], NEW v \in Workspaces
    PROVE  /\ Begun(p) \in [Workspaces -> Places] /\ Covered(p, v) \in [Workspaces -> Places]
           /\ Covered(Begun(p), v) \in [Workspaces -> Places]
           /\ \A w \in Workspaces : Ahead(Begun(p)[w]) <=> Ahead(p[w])
           /\ \A w \in Workspaces \ {v} : /\ Covered(p, v)[w] = p[w]
                                          /\ Ahead(Covered(Begun(p), v)[w]) <=> Ahead(p[w])
           /\ ~Ahead(Covered(Begun(p), v)[v])
BY DEF Begun, Places, Covered, Ahead

(* What a scan holds at each of its stages.                                *)
LEMMA ScanFields ==
    ASSUME GitTypes, ScanInv
    PROVE  /\ scan # NoScan <=> scan.stage # "none"
           /\ scan.stage \in {"none", "begun", "found", "read"}
           /\ scan # NoScan => /\ scan.workspace \in Workspaces
                               /\ watched[scan.workspace] \in Entries /\ IsWatched(scan.workspace)
           /\ scan.stage = "begun" =>
                /\ scan.filesystem \in BOOLEAN /\ scan.changed \in BOOLEAN /\ scan.fingerprint \in Nat
                /\ scan.pending \in Pendings /\ scan.forced \in BOOLEAN /\ scan.overflow \in BOOLEAN
           /\ scan.stage = "found" => scan.refs \in Nat /\ scan.files_changed \in BOOLEAN
           /\ scan.stage = "read" => scan.git \in Gits /\ scan.files_changed \in BOOLEAN
BY DEF GitTypes, NoScan, ScanStates, ScanInv, IsWatched

(* What a step of a scan of v leaves of another Workspace.                 *)
LEMMA OthersScan ==
    ASSUME GitInv, Serving, GitTypes', NEW v \in Workspaces, NEW w \in Workspaces, w # v,
           ~AnyScan(w), ~AnyScan(w)',
           disk' = disk, opened' = opened, known'[w] = known[w], told'[w] = told[w],
           watched'[w] = watched[w], gitSpent'.setting = gitSpent.setting,
           gitSpent'.refusals = 0 => gitSpent.refusals = 0, gitSpent'.heard = gitSpent.heard,
           Ahead(activity'[w]) <=> Ahead(activity[w]), Ahead(probed'[w]) <=> Ahead(probed[w]),
           \/ inbox' = inbox
           \/ \E git : inbox' = Append(inbox, Watch(v, git))
    PROVE  Held(w)'
<1>1. GitTypes /\ ScanInv /\ Held(w) /\ (IsWatched(w)' <=> IsWatched(w))
  BY DEF GitInv, IsWatched
<1>2. BookInv(w)' /\ KeepsAsking(w)
  <2>1. CASE inbox' = inbox
    BY <1>1, <2>1, SameBooks DEF Held
  <2>2. ASSUME NEW git, inbox' = Append(inbox, Watch(v, git)), inbox' # inbox
        PROVE  BookInv(w)' /\ KeepsAsking(w)
    BY MessageTypes, <1>1, <2>2, AppendKeeps DEF Drops, Watches, Watch, Held
  <2> QED
    BY <2>1, <2>2
<1>3. WillLook(w) <=> WillLook(w)'
  BY <1>1 DEF WillLook, Ahead
<1>4. Steady(w)
  BY <1>1, <1>2, <1>3 DEF Steady, SameScan, SeesFiles
<1> QED
  BY <1>1, <1>2, <1>4, SteadyIsKept, KeptHolds

(* What beginning does to the entry of v, and what the scan takes with it. *)
BeginIs(v, filesystem, terminal, changed) ==
    LET e == watched[v]
        f == watched'[v]
    IN  /\ f \in Entries
        /\ f.failed = e.failed /\ f.storm = e.storm /\ f.dropped = e.dropped
        /\ f.root_subscribed = e.root_subscribed /\ f.git_dir_subscribed = e.git_dir_subscribed
        /\ filesystem => e.filesystem_due
        /\ ~filesystem => /\ f.filesystem_due = e.filesystem_due /\ f.pending = e.pending
                          /\ f.forced = e.forced /\ f.overflow = e.overflow
        /\ f.fingerprint = IF terminal /\ v \in opened THEN Fingerprint(v) ELSE e.fingerprint
        /\ ~terminal /\ v \in opened => f.terminal_due = e.terminal_due
        /\ changed <=> terminal /\ (Fingerprint(v) = 0 \/ Fingerprint(v) # e.fingerprint)
        /\ filesystem \/ terminal

(* Beginning is one of these, for the deadlines that have come.            *)
LEMMA BeginEntry ==
    ASSUME GitInv, NEW v \in Workspaces, BeginScan(v)
    PROVE  \E filesystem, terminal, changed \in BOOLEAN :
             /\ BeginIs(v, filesystem, terminal, changed)
             /\ watched' = [watched EXCEPT ![v] = watched'[v]]
             /\ v \notin opened => activity' = activity /\ probed' = probed /\ scan' = scan
             /\ v \in opened =>
                  /\ activity' = IF terminal THEN Covered(Begun(activity), v) ELSE Begun(activity)
                  /\ probed' = IF terminal THEN Covered(Begun(probed), v) ELSE Begun(probed)
                  /\ scan' = IF ~filesystem /\ ~changed THEN NoScan
                             ELSE [stage |-> "begun", workspace |-> v, filesystem |-> filesystem,
                                   changed |-> changed, fingerprint |-> Fingerprint(v),
                                   pending |-> IF filesystem THEN watched[v].pending ELSE <<>>,
                                   forced |-> filesystem /\ watched[v].forced,
                                   overflow |-> filesystem /\ watched[v].overflow]
<1> DEFINE e == watched[v]
<1>1. GitTypes /\ e \in Entries
  BY DEF GitInv, BeginScan, GitTypes
<1>2. Fingerprint(v) \in Nat
  BY <1>1 DEF Fingerprint, NoFingerprint, GitTypes
<1> DEFINE taken(filesystem) ==
             IF filesystem THEN [e EXCEPT !.filesystem_due = FALSE, !.pending = <<>>,
                                          !.forced = FALSE, !.overflow = FALSE]
                           ELSE e
           next(filesystem, terminal) ==
             IF v \notin opened THEN [taken(filesystem) EXCEPT !.terminal_due = FALSE]
             ELSE IF terminal THEN Recorded(taken(filesystem), Fingerprint(v)) ELSE taken(filesystem)
           news(terminal) ==
             terminal /\ (Fingerprint(v) = NoFingerprint \/ Fingerprint(v) # e.fingerprint)
<1>3. PICK filesystem \in BOOLEAN, terminal \in BOOLEAN :
        /\ filesystem => e.filesystem_due
        /\ terminal => e.terminal_due
        /\ filesystem \/ (terminal /\ ~e.forced)
        /\ watched' = [watched EXCEPT ![v] = next(filesystem, terminal)]
        /\ v \notin opened => activity' = activity /\ probed' = probed /\ scan' = scan
        /\ v \in opened =>
             /\ activity' = IF terminal THEN Covered(Begun(activity), v) ELSE Begun(activity)
             /\ probed' = IF terminal THEN Covered(Begun(probed), v) ELSE Begun(probed)
             /\ scan' = IF ~filesystem /\ ~news(terminal) THEN NoScan
                        ELSE [stage |-> "begun", workspace |-> v, filesystem |-> filesystem,
                              changed |-> news(terminal), fingerprint |-> Fingerprint(v),
                              pending |-> IF filesystem THEN e.pending ELSE <<>>,
                              forced |-> filesystem /\ e.forced,
                              overflow |-> filesystem /\ e.overflow]
  BY DEF BeginScan
<1>4. PICK changed \in BOOLEAN : changed = news(terminal)
  OBVIOUS
<1> HIDE DEF news
<1>5. watched'[v] = next(filesystem, terminal) /\ watched' = [watched EXCEPT ![v] = watched'[v]]
  BY <1>1, <1>3 DEF GitTypes
<1>6. /\ taken(filesystem) \in Entries
      /\ LET f == taken(filesystem) IN
         /\ f.failed = e.failed /\ f.storm = e.storm /\ f.dropped = e.dropped
         /\ f.root_subscribed = e.root_subscribed /\ f.git_dir_subscribed = e.git_dir_subscribed
         /\ f.fingerprint = e.fingerprint /\ f.terminal_due = e.terminal_due
         /\ ~filesystem => /\ f.filesystem_due = e.filesystem_due /\ f.pending = e.pending
                           /\ f.forced = e.forced /\ f.overflow = e.overflow
  <2>1. CASE ~filesystem
    BY <1>1, <2>1
  <2>2. CASE filesystem
    <3>1. <<>> \in Pendings
      BY GitAssumption DEF Pendings
    <3> QED
      BY <1>1, <2>2, <3>1 DEF Entries
  <2> QED
    BY <2>1, <2>2
<1>7. changed <=> terminal /\ (Fingerprint(v) = 0 \/ Fingerprint(v) # e.fingerprint)
  BY <1>4 DEF news, NoFingerprint
<1> HIDE DEF taken
<1>8. /\ next(filesystem, terminal) \in Entries
      /\ LET f == next(filesystem, terminal) IN
         /\ f.failed = e.failed /\ f.storm = e.storm /\ f.dropped = e.dropped
         /\ f.root_subscribed = e.root_subscribed /\ f.git_dir_subscribed = e.git_dir_subscribed
         /\ f.fingerprint = IF terminal /\ v \in opened THEN Fingerprint(v) ELSE e.fingerprint
         /\ ~terminal /\ v \in opened => f.terminal_due = e.terminal_due
         /\ ~filesystem => /\ f.filesystem_due = e.filesystem_due /\ f.pending = e.pending
                           /\ f.forced = e.forced /\ f.overflow = e.overflow
  <2>1. CASE v \notin opened
    BY <1>6, <2>1 DEF Entries
  <2>2. CASE v \in opened /\ terminal
    BY <1>2, <1>6, <2>2 DEF Entries, Recorded
  <2>3. CASE v \in opened /\ ~terminal
    BY <1>6, <2>3
  <2> QED
    BY <2>1, <2>2, <2>3
<1> HIDE DEF next
<1>9. BeginIs(v, filesystem, terminal, changed)
  BY <1>3, <1>5, <1>7, <1>8 DEF BeginIs
<1> QED
  BY <1>3, <1>4, <1>5, <1>9

(* What was asked of the entry the scan has now taken with it.             *)
LEMMA BeginKeeps ==
    ASSUME GitInv, NEW v \in Workspaces, BeginScan(v)
    PROVE  GitTypes' /\ Serving /\ \A w \in Workspaces : Held(w)'
<1>1. GitTypes /\ ScanInv /\ Serving /\ Held(v) /\ scan = NoScan /\ IsWatched(v)
  BY DEF BeginScan, Taking, Serving, GitInv, IsWatched
<1>2. /\ disk' = disk /\ opened' = opened /\ known' = known /\ told' = told /\ inbox' = inbox
      /\ worker' = worker /\ gitSpent' = gitSpent
  BY DEF BeginScan
<1> DEFINE e == watched[v]
           f == watched'[v]
<1>3. PICK filesystem \in BOOLEAN, terminal \in BOOLEAN, changed \in BOOLEAN :
             /\ BeginIs(v, filesystem, terminal, changed)
             /\ watched' = [watched EXCEPT ![v] = f]
             /\ v \notin opened => activity' = activity /\ probed' = probed /\ scan' = scan
             /\ v \in opened =>
                  /\ activity' = IF terminal THEN Covered(Begun(activity), v) ELSE Begun(activity)
                  /\ probed' = IF terminal THEN Covered(Begun(probed), v) ELSE Begun(probed)
                  /\ scan' = IF ~filesystem /\ ~changed THEN NoScan
                             ELSE [stage |-> "begun", workspace |-> v, filesystem |-> filesystem,
                                   changed |-> changed, fingerprint |-> Fingerprint(v),
                                   pending |-> IF filesystem THEN e.pending ELSE <<>>,
                                   forced |-> filesystem /\ e.forced,
                                   overflow |-> filesystem /\ e.overflow]
  BY BeginEntry
<1>4. e \in Entries /\ f \in Entries /\ Fingerprint(v) \in Nat /\ disk[v].refs \in Nat
  BY <1>1, <1>3 DEF BeginIs, GitTypes, IsWatched, Fingerprint, NoFingerprint
<1>5. Fingerprint(v) = IF known[v] = NoGit THEN 0 ELSE disk[v].refs
  BY DEF Fingerprint, NoFingerprint
<1>6. /\ activity' \in [Workspaces -> Places] /\ probed' \in [Workspaces -> Places]
      /\ \A w \in Workspaces \ {v} : /\ Ahead(activity'[w]) <=> Ahead(activity[w])
                                     /\ Ahead(probed'[w]) <=> Ahead(probed[w])
      /\ ~terminal => /\ Ahead(activity'[v]) <=> Ahead(activity[v])
                      /\ Ahead(probed'[v]) <=> Ahead(probed[v])
  <2>1. activity \in [Workspaces -> Places] /\ probed \in [Workspaces -> Places]
    BY <1>1 DEF GitTypes
  <2>2. ASSUME NEW p \in {activity, probed}
        PROVE  /\ Begun(p) \in [Workspaces -> Places] /\ Covered(Begun(p), v) \in [Workspaces -> Places]
               /\ \A w \in Workspaces : Ahead(Begun(p)[w]) <=> Ahead(p[w])
               /\ \A w \in Workspaces \ {v} : Ahead(Covered(Begun(p), v)[w]) <=> Ahead(p[w])
    BY <2>1, InstantsOf
  <2>3. CASE v \notin opened
    BY <1>3, <2>1, <2>3
  <2>4. CASE v \in opened /\ terminal
    BY <1>3, <2>2, <2>4
  <2>5. CASE v \in opened /\ ~terminal
    BY <1>3, <2>2, <2>5
  <2> QED
    BY <2>3, <2>4, <2>5
<1>7. scan' \in ScanStates
  <2>1. <<>> \in Pendings
    BY GitAssumption DEF Pendings
  <2>4. e.pending \in Pendings /\ e.forced \in BOOLEAN /\ e.overflow \in BOOLEAN
    BY <1>4 DEF Entries
  <2>2. CASE v \in opened /\ (filesystem \/ changed)
    BY <1>3, <1>4, <2>1, <2>2, <2>4 DEF ScanStates
  <2>3. CASE ~(v \in opened /\ (filesystem \/ changed))
    BY <1>1, <1>3, <2>3 DEF ScanStates
  <2> QED
    BY <2>2, <2>3
<1>8. watched' \in [Workspaces -> Entries \cup {NotWatched}]
  BY <1>1, <1>3, <1>4 DEF GitTypes
<1>9. GitTypes'
  BY <1>1, <1>2, <1>6, <1>7, <1>8 DEF GitTypes
<1>10. ASSUME NEW w \in Workspaces, w # v PROVE Held(w)'
  BY <1>1, <1>3, <1>10, <1>2, <1>6, <1>9, OthersScan DEF AnyScan, GitTypes
<1>11. IsWatched(v)'
  BY <1>4, EntryIsWatched DEF IsWatched
<1>12. BookInv(v)'
  BY <1>1, <1>2, <1>11, SameBooks DEF Held
<1>13. LookInv(v) /\ (SeesFiles' => SeesFiles /\ TreeInv(v) /\ FilesInv(v)) /\ (Linked(v)' <=> Linked(v))
       /\ OnDisk(v)' = OnDisk(v)
  BY <1>1, <1>2 DEF Held, SeesFiles, Linked, OnDisk
<1>14. ASSUME v \notin opened PROVE Held(v)'
  BY <1>1, <1>3, <1>14, <1>2, <1>13, <1>12 DEF Scanned, ScanIs, NoScan, BeginIs, LookInv, TreeInv,
     FilesInv, Held
<1>15. ASSUME v \in opened PROVE Held(v)'
  <2>1. ~Scanned(v) /\ ~ScanIs(v, "begun") /\ ~Scanned(v)' /\ ~ScanIs(v, "found")' /\ ~ScanIs(v, "read")'
    BY <1>1, <1>3, <1>15 DEF Scanned, ScanIs, NoScan
  <2>2. filesystem \/ changed =>
          /\ ScanIs(v, "begun")' /\ scan'.changed = changed /\ scan'.fingerprint = Fingerprint(v)
          /\ scan'.pending = (IF filesystem THEN e.pending ELSE <<>>)
          /\ scan'.forced = (filesystem /\ e.forced) /\ scan'.overflow = (filesystem /\ e.overflow)
    BY <1>3, <1>15 DEF ScanIs
  <2>3. ~filesystem /\ ~changed => ~ScanIs(v, "begun")'
    BY <1>3, <1>15 DEF ScanIs, NoScan
  <2>4. Forced(v) => Forced(v)' \/ (ScanIs(v, "begun")' /\ scan'.forced)
    BY <1>1, <1>2, <2>2, <1>3, <1>11 DEF Forced, BeginIs
  <2>5. \A kind \in Kinds : Reported(v, kind) =>
          Reported(v, kind)' \/ (ScanIs(v, "begun")' /\ kind \in Paths(scan'.pending))
    BY <1>1, <1>2, <2>2, <1>3, <1>11 DEF Reported, BeginIs
  <2>6. Overflown(v) => Overflown(v)' \/ (ScanIs(v, "begun")' /\ scan'.overflow)
    BY <1>1, <1>2, <2>2, <1>3, <1>11 DEF Overflown, BeginIs
  <2>7. f.failed = e.failed /\ f.storm = e.storm /\ f.dropped = e.dropped
        /\ f.root_subscribed = e.root_subscribed /\ f.git_dir_subscribed = e.git_dir_subscribed
    BY <1>3 DEF BeginIs
  <2>8. Failed(v)' <=> Failed(v)
    BY <1>1, <1>11, <2>7 DEF Failed
  <2>9. ASSUME SeesFiles' PROVE TreeInv(v)'
    <3>1. WillScan(v) => WillScan(v)' \/ (ScanIs(v, "begun")' /\ Unskipped')
      BY <2>4, <2>5, <2>6 DEF WillScan, Unskipped, Kinds
    <3> QED
      BY <1>1, <1>2, <1>11, <1>13, <1>15, <2>1, <2>4, <2>7, <2>8, <2>9, <3>1 DEF TreeInv
  <2>10. ASSUME SeesFiles' PROVE FilesInv(v)'
    BY <1>1, <1>2, <1>11, <1>13, <1>15, <2>1, <2>4, <2>5, <2>7, <2>10 DEF FilesInv, Kinds
  <2>11. LookInv(v)'
    <3>1. f.fingerprint = (IF terminal THEN Fingerprint(v) ELSE e.fingerprint)
          /\ (changed <=> terminal /\ (Fingerprint(v) = 0 \/ Fingerprint(v) # e.fingerprint))
      BY <1>3, <1>15 DEF BeginIs
    <3>2. /\ e.fingerprint <= disk[v].refs
          /\ known[v] # NoGit => known[v].refs <= disk[v].refs /\ known[v].refs \in Nat
          /\ known[v] # NoGit => e.fingerprint <= known[v].refs \/ Failed(v)
          /\ gitSpent.heard[v] /\ disk[v].repository =>
               IsCurrentGit(v, known[v]) \/ Failed(v) \/ Forced(v) \/ WillLook(v)
      BY <1>1, <1>13, <1>15, <2>1 DEF LookInv, GitTypes, Gits
    <3>3. f.fingerprint <= disk[v].refs /\ Fingerprint(v) <= disk[v].refs
      BY <1>4, <1>5, <3>1, <3>2
    <3>4. known[v] # NoGit => f.fingerprint <= known[v].refs \/ Failed(v)'
                                \/ (ScanIs(v, "begun")' /\ scan'.changed)
      BY <2>2, <2>8, <3>1, <3>2
    <3>5. terminal /\ ~changed => IsCurrentGit(v, known[v]) \/ Failed(v)
      BY <1>4, <1>5, <3>1, <3>2 DEF IsCurrentGit, Entries
    <3>6. ~terminal => (WillLook(v) => WillLook(v)')
      BY <1>3, <1>15, <1>1, <1>6, <1>11 DEF BeginIs, WillLook, Ahead
    <3>7. gitSpent.heard[v] /\ disk[v].repository =>
            \/ IsCurrentGit(v, known[v]) \/ Failed(v)' \/ Forced(v)' \/ WillLook(v)'
            \/ ScanIs(v, "begun")' /\ (scan'.changed \/ scan'.forced)
      BY <2>2, <2>4, <2>8, <3>2, <3>5, <3>6
    <3> QED
      BY <1>2, <2>1, <2>2, <2>3, <3>2, <3>3, <3>4, <3>7 DEF LookInv, IsCurrentGit
  <2> QED
    BY <1>12, <2>9, <2>10, <2>11 DEF Held
<1> QED
  BY <1>1, <1>9, <1>10, <1>14, <1>15

-----------------------------------------------------------------------------
(* A scan goes on.                                                         *)

(* What every step of a scan of v does to the rest, f its new entry.       *)
Scanning(v, f) ==
    /\ GitInv /\ scan # NoScan /\ v = scan.workspace
    /\ f \in Entries /\ watched' = [watched EXCEPT ![v] = f]
    /\ scan' \in ScanStates /\ (scan' # NoScan => scan'.workspace = v)
    /\ scan'.stage = "found" => disk[v].repository
    /\ gitSpent' \in GitSpentStates /\ gitSpent'.setting = gitSpent.setting
    /\ gitSpent'.heard = gitSpent.heard /\ (gitSpent'.refusals = 0 => gitSpent.refusals = 0)
    /\ activity' \in [Workspaces -> Places] /\ probed' \in [Workspaces -> Places]
    /\ \A w \in Workspaces \ {v} : /\ Ahead(activity'[w]) <=> Ahead(activity[w])
                                   /\ Ahead(probed'[w]) <=> Ahead(probed[w])
                                   /\ known'[w] = known[w] /\ told'[w] = told[w]
    /\ known' \in [Workspaces -> Gits] /\ told' \in [Workspaces -> Nat]
    /\ disk' = disk /\ opened' = opened /\ worker' = worker
    /\ inbox' = inbox \/ (v \in opened /\ \E git : inbox' = Append(inbox, Watch(v, git)))

(* So every such step keeps types, books and all other Workspaces.         *)
LEMMA ScanStep ==
    ASSUME NEW v, NEW f, Scanning(v, f)
    PROVE  /\ v \in Workspaces /\ GitTypes' /\ ScanInv' /\ IsWatched(v) /\ IsWatched(v)'
           /\ watched'[v] = f /\ watched[v] \in Entries
           /\ Serving => /\ \A w \in Workspaces : w # v => Held(w)'
                         /\ BookInv(v)' /\ KeepsAsking(v) /\ Held(v)
                         /\ SeesFiles' => SeesFiles /\ TreeInv(v) /\ FilesInv(v)
           /\ In(inbox', Stop) => In(inbox, Stop)
           /\ (Linked(v)' <=> Linked(v)) /\ OnDisk(v)' = OnDisk(v)
<1>1. GitTypes /\ ScanInv /\ v \in Workspaces /\ watched[v] \in Entries /\ IsWatched(v)
  BY ScanFields DEF Scanning, GitInv
<1>2. watched' \in [Workspaces -> Entries \cup {NotWatched}] /\ watched'[v] = f /\ IsWatched(v)'
  BY <1>1, EntryIsWatched DEF Scanning, GitTypes, IsWatched
<1>3. \A git : Watch(v, git) \in GitMessages /\ ~Drops(Watch(v, git), v) /\ Watch(v, git) # Stop
  BY <1>1, MessageTypes DEF Watch, Drops, Stop
<1>4. inbox' \in Seq(GitMessages)
  <2>1. inbox \in Seq(GitMessages)
    BY <1>1 DEF GitTypes
  <2>2. \A git : Append(inbox, Watch(v, git)) \in Seq(GitMessages)
    BY <1>3, <2>1
  <2> QED
    BY <2>1, <2>2 DEF Scanning
<1>5. GitTypes'
  BY <1>1, <1>2, <1>4 DEF GitTypes, Scanning
<1>6. ScanInv'
  BY <1>1, <1>2 DEF Linked, Scanning, NoScan, ScanInv
<1>7. ASSUME Serving, NEW w \in Workspaces, w # v PROVE Held(w)'
  <2>1. ~AnyScan(w) /\ ~AnyScan(w)'
    BY <1>7 DEF AnyScan, Scanning
  <2>2. watched'[w] = watched[w]
    BY <1>1, <1>7 DEF Scanning, GitTypes
  <2> QED
    BY <1>1, <1>5, <1>7, <2>1, <2>2, OthersScan DEF Scanning
<1>8. ASSUME Serving
      PROVE  /\ BookInv(v)' /\ KeepsAsking(v) /\ Held(v)
             /\ SeesFiles' => SeesFiles /\ TreeInv(v) /\ FilesInv(v)
  BY <1>1, <1>8, <1>2, SameBooks, <1>3, AppendKeeps DEF Scanning, GitInv, Held, SeesFiles
<1>9. In(inbox', Stop) => In(inbox, Stop)
  <2>1. inbox \in Seq(GitMessages)
    BY <1>1 DEF GitTypes
  <2>2. ASSUME NEW git, inbox' = Append(inbox, Watch(v, git)) PROVE In(inbox', Stop) => In(inbox, Stop)
    BY <1>3, <2>1, <2>2, InAppend
  <2> QED
    BY <2>2 DEF Scanning
<1>10. (Linked(v)' <=> Linked(v)) /\ OnDisk(v)' = OnDisk(v)
  BY DEF Linked, OnDisk, Scanning
<1> QED
  BY <1>1, <1>2, <1>5, <1>6, <1>7, <1>8, <1>9, <1>10

(* What the entry keeps of what was asked.                                 *)
SameAsks(e, f) ==
    /\ f.filesystem_due = e.filesystem_due /\ f.forced = e.forced /\ f.overflow = e.overflow
    /\ f.pending = e.pending

(* Then nothing asked for is forgotten.                                    *)
LEMMA ScanAsks ==
    ASSUME NEW v, NEW f, Scanning(v, f), Serving, SameAsks(watched[v], f)
    PROVE  /\ Forced(v) => Forced(v)'
           /\ \A kind \in Kinds : Reported(v, kind) => Reported(v, kind)'
           /\ WillScan(v) => WillScan(v)'
BY ScanStep DEF Forced, KeepsAsking, SameAsks, Reported, Paths, Overflown, WillScan, Kinds

(* A scan that failed says so, and covers for what it forgets.             *)
LEMMA FailedHolds ==
    ASSUME NEW v, NEW f, Scanning(v, f), Serving, scan' = NoScan, f.failed, f.dropped,
           f.root_subscribed = watched[v].root_subscribed, f.fingerprint <= disk[v].refs,
           known' = known
    PROVE  Held(v)'
<1>1. /\ v \in Workspaces /\ IsWatched(v) /\ IsWatched(v)' /\ watched'[v] = f /\ BookInv(v)' /\ Held(v)
      /\ SeesFiles' => SeesFiles /\ TreeInv(v)
  BY ScanStep
<1>2. ~Scanned(v)' /\ ~ScanIs(v, "begun")' /\ ~ScanIs(v, "found")' /\ ~ScanIs(v, "read")' /\ Failed(v)'
  BY <1>1 DEF Scanned, ScanIs, NoScan, Failed
<1>3. disk' = disk
  BY DEF Scanning
<1>4. LookInv(v)'
  BY <1>1, <1>2, <1>3 DEF LookInv, Held
<1>5. SeesFiles' => TreeInv(v)' /\ FilesInv(v)'
  BY <1>1, <1>2 DEF TreeInv, FilesInv
<1> QED
  BY <1>1, <1>4, <1>5 DEF Held

(* A recorded scan: its fingerprint is the entry's, its output is covered. *)
LEMMA RecordIs ==
    ASSUME GitTypes, ScanInv, scan.stage = "begun", NEW entry \in Entries, RecordScan(entry)
    PROVE  LET v == scan.workspace
               f == Recorded(entry, scan.fingerprint)
           IN  /\ f \in Entries /\ watched' = [watched EXCEPT ![v] = f]
               /\ f.fingerprint = scan.fingerprint /\ SameAsks(entry, f)
               /\ f.root_subscribed = entry.root_subscribed
               /\ f.git_dir_subscribed = entry.git_dir_subscribed
               /\ f.dropped = entry.dropped /\ f.failed = entry.failed
               /\ activity' \in [Workspaces -> Places] /\ probed' \in [Workspaces -> Places]
               /\ \A w \in Workspaces \ {v} : activity'[w] = activity[w] /\ probed'[w] = probed[w]
<1> DEFINE v == scan.workspace
           f == Recorded(entry, scan.fingerprint)
<1>1. scan.fingerprint \in Nat /\ v \in Workspaces
  BY ScanFields
<1>2. /\ f \in Entries /\ f.fingerprint = scan.fingerprint /\ SameAsks(entry, f)
      /\ f.root_subscribed = entry.root_subscribed /\ f.git_dir_subscribed = entry.git_dir_subscribed
      /\ f.dropped = entry.dropped /\ f.failed = entry.failed
  BY <1>1 DEF Recorded, Entries, SameAsks
<1>3. activity \in [Workspaces -> Places] /\ probed \in [Workspaces -> Places]
  BY DEF GitTypes
<1>4. /\ Covered(activity, v) \in [Workspaces -> Places] /\ Covered(probed, v) \in [Workspaces -> Places]
      /\ \A w \in Workspaces \ {v} : Covered(activity, v)[w] = activity[w] /\ Covered(probed, v)[w] = probed[w]
  <2>1. ASSUME NEW p \in [Workspaces -> Places]
        PROVE  /\ Covered(p, v) \in [Workspaces -> Places]
               /\ \A w \in Workspaces \ {v} : Covered(p, v)[w] = p[w]
    BY <1>1, InstantsOf
  <2> QED
    BY <1>3, <2>1
<1>5. watched' = [watched EXCEPT ![v] = f] /\ activity' = Covered(activity, v) /\ probed' = Covered(probed, v)
  BY DEF RecordScan
<1> QED
  BY <1>2, <1>4, <1>5

(* Discovery or reading fails.                                             *)
LEMMA FailKeeps ==
    ASSUME GitInv, FailScan
    PROVE  GitTypes' /\ ScanInv' /\ (In(inbox', Stop) => In(inbox, Stop))
           /\ (Serving => \A w \in Workspaces : Held(w)')
<1>0. PICK v : v = scan.workspace
  OBVIOUS
<1> DEFINE e == watched[v]
           lost == [e EXCEPT !.failed = TRUE, !.dropped = TRUE]
<1>1. GitTypes /\ ScanInv /\ scan.stage \in {"begun", "found"} /\ scan' = NoScan
      /\ gitSpent' = [gitSpent EXCEPT !.failures = gitSpent.failures + 1]
      /\ disk' = disk /\ opened' = opened /\ known' = known /\ told' = told /\ inbox' = inbox
      /\ worker' = worker
  BY <1>0 DEF FailScan, GitInv
<1>2. scan # NoScan /\ v \in Workspaces /\ e \in Entries
  BY <1>0, <1>1, ScanFields
<1>3. lost \in Entries /\ lost.failed /\ lost.dropped /\ lost.root_subscribed = e.root_subscribed
      /\ lost.fingerprint = e.fingerprint
  BY <1>2 DEF Entries
<1> HIDE DEF lost
<1>4. /\ gitSpent' \in GitSpentStates /\ gitSpent'.setting = gitSpent.setting
      /\ gitSpent'.heard = gitSpent.heard /\ gitSpent'.refusals = gitSpent.refusals
  BY <1>1, SpentTypes DEF GitTypes, GitSpentStates
<1>5. \E f \in Entries :
        /\ watched' = [watched EXCEPT ![v] = f] /\ f.failed /\ f.dropped
        /\ f.root_subscribed = e.root_subscribed
        /\ f.fingerprint = IF scan.stage = "begun" THEN scan.fingerprint ELSE e.fingerprint
        /\ activity' \in [Workspaces -> Places] /\ probed' \in [Workspaces -> Places]
        /\ \A w \in Workspaces \ {v} : activity'[w] = activity[w] /\ probed'[w] = probed[w]
  <2>1. CASE scan.stage = "begun"
    <3>1. RecordScan(lost)
      BY <1>0, <2>1 DEF FailScan, lost
    <3> QED
      BY <1>0, <1>1, <1>3, <2>1, <3>1, RecordIs
  <2>2. CASE scan.stage # "begun"
    BY <1>0, <2>2, <1>1, <1>3 DEF FailScan, lost, GitTypes
  <2> QED
    BY <2>1, <2>2
<1>6. PICK f \in Entries :
        /\ watched' = [watched EXCEPT ![v] = f] /\ f.failed /\ f.dropped
        /\ f.root_subscribed = e.root_subscribed
        /\ f.fingerprint = IF scan.stage = "begun" THEN scan.fingerprint ELSE e.fingerprint
        /\ activity' \in [Workspaces -> Places] /\ probed' \in [Workspaces -> Places]
        /\ \A w \in Workspaces \ {v} : activity'[w] = activity[w] /\ probed'[w] = probed[w]
  BY <1>5
<1>7. Scanning(v, f)
  BY <1>1, <1>0, <1>2, <1>4, <1>6 DEF ScanStates, NoScan, GitTypes, Scanning
<1>8. ASSUME Serving PROVE Held(v)'
  BY <1>2, <1>7, <1>8, ScanStep, <1>0, <1>6, <1>1, FailedHolds DEF Held, LookInv, ScanIs
<1> QED
  BY <1>7, <1>8, ScanStep

(* The scan panics.                                                        *)
LEMMA PanicKeeps ==
    ASSUME GitInv, PanicScan
    PROVE  GitTypes' /\ ScanInv' /\ (In(inbox', Stop) => In(inbox, Stop))
           /\ (Serving => \A w \in Workspaces : Held(w)')
<1>0. PICK v : v = scan.workspace
  OBVIOUS
<1> DEFINE e == watched[v]
           lost == [e EXCEPT !.pending = <<>>, !.filesystem_due = FALSE, !.forced = FALSE,
                             !.overflow = FALSE, !.failed = TRUE, !.dropped = TRUE]
           f == Recorded(lost, NoFingerprint)
<1>1. GitTypes /\ ScanInv /\ scan # NoScan /\ scan' = NoScan
      /\ gitSpent' = [gitSpent EXCEPT !.failures = gitSpent.failures + 1]
      /\ disk' = disk /\ opened' = opened /\ known' = known /\ told' = told /\ inbox' = inbox
      /\ worker' = worker /\ watched' = [watched EXCEPT ![v] = f]
      /\ activity' = Covered(Begun(activity), v) /\ probed' = Covered(Begun(probed), v)
  BY <1>0 DEF PanicScan, GitInv
<1>2. v \in Workspaces /\ e \in Entries
  BY <1>0, <1>1, ScanFields
<1>3. f \in Entries /\ f.failed /\ f.dropped /\ f.root_subscribed = e.root_subscribed
      /\ f.fingerprint = 0
  <2>1. <<>> \in Pendings
    BY GitAssumption DEF Pendings
  <2>2. lost \in Entries /\ lost.failed /\ lost.dropped /\ lost.root_subscribed = e.root_subscribed
    BY <1>2, <2>1 DEF Entries
  <2> HIDE DEF lost
  <2> QED
    BY <2>2 DEF Entries, Recorded, NoFingerprint
<1> HIDE DEF f
<1>4. /\ gitSpent' \in GitSpentStates /\ gitSpent'.setting = gitSpent.setting
      /\ gitSpent'.heard = gitSpent.heard /\ gitSpent'.refusals = gitSpent.refusals
  BY <1>1, SpentTypes DEF GitTypes, GitSpentStates
<1>5. /\ activity' \in [Workspaces -> Places] /\ probed' \in [Workspaces -> Places]
      /\ \A w \in Workspaces \ {v} : /\ Ahead(activity'[w]) <=> Ahead(activity[w])
                                     /\ Ahead(probed'[w]) <=> Ahead(probed[w])
  BY <1>1, <1>2, InstantsOf DEF GitTypes
<1>6. Scanning(v, f)
  BY <1>1, <1>0, <1>3, <1>4, <1>5 DEF ScanStates, NoScan, GitTypes, Scanning, GitInv
<1>7. ASSUME Serving PROVE Held(v)'
  BY <1>1, <1>2, <1>3, <1>6, <1>7, FailedHolds DEF GitTypes
<1> QED
  BY <1>6, <1>7, ScanStep

(* A window of ignored paths hides nothing, unless paths were dropped.     *)
LEMMA SkipKeeps ==
    ASSUME GitInv, scan.stage = "begun", NEW v, v = scan.workspace,
           Skips(watched[v].storm), ~scan.changed,
           watched' = [watched EXCEPT ![v].storm = scan.overflow], scan' = NoScan,
           UNCHANGED <<activity, probed, gitSpent, disk, opened, known, told, inbox, worker>>
    PROVE  \E f : Scanning(v, f) /\ (Serving => Held(v)')
<1> DEFINE e == watched[v]
           f == [e EXCEPT !.storm = scan.overflow]
<1>1. /\ GitTypes /\ ScanInv /\ scan # NoScan /\ v \in Workspaces /\ e \in Entries
      /\ scan.overflow \in BOOLEAN
  BY ScanFields DEF GitInv
<1>2. /\ f \in Entries /\ SameAsks(e, f) /\ f.storm = scan.overflow /\ f.failed = e.failed
      /\ f.dropped = e.dropped /\ f.root_subscribed = e.root_subscribed
      /\ f.git_dir_subscribed = e.git_dir_subscribed /\ f.fingerprint = e.fingerprint
      /\ f.terminal_due = e.terminal_due
  BY <1>1 DEF Entries, SameAsks
<1>3. watched' = [watched EXCEPT ![v] = f]
  BY <1>1 DEF GitTypes
<1> HIDE DEF f
<1>4. Scanning(v, f)
  BY <1>1, <1>2, <1>3 DEF ScanStates, NoScan, GitTypes, Scanning
<1>5. ASSUME Serving PROVE Held(v)'
  <2>1. /\ IsWatched(v) /\ IsWatched(v)' /\ watched'[v] = f /\ BookInv(v)' /\ LookInv(v)
        /\ SeesFiles' => SeesFiles /\ TreeInv(v) /\ FilesInv(v)
        /\ (Linked(v)' <=> Linked(v)) /\ OnDisk(v)' = OnDisk(v)
    BY <1>4, <1>5, ScanStep DEF Held
  <2>2. /\ Forced(v) => Forced(v)'
        /\ \A kind \in Kinds : Reported(v, kind) => Reported(v, kind)'
        /\ WillScan(v) => WillScan(v)'
    BY <1>2, <1>4, <1>5, ScanAsks
  <2>3. /\ ~Scanned(v) /\ ScanIs(v, "begun") /\ ~Scanned(v)'
        /\ ~ScanIs(v, "begun")' /\ ~ScanIs(v, "found")' /\ ~ScanIs(v, "read")'
    BY DEF Scanned, ScanIs, NoScan
  <2>4. Failed(v)' <=> Failed(v)
    BY <1>2, <2>1 DEF Failed
  <2>5. ~scan.forced /\ (scan.overflow \/ ~e.storm) /\ Paths(scan.pending) = {"ignored"}
    BY DEF Skips, IgnoresAll
  <2>6. Unskipped => scan.overflow
    BY <2>5 DEF Unskipped
  <2>7. ASSUME SeesFiles' PROVE TreeInv(v)' /\ FilesInv(v)'
    BY <1>2, <2>1, <2>2, <2>3, <2>4, <2>5, <2>6, <2>7 DEF TreeInv, FilesInv, Kinds
  <2>8. LookInv(v)'
    BY <1>2, <2>1, <2>2, <2>3, <2>4, <2>5 DEF WillLook, LookInv, IsCurrentGit
  <2> QED
    BY <2>1, <2>7, <2>8 DEF Held
<1> QED
  BY <1>4, <1>5

(* A repository is found: its refs are read, its Git directory watched.    *)
LEMMA FindKeeps ==
    ASSUME GitInv, scan.stage = "begun", NEW v, v = scan.workspace, disk[v].repository,
           NEW ok \in Subscriptions,
           RecordScan(WithGitDir(v, [watched[v] EXCEPT !.storm = FALSE], ok)),
           gitSpent' = IF Linked(v) /\ ~watched[v].git_dir_subscribed THEN Refused(ok) ELSE gitSpent,
           scan' = [stage |-> "found", workspace |-> v, refs |-> disk[v].refs,
                    files_changed |-> WorkingTreeChanged /\ ~Skips(watched[v].storm)],
           UNCHANGED <<disk, opened, known, told, inbox, worker>>
    PROVE  \E f : Scanning(v, f) /\ (Serving => Held(v)')
<1> DEFINE e == watched[v]
           calm == [e EXCEPT !.storm = FALSE]
           entry == WithGitDir(v, calm, ok)
           f == Recorded(entry, scan.fingerprint)
<1>1. GitTypes /\ ScanInv
  BY DEF GitInv
<1>2. /\ scan # NoScan /\ v \in Workspaces /\ e \in Entries /\ scan.pending \in Pendings
      /\ scan.forced \in BOOLEAN /\ disk[v].refs \in Nat
  BY <1>1, ScanFields DEF GitTypes
<1>3. /\ ok \in BOOLEAN /\ gitSpent' \in GitSpentStates /\ gitSpent'.setting = gitSpent.setting
      /\ gitSpent'.heard = gitSpent.heard /\ (gitSpent'.refusals = 0 => gitSpent.refusals = 0)
      /\ gitSpent'.refusals = 0 /\ gitSpent.setting.notify /\ Linked(v) => ok \/ e.git_dir_subscribed
  BY <1>1, SubscriptionsAre DEF GitTypes
<1>4. /\ entry \in Entries /\ SameAsks(e, entry) /\ entry.failed = e.failed
      /\ entry.dropped = e.dropped /\ entry.root_subscribed = e.root_subscribed
      /\ entry.git_dir_subscribed = (e.git_dir_subscribed \/ (Linked(v) /\ ok))
  <2>1. /\ calm \in Entries /\ SameAsks(e, calm) /\ calm.failed = e.failed
        /\ calm.dropped = e.dropped /\ calm.root_subscribed = e.root_subscribed
        /\ calm.git_dir_subscribed = e.git_dir_subscribed
    BY <1>2 DEF Entries, SameAsks
  <2> HIDE DEF calm
  <2>2. PICK subscribed \in BOOLEAN : subscribed = (calm.git_dir_subscribed \/ (Linked(v) /\ ok))
    OBVIOUS
  <2>3. entry = [calm EXCEPT !.git_dir_subscribed = subscribed]
    BY <2>2 DEF WithGitDir
  <2> HIDE DEF entry
  <2> QED
    BY <2>1, <2>2, <2>3 DEF Entries, SameAsks
<1> HIDE DEF entry
<1>5. /\ f \in Entries /\ watched' = [watched EXCEPT ![v] = f]
      /\ f.fingerprint = scan.fingerprint /\ SameAsks(entry, f)
      /\ f.root_subscribed = entry.root_subscribed
      /\ f.git_dir_subscribed = entry.git_dir_subscribed
      /\ f.dropped = entry.dropped /\ f.failed = entry.failed
      /\ activity' \in [Workspaces -> Places] /\ probed' \in [Workspaces -> Places]
      /\ \A w \in Workspaces \ {v} : activity'[w] = activity[w] /\ probed'[w] = probed[w]
  BY <1>1, <1>4, RecordIs DEF entry
<1> HIDE DEF f
<1> DEFINE changed == WorkingTreeChanged /\ ~Skips(watched[v].storm)
<1>6. changed \in BOOLEAN
  OBVIOUS
<1>7. changed <=> scan.forced \/ \E path \in Paths(scan.pending) :
                                   path # "git" /\ ~Skips(watched[v].storm)
  BY DEF WorkingTreeChanged, Skips
<1>8. scan.forced \/ "file" \in Paths(scan.pending) => changed
  BY <1>7 DEF Skips, IgnoresAll
<1>9. scan' = [stage |-> "found", workspace |-> v, refs |-> disk[v].refs, files_changed |-> changed]
  OBVIOUS
<1> HIDE DEF changed
<1>10. Scanning(v, f)
  BY <1>2, <1>6, <1>9, <1>1, <1>3, <1>5 DEF ScanStates, GitTypes, Scanning
<1>11. ASSUME Serving PROVE Held(v)'
  <2>1. /\ IsWatched(v) /\ IsWatched(v)' /\ watched'[v] = f /\ BookInv(v)' /\ LookInv(v)
        /\ SeesFiles' => SeesFiles /\ TreeInv(v) /\ FilesInv(v)
        /\ (Linked(v)' <=> Linked(v)) /\ OnDisk(v)' = OnDisk(v)
    BY <1>10, <1>11, ScanStep DEF Held
  <2>2. /\ Forced(v) => Forced(v)'
        /\ \A kind \in Kinds : Reported(v, kind) => Reported(v, kind)'
    BY <1>4, <1>5, <1>10, <1>11, ScanAsks DEF SameAsks
  <2>3. /\ ~Scanned(v) /\ ScanIs(v, "begun") /\ Scanned(v)'
        /\ ~ScanIs(v, "begun")' /\ ScanIs(v, "found")' /\ ~ScanIs(v, "read")'
        /\ scan'.refs = disk[v].refs /\ (scan'.files_changed <=> changed)
    BY <1>9 DEF Scanned, ScanIs
  <2>4. ASSUME SeesFiles' PROVE TreeInv(v)' /\ FilesInv(v)'
    BY <1>3, <1>4, <1>5, <2>4, <2>1, <2>3, <1>8, <2>2 DEF SeesFiles, TreeInv, FilesInv, Kinds
  <2>5. LookInv(v)'
    BY <1>2, <1>5, <2>1, <2>3 DEF LookInv
  <2> QED
    BY <2>1, <2>4, <2>5 DEF Held
<1> QED
  BY <1>10, <1>11

(* There is no repository, and the scan has read as much.                  *)
LEMMA NoneKeeps ==
    ASSUME GitInv, scan.stage = "begun", NEW v, v = scan.workspace, ~disk[v].repository,
           RecordScan(watched[v]), gitSpent' = gitSpent,
           scan' = [stage |-> "read", workspace |-> v, git |-> NoGit,
                    files_changed |-> WorkingTreeChanged],
           UNCHANGED <<disk, opened, known, told, inbox, worker>>
    PROVE  \E f : Scanning(v, f) /\ (Serving => Held(v)')
<1> DEFINE e == watched[v]
           f == Recorded(e, scan.fingerprint)
<1>1. GitTypes /\ ScanInv
  BY DEF GitInv
<1>2. scan # NoScan /\ v \in Workspaces /\ e \in Entries /\ scan.forced \in BOOLEAN /\ gitSpent \in GitSpentStates
  BY <1>1, ScanFields DEF GitTypes
<1>3. /\ f \in Entries /\ watched' = [watched EXCEPT ![v] = f]
      /\ f.fingerprint = scan.fingerprint /\ SameAsks(e, f)
      /\ f.root_subscribed = e.root_subscribed /\ f.dropped = e.dropped
      /\ activity' \in [Workspaces -> Places] /\ probed' \in [Workspaces -> Places]
      /\ \A w \in Workspaces \ {v} : activity'[w] = activity[w] /\ probed'[w] = probed[w]
  BY <1>1, <1>2, RecordIs
<1> HIDE DEF f
<1> DEFINE changed == WorkingTreeChanged
<1>4. /\ changed \in BOOLEAN
      /\ scan.forced \/ "file" \in Paths(scan.pending) => changed
  BY <1>2 DEF WorkingTreeChanged
<1>5. scan' = [stage |-> "read", workspace |-> v, git |-> NoGit, files_changed |-> changed]
  OBVIOUS
<1> HIDE DEF changed
<1>6. Scanning(v, f)
  BY <1>2, <1>4, <1>5, <1>1, <1>3 DEF ScanStates, Gits, GitTypes, Scanning
<1>7. ASSUME Serving PROVE Held(v)'
  <2>1. /\ IsWatched(v) /\ IsWatched(v)' /\ watched'[v] = f /\ BookInv(v)' /\ LookInv(v)
        /\ SeesFiles' => SeesFiles /\ TreeInv(v) /\ FilesInv(v)
        /\ (Linked(v)' <=> Linked(v)) /\ OnDisk(v)' = OnDisk(v)
    BY <1>6, <1>7, ScanStep DEF Held
  <2>2. /\ Forced(v) => Forced(v)'
        /\ \A kind \in Kinds : Reported(v, kind) => Reported(v, kind)'
    BY <1>3, <1>6, <1>7, ScanAsks
  <2>3. /\ ~Scanned(v) /\ ScanIs(v, "begun") /\ Scanned(v)'
        /\ ~ScanIs(v, "begun")' /\ ~ScanIs(v, "found")' /\ ScanIs(v, "read")'
        /\ scan'.git = NoGit /\ (scan'.files_changed <=> changed)
    BY <1>5 DEF Scanned, ScanIs
  <2>4. ~Linked(v) /\ OnDisk(v) = NoGit
    BY <1>1, <1>2 DEF ScanInv, OnDisk
  <2>5. SeesFiles' => TreeInv(v)' /\ FilesInv(v)'
    BY <1>3, <1>4, <2>1, <2>2, <2>3, <2>4 DEF TreeInv, FilesInv, Kinds
  <2>6. LookInv(v)'
    BY <1>2, <1>3, <2>1, <2>3 DEF LookInv
  <2> QED
    BY <2>1, <2>5, <2>6 DEF Held
<1> QED
  BY <1>6, <1>7

(* Discovery, by what it found.                                            *)
LEMMA DiscoverKeeps ==
    ASSUME GitInv, Discover
    PROVE  GitTypes' /\ ScanInv' /\ (In(inbox', Stop) => In(inbox, Stop))
           /\ (Serving => \A w \in Workspaces : Held(w)')
BY SkipKeeps, FindKeeps, NoneKeeps, ScanStep DEF Discover

(* The files are read, after the refs were.                                *)
LEMMA ReadKeeps ==
    ASSUME GitInv, ReadChanges
    PROVE  GitTypes' /\ ScanInv' /\ (In(inbox', Stop) => In(inbox, Stop))
           /\ (Serving => \A w \in Workspaces : Held(w)')
<1>1. PICK v : v = scan.workspace
  OBVIOUS
<1> DEFINE e == watched[v]
           git == [refs |-> scan.refs, files |-> disk[v].files]
<1>2. GitTypes /\ ScanInv
  BY DEF GitInv
<1>3. /\ scan.stage = "found" /\ scan # NoScan /\ v \in Workspaces /\ e \in Entries
      /\ scan.refs \in Nat /\ scan.files_changed \in BOOLEAN /\ disk[v].repository
  BY <1>1, <1>2, ScanFields DEF ReadChanges, ScanInv
<1>4. scan' = [stage |-> "read", workspace |-> v, files_changed |-> scan.files_changed, git |-> git]
      /\ UNCHANGED <<disk, opened, known, told, inbox, activity, probed, watched, worker, gitSpent>>
  BY <1>1 DEF ReadChanges
<1>5. git \in Gits /\ git # NoGit /\ git.refs = scan.refs /\ git.files = disk[v].files
  BY <1>2, <1>3, GitAssumption DEF GitTypes, Gits
<1> HIDE DEF git
<1>6. Scanning(v, e)
  BY <1>3, <1>4, <1>5, <1>2, <1>1 DEF ScanStates, GitTypes, Scanning
<1>7. ASSUME Serving PROVE Held(v)'
  BY <1>6, <1>7, ScanStep, ScanAsks, <1>1, <1>3, <1>4, <1>5 DEF Held, SameAsks, Scanned, ScanIs,
     OnDisk, git, TreeInv, FilesInv, Kinds, WillLook, LookInv, IsCurrentGit
<1> QED
  BY <1>6, <1>7, ScanStep

(* The result is known, and told.                                          *)
LEMMA ApplyKeeps ==
    ASSUME GitInv, ApplyRefresh
    PROVE  GitTypes' /\ ScanInv' /\ (In(inbox', Stop) => In(inbox, Stop))
           /\ (Serving => \A w \in Workspaces : Held(w)')
<1>1. PICK v : v = scan.workspace
  OBVIOUS
<1> DEFINE e == watched[v]
           f == [e EXCEPT !.failed = FALSE, !.dropped = e.dropped /\ ~scan.files_changed]
<1>2. GitTypes /\ ScanInv
  BY DEF GitInv
<1>3. /\ scan.stage = "read" /\ scan # NoScan /\ v \in Workspaces /\ e \in Entries
      /\ scan.git \in Gits /\ scan.files_changed \in BOOLEAN
  BY <1>1, <1>2, ScanFields DEF ApplyRefresh
<1>4. /\ UNCHANGED <<disk, opened, activity, probed, worker, gitSpent>> /\ scan' = NoScan
      /\ watched' = [watched EXCEPT ![v] = f]
      /\ told' = IF v \in opened /\ scan.files_changed THEN [told EXCEPT ![v] = disk[v].files] ELSE told
      /\ known' = IF v \in opened /\ known[v] # scan.git THEN [known EXCEPT ![v] = scan.git] ELSE known
      /\ inbox' = inbox \/ (v \in opened /\ inbox' = Append(inbox, Watch(v, scan.git)))
  BY <1>1 DEF ApplyRefresh
<1>5. /\ f \in Entries /\ SameAsks(e, f) /\ ~f.failed /\ (f.dropped <=> e.dropped /\ ~scan.files_changed)
      /\ f.root_subscribed = e.root_subscribed /\ f.git_dir_subscribed = e.git_dir_subscribed
      /\ f.fingerprint = e.fingerprint /\ f.terminal_due = e.terminal_due
  BY <1>3 DEF Entries, SameAsks
<1> HIDE DEF f
<1>6. /\ known' \in [Workspaces -> Gits] /\ told' \in [Workspaces -> Nat]
      /\ \A w \in Workspaces \ {v} : known'[w] = known[w] /\ told'[w] = told[w]
      /\ known'[v] = (IF v \in opened THEN scan.git ELSE known[v])
      /\ told'[v] = (IF v \in opened /\ scan.files_changed THEN disk[v].files ELSE told[v])
  BY <1>2, <1>3, <1>4 DEF GitTypes
<1>7. Scanning(v, f)
  BY <1>4, <1>2, <1>1, <1>3, <1>5, <1>6 DEF ScanStates, NoScan, GitTypes, Scanning
<1>8. ASSUME Serving PROVE Held(v)'
  <2>1. /\ IsWatched(v) /\ IsWatched(v)' /\ watched'[v] = f /\ BookInv(v)' /\ LookInv(v)
        /\ SeesFiles' => SeesFiles /\ TreeInv(v) /\ FilesInv(v)
        /\ (Linked(v)' <=> Linked(v)) /\ OnDisk(v)' = OnDisk(v)
    BY <1>7, <1>8, ScanStep DEF Held
  <2>2. /\ Forced(v) => Forced(v)'
        /\ \A kind \in Kinds : Reported(v, kind) => Reported(v, kind)'
        /\ WillScan(v) => WillScan(v)'
    BY <1>5, <1>7, <1>8, ScanAsks
  <2>3. /\ Scanned(v) /\ ScanIs(v, "read") /\ ~ScanIs(v, "begun") /\ ~Scanned(v)'
        /\ ~ScanIs(v, "begun")' /\ ~ScanIs(v, "found")' /\ ~ScanIs(v, "read")'
    BY <1>1, <1>3, <1>4 DEF Scanned, ScanIs, NoScan
  <2>4. disk' = disk /\ opened' = opened /\ gitSpent' = gitSpent
    BY <1>4
  <2>5. SeesFiles' => TreeInv(v)'
    BY <1>5, <1>6, <2>1, <2>2, <2>3, <2>4 DEF TreeInv
  <2>6. SeesFiles' => FilesInv(v)'
    BY <1>5, <1>6, <2>1, <2>2, <2>3, <2>4 DEF FilesInv, Kinds
  <2>7. LookInv(v)'
    BY <1>4, <1>5, <2>1, <1>6, <2>2, <2>3, <2>4 DEF WillLook, LookInv, IsCurrentGit
  <2> QED
    BY <2>1, <2>5, <2>6, <2>7 DEF Held
<1> QED
  BY <1>7, <1>8, ScanStep

(* No message changes the setting.                                         *)
LEMMA HandleSetting ==
    ASSUME GitInv, HandleMessage
    PROVE  gitSpent'.setting = gitSpent.setting
<1>1. GitTypes /\ inbox \in Seq(GitMessages)
  BY DEF GitInv, GitTypes
<1> DEFINE m == Head(inbox)
<1>2. m.type \in {"Watch", "Retain", "Refresh", "TerminalActivity", "Filesystem"}
  BY <1>1, TailIs, InTail DEF GitInv, HandleMessage, Taking, Serving, GitMessages
<1>3. \A ok \in Subscriptions : Refused(ok).setting = gitSpent.setting
  BY <1>1, SubscriptionsAre
<1>4. gitSpent' = gitSpent \/ \E ok \in Subscriptions : gitSpent' = Refused(ok)
  BY <1>2 DEF HandleMessage, OnWatch, OnRetain, OnRefresh, OnTerminalActivity, OnFilesystem
<1> QED
  BY <1>3, <1>4

(* The Workspace of a scan that begins is watched.                         *)
LEMMA BeginScanInv ==
    ASSUME GitInv, NEW v \in Workspaces, BeginScan(v)
    PROVE  ScanInv'
<1>1. GitTypes /\ ScanInv /\ scan = NoScan /\ disk' = disk /\ gitSpent' = gitSpent
  BY DEF GitInv, BeginScan, Taking
<1>2. watched'[v] \in Entries
  BY BeginEntry DEF BeginIs
<1>3. scan' = NoScan \/ (scan'.workspace = v /\ scan'.stage = "begun")
  <2>1. v \notin opened => scan' = scan
    BY BeginEntry
  <2>2. v \in opened => scan' = NoScan \/ (scan'.workspace = v /\ scan'.stage = "begun")
    BY DEF BeginScan
  <2> QED
    BY <1>1, <2>1, <2>2
<1>4. NoScan.stage # "found"
  BY DEF NoScan
<1>5. \A w \in Workspaces : Linked(w)' <=> Linked(w)
  BY <1>1 DEF Linked
<1> QED
  BY <1>1, <1>2, <1>3, <1>4, <1>5, EntryIsWatched DEF ScanInv, IsWatched

-----------------------------------------------------------------------------
(* A restored Session: every Workspace is promised its watch.              *)

(* The two messages of each restored Workspace, in pairs.                  *)
LEMMA Halves ==
    ASSUME NEW n \in Nat
    PROVE  /\ \A i \in 1 .. 2 * n : (i + 1) \div 2 \in 1 .. n
           /\ \A k \in 1 .. n : /\ 2 * k - 1 \in 1 .. 2 * n /\ 2 * k \in 1 .. 2 * n
                                /\ (2 * k - 1 + 1) \div 2 = k /\ (2 * k + 1) \div 2 = k
                                /\ (2 * k - 1) % 2 = 1 /\ (2 * k) % 2 # 1
OBVIOUS

(* The queue of a restored Session.                                        *)
LEMMA InitQueue ==
    ASSUME NEW setting \in GitSettings, GitInit(setting)
    PROVE  /\ inbox \in Seq(GitMessages) /\ ~In(inbox, Stop)
           /\ \A w \in Workspaces : /\ ~Dropped(inbox, w)
                                    /\ w \in setting.restored => Promised(inbox, w)
                                    /\ w \notin setting.restored => Unwatches(inbox, w)
<1> DEFINE n == Cardinality(setting.restored)
<1>1. n \in Nat /\ setting.restored \subseteq Workspaces
  BY FS_CardinalityType DEF GitSettings
<1>2. PICK order \in [1 .. n -> setting.restored] :
         /\ setting.restored = {order[i] : i \in DOMAIN order}
         /\ inbox = [i \in 1 .. 2 * n |->
                       LET w == order[(i + 1) \div 2]
                       IN  IF i % 2 = 1 THEN Watch(w, known[w]) ELSE Refresh(w)]
  BY DEF GitInit
<1> HIDE DEF n
<1>3. ASSUME NEW i \in 1 .. 2 * n
      PROVE  \E w \in setting.restored :
               inbox[i] = Watch(w, known[w]) \/ inbox[i] = Refresh(w)
  BY <1>1, Halves, <1>2
<1>4. DOMAIN inbox = 1 .. 2 * n /\ 2 * n \in Nat
  BY <1>1, <1>2
<1>5. \A w \in Workspaces : /\ \A git : Watch(w, git) \in GitMessages
                            /\ Refresh(w) \in GitMessages
  BY MessageTypes
<1>6. inbox \in Seq(GitMessages)
  <2>1. \A i \in 1 .. 2 * n : inbox[i] \in GitMessages
    BY <1>1, <1>3, <1>5
  <2>2. inbox = [i \in 1 .. 2 * n |-> inbox[i]]
    BY <1>2
  <2>3. inbox \in [1 .. 2 * n -> GitMessages]
    BY <2>1, <2>2
  <2> QED
    BY <1>4, <2>3
<1>7. ~In(inbox, Stop) /\ \A w \in Workspaces : ~Dropped(inbox, w)
  BY <1>3, <1>4 DEF Watch, Refresh, Stop, In, Dropped, Drops
<1>8. ASSUME NEW w \in setting.restored PROVE Promised(inbox, w)
  <2>1. PICK k \in 1 .. n : order[k] = w
    BY <1>2
  <2>2. 2 * k - 1 \in 1 .. 2 * n /\ 2 * k \in 1 .. 2 * n /\ 2 * k - 1 < 2 * k
    BY <1>1, Halves
  <2>3. inbox[2 * k - 1] = Watch(w, known[w])
    BY <1>1, Halves, <1>2, <2>1, <2>2
  <2>4. inbox[2 * k] = Refresh(w)
    BY <1>1, Halves, <1>2, <2>1, <2>2
  <2>5. Watches(inbox[2 * k - 1], w)
    BY <2>3 DEF Watches, Watch
  <2>6. \A j \in DOMAIN inbox : ~Drops(inbox[j], w)
    BY <1>1, <1>7 DEF Dropped
  <2>7. PromisedAt(inbox, w, 2 * k - 1, 2 * k)
    BY <2>2, <2>4, <2>5, <2>6 DEF PromisedAt
  <2> QED
    BY <1>4, <2>2, <2>7 DEF Promised
<1>9. ASSUME NEW w \in Workspaces \ setting.restored PROVE Unwatches(inbox, w)
  BY <1>3, <1>4, <1>9 DEF Watches, Watch, Refresh, Unwatches
<1> QED
  BY <1>6, <1>7, <1>8, <1>9

(* Nothing is watched yet, and everything is promised.                     *)
LEMMA InitHolds ==
    ASSUME NEW setting \in GitSettings, GitInit(setting)
    PROVE  GitInv
<1>1. /\ inbox \in Seq(GitMessages) /\ ~In(inbox, Stop)
      /\ \A w \in Workspaces : /\ ~Dropped(inbox, w)
                               /\ w \in setting.restored => Promised(inbox, w)
                               /\ w \notin setting.restored => Unwatches(inbox, w)
  BY InitQueue
<1>2. /\ disk = [w \in Workspaces |-> [repository |-> w \notin setting.bare, refs |-> 1, files |-> 1]]
      /\ opened = setting.restored
      /\ known = [w \in Workspaces |-> IF w \in setting.restored \ setting.bare
                                       THEN [refs |-> 1, files |-> 0] ELSE NoGit]
      /\ told = [w \in Workspaces |-> 1]
      /\ activity = [w \in Workspaces |-> "none"] /\ probed = activity
      /\ watched = [w \in Workspaces |-> NotWatched]
      /\ scan = NoScan
      /\ worker = [running |-> TRUE, stopping |-> FALSE]
      /\ gitSpent = [setting |-> setting, created |-> {}, refreshes |-> 0, outputs |-> 0,
                     failures |-> 0, refusals |-> 0, heard |-> [w \in Workspaces |-> TRUE],
                     changes |-> [kind \in Kinds |-> 0]]
  BY DEF GitInit, Unscanned
<1>3. setting.restored \subseteq Workspaces /\ setting.linked \cap setting.bare = {}
  BY DEF GitSettings
<1>4. GitTypes
  BY <1>2, <1>3, <1>1 DEF Gits, Places, ScanStates, GitSpentStates, GitTypes
<1>5. ScanInv
  BY <1>2, <1>3 DEF NoScan, Linked, ScanInv
<1>6. ASSUME NEW w \in Workspaces PROVE Held(w)
  <2>1. ~IsWatched(w) /\ ~Scanned(w) /\ \A stage \in {"begun", "found", "read"} : ~ScanIs(w, stage)
    BY <1>2 DEF IsWatched, Scanned, ScanIs, NoScan
  <2>2. BookInv(w)
    BY <1>1, <1>2, <2>1 DEF BookInv, Booked
  <2>3. w \in opened => Forced(w) /\ WillScan(w)
    BY <1>1, <1>2 DEF Promised, PromisedAt, In, Forced, WillScan
  <2>4. known[w] # NoGit => known[w].refs <= disk[w].refs
    BY <1>2
  <2>5. LookInv(w)
    BY <2>1, <2>3, <2>4 DEF LookInv
  <2>6. TreeInv(w) /\ FilesInv(w)
    BY <2>1, <2>3 DEF TreeInv, FilesInv
  <2> QED
    BY <2>2, <2>5, <2>6 DEF Held
<1> QED
  BY <1>1, <1>4, <1>5, <1>6 DEF GitInv

-----------------------------------------------------------------------------
(* Every step keeps it all.                                                *)

(* The Server stops, or its worker has ended: nothing is owed any more.    *)
LEMMA StopKeeps ==
    ASSUME GitInv, Shutdown \/ EndWorker
    PROVE  GitTypes' /\ ~Serving'
<1>1. GitTypes
  BY DEF GitInv
<1>2. CASE Shutdown
  BY <1>1, <1>2, InAppend DEF GitMessages, Shutdown, GitTypes, Serving
<1>3. CASE EndWorker
  BY <1>1, <1>3 DEF EndWorker, GitTypes, Serving
<1> QED
  BY <1>2, <1>3

(* A step that takes no entry from under a scan and no repository away.    *)
LEMMA ScanInvKept ==
    ASSUME GitInv, gitSpent'.setting = gitSpent.setting, scan' = scan,
           \A w \in Workspaces : disk[w].repository => disk'[w].repository,
           scan = NoScan \/ watched' = watched
    PROVE  ScanInv'
BY ScanFields DEF GitInv, Linked, NoScan, ScanInv, IsWatched

(* Only a shutdown queues the message that stops the worker.               *)
LEMMA AddStop ==
    ASSUME GitTypes, NEW m \in GitMessages, m # Stop, inbox' = inbox \/ inbox' = Append(inbox, m)
    PROVE  In(inbox', Stop) => In(inbox, Stop)
BY InAppend DEF GitTypes

(* The steps beside the worker, together.                                  *)
LEMMA SessionStep ==
    ASSUME GitInv, NEW v \in Workspaces,
           \/ \E kind \in Kinds : Change(v, kind)
           \/ CreateWorkspace(v) \/ CloseWorkspace(v) \/ RefreshWorkspace(v)
           \/ Output(v) \/ RequestTerminalRefresh(v)
    PROVE  GitInv'
<1>1. GitTypes /\ ScanInv /\ (Serving => ~In(inbox, Stop))
  BY DEF GitInv
<1>2. GitTypes'
  BY <1>1, ChangeTypes, SessionTypes, OutputTypes
<1>3. (Serving' <=> Serving) /\ scan' = scan /\ watched' = watched
  BY DEF Serving, Change, CreateWorkspace, CloseWorkspace, RefreshWorkspace, Output,
         RequestTerminalRefresh
<1>4. gitSpent'.setting = gitSpent.setting
  BY <1>1, ChangeTypes DEF GitTypes, CreateWorkspace, CloseWorkspace, RefreshWorkspace, Output,
     RequestTerminalRefresh, GitSpentStates
<1>5. \A w \in Workspaces : disk[w].repository => disk'[w].repository
  <2>1. ASSUME NEW kind \in Kinds, Change(v, kind), NEW w \in Workspaces, disk[w].repository
        PROVE  disk'[w].repository
    BY <1>1, <2>1 DEF GitTypes, Change, Kinds
  <2>2. (\E kind \in Kinds : Change(v, kind)) \/ disk' = disk
    BY DEF CreateWorkspace, CloseWorkspace, RefreshWorkspace, Output, RequestTerminalRefresh
  <2> QED
    BY <2>1, <2>2
<1>6. ScanInv'
  BY <1>3, <1>4, <1>5, ScanInvKept
<1>7. ASSUME Serving PROVE \A w \in Workspaces : Held(w)'
  BY <1>7, ChangeKeeps, CreateKeeps, CloseKeeps, AskKeeps
<1>8. In(inbox', Stop) => In(inbox, Stop)
  <2>1. /\ Refresh(v) \in GitMessages /\ TerminalActivity(v) \in GitMessages
        /\ \A git : Watch(v, git) \in GitMessages
        /\ \A kind \in Kinds : Filesystem(v, kind) \in GitMessages
        /\ \A keep \in SUBSET Workspaces : RetainOnly(keep) \in GitMessages
    BY MessageTypes
  <2>2. /\ Refresh(v) # Stop /\ TerminalActivity(v) # Stop
        /\ \A git : Watch(v, git) # Stop
        /\ \A kind : Filesystem(v, kind) # Stop
        /\ \A keep : RetainOnly(keep) # Stop
    BY DEF Refresh, TerminalActivity, Watch, Filesystem, RetainOnly, Stop
  <2>3. opened' \in SUBSET Workspaces
    BY <1>2 DEF GitTypes
  <2>4. CASE CreateWorkspace(v)
    <3>1. PICK git : inbox' = inbox \o <<RetainOnly(opened'), Watch(v, git), Refresh(v)>>
      BY <2>4 DEF CreateWorkspace
    <3> DEFINE s1 == Append(inbox, RetainOnly(opened'))
               s2 == Append(s1, Watch(v, git))
    <3>2. inbox \in Seq(GitMessages)
      BY <1>1 DEF GitTypes
    <3>3. inbox' = Append(s2, Refresh(v))
      BY <2>1, <2>3, <3>1, <3>2, CreateMessages
    <3>4. s1 \in Seq(GitMessages) /\ (In(s1, Stop) => In(inbox, Stop))
      BY <2>1, <2>2, <2>3, <3>2, InAppend
    <3>5. s2 \in Seq(GitMessages) /\ (In(s2, Stop) => In(s1, Stop))
      BY <2>1, <2>2, <3>4, InAppend
    <3>6. In(Append(s2, Refresh(v)), Stop) => In(s2, Stop)
      BY <2>1, <2>2, <3>5, InAppend
    <3> QED
      BY <3>3, <3>4, <3>5, <3>6
  <2>5. CASE ~CreateWorkspace(v)
    BY <2>5, <1>1, <2>1, <2>2, <2>3, AddStop DEF Change, CloseWorkspace, RefreshWorkspace, Output,
       RequestTerminalRefresh
  <2> QED
    BY <2>4, <2>5
<1> QED
  BY <1>1, <1>2, <1>3, <1>6, <1>7, <1>8 DEF GitInv

(* Every step of the watcher, by its actions.                              *)
LEMMA GitStep == GitInv /\ [GitNext]_gitVars => GitInv'
<1> SUFFICES ASSUME GitInv, [GitNext]_gitVars PROVE GitInv'
  OBVIOUS
<1>1. GitTypes /\ ScanInv /\ (Serving => ~In(inbox, Stop))
  BY DEF GitInv
<1>2. CASE UNCHANGED gitVars
  <2> USE <1>2 DEF gitVars
  <2>1. ScanInv' /\ GitTypes' /\ (Serving' <=> Serving) /\ (In(inbox', Stop) => In(inbox, Stop))
    BY <1>1 DEF ScanInv, GitTypes, Serving, In, IsWatched, Linked
  <2>2. ASSUME Serving, NEW w \in Workspaces PROVE Held(w)'
    BY <2>2, SameBooks, <1>1, <2>1, SteadyIsKept, KeptHolds DEF GitInv, Held, IsWatched, Steady,
       SameScan, SeesFiles, WillLook
  <2> QED
    BY <1>1, <2>1, <2>2 DEF GitInv
<1>3. ASSUME NEW v \in Workspaces,
             \/ \E kind \in Kinds : Change(v, kind)
             \/ CreateWorkspace(v) \/ CloseWorkspace(v) \/ RefreshWorkspace(v)
             \/ Output(v) \/ RequestTerminalRefresh(v)
      PROVE  GitInv'
  BY <1>3, SessionStep
<1>4. CASE Shutdown \/ EndWorker
  BY <1>4, StopKeeps, ScanInvKept DEF Shutdown, EndWorker, GitInv
<1>5. CASE HandleMessage
  BY <1>5, HandleKeeps, HandleSetting, ScanInvKept DEF HandleMessage, Taking, GitInv
<1>6. CASE Scans
  BY <1>6, BeginKeeps, BeginScanInv, <1>1 DEF Scans, BeginScan, GitInv, In
<1>7. CASE Discover \/ ReadChanges \/ ApplyRefresh \/ FailScan \/ PanicScan
  BY <1>7, DiscoverKeeps, ReadKeeps, ApplyKeeps, FailKeeps, PanicKeeps, <1>1 DEF Discover,
     ReadChanges, ApplyRefresh, FailScan, PanicScan, Serving, GitInv
<1> QED
  BY <1>2, <1>3, <1>4, <1>5, <1>6, <1>7 DEF GitNext

(* What the watcher owes every Workspace, it owes it always.               *)
THEOREM GitInvHolds == GitSpec => []GitInv
<1>1. (\E setting \in GitSettings : GitInit(setting)) => GitInv
  BY InitHolds
<1> QED
  BY <1>1, GitStep, PTL DEF GitSpec

(* All quiet, nothing is owed any more, so what is known is current.       *)
LEMMA GitInvGives == GitInv => QuietIsFollowed
<1> SUFFICES ASSUME GitInv PROVE QuietIsFollowed
  OBVIOUS
<1>1. GitTypes /\ ScanInv
  BY DEF GitInv
<1>2. GitTypeOK
  <2>1. Paths(Instants) = Places
    BY DEF Instants, Paths, Places
  <2>2. \A w \in Workspaces : watched[w] # NotWatched =>
          Len(watched[w].pending) <= MaxPending /\ watched[w].fingerprint \in Nat
    BY <1>1 DEF GitTypes, Entries, Pendings
  <2>3. scan.stage \in {"none", "begun", "found", "read"}
    BY <1>1, ScanFields
  <2> QED
    BY <1>1, <2>1, <2>2, <2>3 DEF GitTypeOK, GitTypes
<1>3. ASSUME WatcherQuiet, Serving, NEW w \in Workspaces
      PROVE  /\ w \in opened <=> IsWatched(w)
             /\ w \in opened => \/ known[w] = OnDisk(w) \/ watched[w].failed
                                \/ watched[w].storm \/ ~SeesFiles
             /\ w \in opened /\ gitSpent.heard[w] /\ disk[w].repository =>
                  IsCurrentGit(w, known[w]) \/ watched[w].failed
             /\ w \in opened /\ SeesFiles => told[w] = disk[w].files \/ watched[w].dropped
  <2>1. Held(w) /\ scan = NoScan /\ inbox = <<>> /\ activity[w] = "none" /\ probed[w] = "none"
        /\ (IsWatched(w) => ~watched[w].filesystem_due /\ ~watched[w].terminal_due)
    BY <1>3 DEF GitInv, WatcherQuiet, IsWatched
  <2>2. DOMAIN inbox = {}
    BY <2>1
  <2>3. ~Promised(inbox, w) /\ ~Dropped(inbox, w) /\ \A x : ~In(inbox, x)
    BY <2>2 DEF Promised, Dropped, In
  <2>4. w \in opened <=> IsWatched(w)
    BY <2>1, <2>3 DEF Held, BookInv, Booked
  <2>5. ~Scanned(w) /\ ~ScanIs(w, "begun")
    BY <2>1 DEF Scanned, ScanIs, NoScan
  <2>6. ~Forced(w) /\ (\A kind : ~Reported(w, kind)) /\ ~WillScan(w) /\ ~WillLook(w)
    BY <2>1, <2>3 DEF Forced, Reported, Overflown, WillScan, WillLook
  <2>7. w \in opened /\ SeesFiles => known[w] = OnDisk(w) \/ watched[w].failed \/ watched[w].storm
    BY <2>1, <2>5, <2>6 DEF Held, TreeInv, Failed
  <2>8. w \in opened /\ gitSpent.heard[w] /\ disk[w].repository =>
          IsCurrentGit(w, known[w]) \/ watched[w].failed
    BY <2>1, <2>5, <2>6 DEF Held, LookInv, Failed
  <2>9. w \in opened /\ SeesFiles => told[w] = disk[w].files \/ watched[w].dropped
    BY <2>1, <2>5, <2>6 DEF Held, FilesInv
  <2> QED
    BY <2>4, <2>7, <2>8, <2>9
<1>4. QuietIsCurrent
  BY <1>1, <1>3 DEF QuietIsCurrent, GitTypes, IsWatched, IsCurrentGit
<1>5. FilesAreFollowed
  BY <1>1, <1>3 DEF GitTypes, FilesAreFollowed
<1> QED
  BY <1>2, <1>4, <1>5 DEF QuietIsFollowed

(* Once all is quiet, what the Server knows of its Workspaces is current   *)
(* and its Clients were told, whatever happened before and in what order.  *)
THEOREM QuietStaysFollowed == GitSpec => []QuietIsFollowed
BY GitInvHolds, GitInvGives, PTL
=============================================================================
