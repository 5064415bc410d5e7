------------------------- MODULE EventStreamProofs -------------------------
(***************************************************************************)
(* EventStream, for every set of Clients and every bound: what is on its   *)
(* way to a Client leads it to the Server's Session and never back, and    *)
(* the stream implements ReplicatedSession.  First lemmas on the messages  *)
(* on their way to a Client; then how locks, fences and connections fit    *)
(* together, the first half of the inductive invariant, and what each      *)
(* operator on a queue or a Client does to it; then the second half and    *)
(* the theorems.                                                           *)
(***************************************************************************)
EXTENDS EventStream, Induction, SequenceTheorems, TLAPS

-----------------------------------------------------------------------------
(* Chains: frames of which the Client reads the first one, to which the    *)
(* Server appends, and into which a Layout response may be inserted.       *)

Types ==
    {"event", "bootstrap", "subscribed", "rejected", "lagged", "snapshotRejected",
     "layoutApplied", "layoutRejected"}
Frames == [type : Types, seq : Nat, size : Nat]

Notices == {"lagged", "rejected"}
Changes == {"event", "bootstrap"}
Answered == {"layoutApplied", "layoutRejected"}

(* u is s with m inserted behind the first n frames.                       *)
Inserted(u, s, n, m) ==
    /\ n \in 0..Len(s) /\ Len(u) = Len(s) + 1
    /\ \A i \in 1..n : u[i] = s[i]
    /\ u[n + 1] = m
    /\ \A i \in n + 1..Len(s) : u[i + 1] = s[i]

(* t is the beginning of s.                                                *)
Begins(t, s) == Len(t) <= Len(s) /\ \A i \in 1..Len(t) : t[i] = s[i]

(* No frame is newer than v.                                               *)
Bounded(s, v) == \A i \in 1..Len(s) : s[i].seq <= v

(* No Bootstrap takes the Client back: neither from the cursor x nor from  *)
(* an event or a Bootstrap before it.                                      *)
Ordered(s, x) ==
    \A j \in 1..Len(s) :
      s[j].type = "bootstrap" =>
        /\ x <= s[j].seq
        /\ \A i \in 1..j - 1 : s[i].type \in Changes => s[i].seq <= s[j].seq

(* A Bootstrap follows every lag notice.                                   *)
Recovered(s) ==
    \A i \in 1..Len(s) :
      s[i].type = "lagged" => \E j \in i + 1..Len(s) : s[j].type = "bootstrap"

(* Between a lag notice and an event there is a Bootstrap.                 *)
Paused(s) ==
    \A i \in 1..Len(s) : \A j \in i + 1..Len(s) :
      s[i].type = "lagged" /\ s[j].type = "event"
      => \E k \in i + 1..j - 1 : s[k].type = "bootstrap"

(* A Client that is told it is subscribed is told, later, that it is not.  *)
Told(s, believes) ==
    /\ believes => \E i \in 1..Len(s) : s[i].type \in Notices
    /\ \A i \in 1..Len(s) :
         s[i].type = "subscribed" => \E j \in i + 1..Len(s) : s[j].type \in Notices

(* Behind n frames, change v is known: by the cursor x or a frame that is  *)
(* as new, or the Client knows of a gap (r) and no Bootstrap is to fill it.*)
Confirmed(s, n, x, r, v) ==
    \/ x >= v
    \/ \E j \in 1..n : s[j].type \in Changes /\ s[j].seq >= v
    \/ r /\ \A j \in 1..n : s[j].type # "bootstrap"

AnswersConfirmed(s, x, r) ==
    \A i \in 1..Len(s) : s[i].type = "layoutApplied" => Confirmed(s, i - 1, x, r, s[i].seq)

(* A lagged writer's last word, until the Client has read it.              *)
LagSaid(s, believes) == IF s = <<>> THEN ~believes ELSE s[Len(s)].type = "lagged"

NoneOf(s, types) == \A i \in 1..Len(s) : s[i].type \notin types

-----------------------------------------------------------------------------
(* Inserting and appending.                                                *)

LEMMA ConcatIndex ==
    ASSUME NEW a \in Seq(Frames), NEW b \in Seq(Frames)
    PROVE  /\ a \o b \in Seq(Frames) /\ Len(a \o b) = Len(a) + Len(b)
           /\ Len(a) \in Nat /\ Len(b) \in Nat
           /\ \A i \in 1..Len(a) : (a \o b)[i] = a[i]
           /\ \A i \in 1..Len(b) : (a \o b)[Len(a) + i] = b[i]
BY ConcatProperties

LEMMA InsertedConcat ==
    ASSUME NEW a \in Seq(Frames), NEW b \in Seq(Frames), NEW m \in Frames
    PROVE  Inserted(Append(a, m) \o b, a \o b, Len(a), m)
BY ConcatIndex DEF Inserted

LEMMA InsertedAppend ==
    ASSUME NEW s \in Seq(Frames), NEW m \in Frames
    PROVE  Inserted(Append(s, m), s, Len(s), m)
BY DEF Inserted

LEMMA InsertBounded ==
    ASSUME NEW s, NEW u, NEW n, NEW m, Len(s) \in Nat, Inserted(u, s, n, m),
           NEW v, Bounded(s, v), m.seq <= v
    PROVE  Bounded(u, v)
<1> SUFFICES ASSUME NEW i \in 1..Len(u) PROVE u[i].seq <= v
  BY DEF Bounded
<1>1. CASE i <= n
  BY <1>1 DEF Inserted, Bounded
<1>2. CASE i = n + 1
  BY <1>2 DEF Inserted
<1>3. CASE i > n + 1
  <2>1. i - 1 \in n + 1..Len(s) /\ (i - 1) + 1 = i /\ i - 1 \in 1..Len(s)
    BY <1>3 DEF Inserted
  <2> QED
    BY <2>1 DEF Inserted, Bounded
<1> QED
  BY <1>1, <1>2, <1>3 DEF Inserted

(* Where a frame of u comes from.                                          *)
From(i, n) == IF i <= n THEN i ELSE i - 1

LEMMA InsertFrom ==
    ASSUME NEW s, NEW u, NEW n, NEW m, Len(s) \in Nat, Inserted(u, s, n, m)
    PROVE  /\ n \in Nat /\ n <= Len(s) /\ Len(u) = Len(s) + 1 /\ u[n + 1] = m
           /\ \A i \in 1..Len(u) : i # n + 1 => From(i, n) \in 1..Len(s) /\ u[i] = s[From(i, n)]
           /\ \A i \in 1..Len(s) : \E j \in {i, i + 1} : j \in 1..Len(u) /\ u[j] = s[i] /\ From(j, n) = i /\ j # n + 1
BY DEF Inserted, From

LEMMA InsertNoneOf ==
    ASSUME NEW s, NEW u, NEW n, NEW m, Len(s) \in Nat, Inserted(u, s, n, m),
           NEW types, NoneOf(s, types), m.type \notin types
    PROVE  NoneOf(u, types)
BY InsertFrom DEF NoneOf

(* Only what may change the cursor has to be at the end.                   *)
LEMMA InsertOrdered ==
    ASSUME NEW s, NEW u, NEW n, NEW m, Len(s) \in Nat, Inserted(u, s, n, m),
           NEW x, Ordered(s, x),
           \/ m.type \notin Changes
           \/ m.type = "event" /\ n = Len(s)
           \/ m.type = "bootstrap" /\ n = Len(s) /\ x <= m.seq /\ Bounded(s, m.seq)
    PROVE  Ordered(u, x)
<1> SUFFICES ASSUME NEW j \in 1..Len(u), u[j].type = "bootstrap"
             PROVE  x <= u[j].seq /\ \A i \in 1..j - 1 : u[i].type \in Changes => u[i].seq <= u[j].seq
  BY DEF Ordered
<1>0. /\ n \in Nat /\ n <= Len(s) /\ Len(u) = Len(s) + 1 /\ u[n + 1] = m
      /\ \A i \in 1..Len(u) : i # n + 1 => From(i, n) \in 1..Len(s) /\ u[i] = s[From(i, n)]
  BY InsertFrom
<1>1. CASE j = n + 1
  BY <1>0, <1>1 DEF Changes, Inserted, Bounded
<1>2. CASE j # n + 1
  <2>1. From(j, n) \in 1..Len(s) /\ u[j] = s[From(j, n)]
    BY <1>0, <1>2
  <2>2. x <= u[j].seq
    BY <2>1 DEF Ordered
  <2>3. ASSUME NEW i \in 1..j - 1, u[i].type \in Changes PROVE u[i].seq <= u[j].seq
    <3>1. CASE i = n + 1
      BY <1>0, <1>2, <2>3, <3>1 DEF Changes
    <3>2. CASE i # n + 1
      <4>1. From(i, n) \in 1..From(j, n) - 1 /\ u[i] = s[From(i, n)]
        BY <1>0, <1>2, <2>1, <3>2 DEF From
      <4> QED
        BY <2>1, <2>3, <4>1 DEF Ordered
    <3> QED
      BY <3>1, <3>2
  <2> QED
    BY <2>2, <2>3
<1> QED
  BY <1>1, <1>2

LEMMA InsertRecovered ==
    ASSUME NEW s, NEW u, NEW n, NEW m, Len(s) \in Nat, Inserted(u, s, n, m),
           \/ Recovered(s) /\ m.type # "lagged"
           \/ m.type = "bootstrap" /\ n = Len(s)
    PROVE  Recovered(u)
<1> SUFFICES ASSUME NEW i \in 1..Len(u), u[i].type = "lagged"
             PROVE  \E j \in i + 1..Len(u) : u[j].type = "bootstrap"
  BY DEF Recovered
<1>0. /\ n \in Nat /\ n <= Len(s) /\ Len(u) = Len(s) + 1 /\ u[n + 1] = m
      /\ \A k \in 1..Len(u) : k # n + 1 => From(k, n) \in 1..Len(s) /\ u[k] = s[From(k, n)]
      /\ \A k \in 1..Len(s) : \E j \in {k, k + 1} : j \in 1..Len(u) /\ u[j] = s[k] /\ From(j, n) = k /\ j # n + 1
  BY InsertFrom
<1>1. CASE m.type = "bootstrap" /\ n = Len(s)
  BY <1>0, <1>1
<1>2. CASE Recovered(s) /\ m.type # "lagged"
  <2>1. From(i, n) \in 1..Len(s) /\ s[From(i, n)].type = "lagged" /\ i # n + 1
    BY <1>0, <1>2
  <2>2. PICK k \in From(i, n) + 1..Len(s) : s[k].type = "bootstrap"
    BY <1>2, <2>1 DEF Recovered
  <2>3. PICK j \in {k, k + 1} : j \in 1..Len(u) /\ u[j] = s[k] /\ From(j, n) = k /\ j # n + 1
    BY <1>0, <2>1, <2>2
  <2>4. j \in i + 1..Len(u)
    BY <1>0, <2>1, <2>2, <2>3 DEF From
  <2> QED
    BY <2>2, <2>3, <2>4
<1> QED
  BY <1>1, <1>2

LEMMA InsertPaused ==
    ASSUME NEW s, NEW u, NEW n, NEW m, Len(s) \in Nat, Inserted(u, s, n, m), Paused(s),
           \/ m.type \notin {"lagged", "event"}
           \/ m.type = "event" /\ n = Len(s) /\ Recovered(s)
           \/ m.type = "lagged" /\ n = Len(s)
    PROVE  Paused(u)
<1> SUFFICES ASSUME NEW i \in 1..Len(u), NEW j \in i + 1..Len(u),
                    u[i].type = "lagged", u[j].type = "event"
             PROVE  \E k \in i + 1..j - 1 : u[k].type = "bootstrap"
  BY DEF Paused
<1>0. /\ n \in Nat /\ n <= Len(s) /\ Len(u) = Len(s) + 1 /\ u[n + 1] = m
      /\ \A k \in 1..Len(u) : k # n + 1 => From(k, n) \in 1..Len(s) /\ u[k] = s[From(k, n)]
      /\ \A k \in 1..Len(s) : \E l \in {k, k + 1} : l \in 1..Len(u) /\ u[l] = s[k] /\ From(l, n) = k /\ l # n + 1
  BY InsertFrom
<1>1. i # n + 1 /\ From(i, n) \in 1..Len(s) /\ s[From(i, n)].type = "lagged"
  BY <1>0
<1>2. PICK k \in From(i, n) + 1..Len(s) : s[k].type = "bootstrap" /\ (j = n + 1 \/ k <= From(j, n) - 1)
  <2>1. CASE j = n + 1
    BY <1>0, <2>1, <1>1 DEF Recovered
  <2>2. CASE j # n + 1
    <3>1. From(j, n) \in From(i, n) + 1..Len(s) /\ s[From(j, n)].type = "event"
      BY <1>0, <1>1, <2>2 DEF From
    <3>2. PICK k \in From(i, n) + 1..From(j, n) - 1 : s[k].type = "bootstrap"
      BY <1>1, <3>1 DEF Paused
    <3>3. k \in From(i, n) + 1..Len(s) /\ k <= From(j, n) - 1
      BY <1>1, <3>1, <3>2
    <3> QED
      BY <3>2, <3>3
  <2> QED
    BY <2>1, <2>2
<1>3. PICK l \in {k, k + 1} : l \in 1..Len(u) /\ u[l] = s[k] /\ From(l, n) = k /\ l # n + 1
  BY <1>0, <1>1, <1>2
<1>4. l >= i + 1
  BY <1>0, <1>1, <1>2, <1>3 DEF From
<1>5. l <= j - 1
  BY <1>0, <1>3, <1>1, <1>2 DEF From
<1> QED
  BY <1>2, <1>3, <1>4, <1>5

LEMMA InsertTold ==
    ASSUME NEW s, NEW u, NEW n, NEW m, Len(s) \in Nat, Inserted(u, s, n, m), NEW believes,
           \/ Told(s, believes) /\ m.type # "subscribed"
           \/ m.type \in Notices /\ n = Len(s)
    PROVE  Told(u, believes)
<1>0. /\ n \in Nat /\ n <= Len(s) /\ Len(u) = Len(s) + 1 /\ u[n + 1] = m
      /\ \A k \in 1..Len(u) : k # n + 1 => From(k, n) \in 1..Len(s) /\ u[k] = s[From(k, n)]
      /\ \A k \in 1..Len(s) : \E l \in {k, k + 1} : l \in 1..Len(u) /\ u[l] = s[k] /\ From(l, n) = k /\ l # n + 1
  BY InsertFrom
<1>1. CASE m.type \in Notices /\ n = Len(s)
  BY <1>0, <1>1 DEF Notices, Told
<1>2. CASE Told(s, believes) /\ m.type # "subscribed"
  <2>1. ASSUME believes PROVE \E i \in 1..Len(u) : u[i].type \in Notices
    BY <1>2, <2>1, <1>0 DEF Told
  <2>2. ASSUME NEW i \in 1..Len(u), u[i].type = "subscribed"
        PROVE  \E j \in i + 1..Len(u) : u[j].type \in Notices
    <3>1. From(i, n) \in 1..Len(s) /\ s[From(i, n)].type = "subscribed" /\ i # n + 1
      BY <1>0, <1>2, <2>2
    <3>2. PICK k \in From(i, n) + 1..Len(s) : s[k].type \in Notices
      BY <1>2, <3>1 DEF Told
    <3>3. PICK j \in {k, k + 1} : j \in 1..Len(u) /\ u[j] = s[k] /\ From(j, n) = k /\ j # n + 1
      BY <1>0, <3>1, <3>2
    <3>4. j \in i + 1..Len(u)
      BY <1>0, <3>1, <3>2, <3>3 DEF From
    <3> QED
      BY <3>2, <3>3, <3>4
  <2> QED
    BY <2>1, <2>2 DEF Told
<1> QED
  BY <1>1, <1>2

(* Up to the place of the insertion, or behind it.                         *)
LEMMA InsertConfirmed ==
    ASSUME NEW s, NEW u, NEW n, NEW m, Len(s) \in Nat, Inserted(u, s, n, m),
           NEW k \in 0..Len(s), NEW x, NEW r, NEW v, Confirmed(s, k, x, r, v)
    PROVE  /\ k <= n => Confirmed(u, k, x, r, v)
           /\ k >= n /\ m.type # "bootstrap" => Confirmed(u, k + 1, x, r, v)
<1>0. /\ n \in Nat /\ n <= Len(s) /\ Len(u) = Len(s) + 1 /\ u[n + 1] = m
      /\ \A i \in 1..Len(u) : i # n + 1 => From(i, n) \in 1..Len(s) /\ u[i] = s[From(i, n)]
      /\ \A i \in 1..Len(s) : \E l \in {i, i + 1} : l \in 1..Len(u) /\ u[l] = s[i] /\ From(l, n) = i /\ l # n + 1
  BY InsertFrom
<1>1. ASSUME k <= n PROVE Confirmed(u, k, x, r, v)
  <2>1. \A i \in 1..k : u[i] = s[i]
    BY <1>0, <1>1 DEF Inserted
  <2> QED
    BY <2>1 DEF Confirmed
<1>2. ASSUME k >= n, m.type # "bootstrap" PROVE Confirmed(u, k + 1, x, r, v)
  <2>1. ASSUME NEW i \in 1..k, s[i].type \in Changes, s[i].seq >= v
        PROVE  \E j \in 1..k + 1 : u[j].type \in Changes /\ u[j].seq >= v
    <3>1. PICK l \in {i, i + 1} : l \in 1..Len(u) /\ u[l] = s[i]
      BY <1>0
    <3>2. l \in 1..k + 1
      BY <3>1
    <3> QED
      BY <2>1, <3>1, <3>2
  <2>2. ASSUME \A j \in 1..k : s[j].type # "bootstrap"
        PROVE  \A j \in 1..k + 1 : u[j].type # "bootstrap"
    <3> SUFFICES ASSUME NEW j \in 1..k + 1, j # n + 1 PROVE u[j].type # "bootstrap"
      BY <1>0, <1>2
    <3>1. j \in 1..Len(u) /\ From(j, n) \in 1..k
      BY <1>0, <1>2 DEF From
    <3> QED
      BY <1>0, <2>2, <3>1
  <2> QED
    BY <2>1, <2>2 DEF Confirmed
<1> QED
  BY <1>1, <1>2

(* The end may be anything but what changes the cursor out of place.       *)
LEMMA InsertAnswers ==
    ASSUME NEW s, NEW u, NEW n, NEW m, Len(s) \in Nat, Inserted(u, s, n, m),
           NEW x, NEW r, AnswersConfirmed(s, x, r),
           n = Len(s) \/ m.type # "bootstrap",
           m.type = "layoutApplied" => Confirmed(s, n, x, r, m.seq)
    PROVE  AnswersConfirmed(u, x, r)
<1>0. /\ n \in Nat /\ n <= Len(s) /\ Len(u) = Len(s) + 1 /\ u[n + 1] = m
      /\ \A i \in 1..Len(u) : i # n + 1 => From(i, n) \in 1..Len(s) /\ u[i] = s[From(i, n)]
  BY InsertFrom
<1> SUFFICES ASSUME NEW i \in 1..Len(u), u[i].type = "layoutApplied"
             PROVE  Confirmed(u, i - 1, x, r, u[i].seq)
  BY DEF AnswersConfirmed
<1>1. CASE i = n + 1
  BY <1>0, <1>1, InsertConfirmed
<1>2. CASE i < n + 1
  BY <1>0, <1>2, InsertConfirmed DEF From, AnswersConfirmed
<1>3. CASE i > n + 1
  <2>1. u[i] = s[i - 1] /\ i - 1 \in 1..Len(s) /\ i - 2 \in 0..Len(s) /\ i - 2 >= n
    BY <1>0, <1>3 DEF From
  <2>2. Confirmed(s, i - 2, x, r, s[i - 1].seq)
    BY <2>1 DEF AnswersConfirmed
  <2>3. m.type # "bootstrap"
    BY <1>0, <1>3
  <2>4. Confirmed(u, (i - 2) + 1, x, r, s[i - 1].seq)
    BY <2>1, <2>2, <2>3, InsertConfirmed
  <2>5. (i - 2) + 1 = i - 1
    OBVIOUS
  <2> QED
    BY <2>1, <2>4, <2>5
<1> QED
  BY <1>0, <1>1, <1>2, <1>3

-----------------------------------------------------------------------------
(* Cutting off the end.                                                    *)

LEMMA BeginningConcat ==
    ASSUME NEW a \in Seq(Frames), NEW b \in Seq(Frames)
    PROVE  Begins(a, a \o b)
BY ConcatIndex DEF Begins

LEMMA BeginsTransitive ==
    ASSUME NEW a \in Seq(Frames), NEW b \in Seq(Frames), NEW c \in Seq(Frames),
           Begins(a, b), Begins(b, c)
    PROVE  Begins(a, c)
BY DEF Begins

LEMMA BeginningKeeps ==
    ASSUME NEW s \in Seq(Frames), NEW t \in Seq(Frames), Begins(t, s)
    PROVE  /\ \A v : Bounded(s, v) => Bounded(t, v)
           /\ \A x : Ordered(s, x) => Ordered(t, x)
           /\ \A types : NoneOf(s, types) => NoneOf(t, types)
           /\ Paused(s) => Paused(t)
           /\ \A x, r : AnswersConfirmed(s, x, r) => AnswersConfirmed(t, x, r)
<1>1. Len(s) \in Nat /\ Len(t) \in Nat /\ Len(t) <= Len(s) /\ \A i \in 1..Len(t) : t[i] = s[i]
  BY DEF Begins
<1>2. ASSUME NEW v, Bounded(s, v) PROVE Bounded(t, v)
  BY <1>1, <1>2 DEF Bounded
<1>3. ASSUME NEW x, Ordered(s, x) PROVE Ordered(t, x)
  BY <1>1, <1>3 DEF Ordered
<1>4. ASSUME NEW types, NoneOf(s, types) PROVE NoneOf(t, types)
  BY <1>1, <1>4 DEF NoneOf
<1>5. ASSUME Paused(s) PROVE Paused(t)
  <2> SUFFICES ASSUME NEW i \in 1..Len(t), NEW j \in i + 1..Len(t),
                      t[i].type = "lagged", t[j].type = "event"
               PROVE  \E k \in i + 1..j - 1 : t[k].type = "bootstrap"
    BY DEF Paused
  <2>1. PICK k \in i + 1..j - 1 : s[k].type = "bootstrap"
    BY <1>1, <1>5 DEF Paused
  <2>2. k \in 1..Len(t)
    BY <1>1
  <2> QED
    BY <1>1, <2>1, <2>2
<1>6. ASSUME NEW x, NEW r, AnswersConfirmed(s, x, r) PROVE AnswersConfirmed(t, x, r)
  BY <1>1, <1>6 DEF AnswersConfirmed, Confirmed
<1> QED
  BY <1>2, <1>3, <1>4, <1>5, <1>6

LEMMA EmptyChain ==
    /\ \A v : Bounded(<<>>, v)
    /\ \A x : Ordered(<<>>, x)
    /\ \A types : NoneOf(<<>>, types)
    /\ Paused(<<>>) /\ Recovered(<<>>) /\ Told(<<>>, FALSE) /\ LagSaid(<<>>, FALSE)
    /\ \A x, r : AnswersConfirmed(<<>>, x, r)
BY DEF Bounded, Ordered, NoneOf, Paused, Recovered, Told, LagSaid, AnswersConfirmed

(* What a lagged writer has left says that it has lagged.                  *)
LEMMA LagTold ==
    ASSUME NEW a \in Seq(Frames), NEW b \in Seq(Frames), NEW believes,
           LagSaid(a, believes), NoneOf(b, {"subscribed"})
    PROVE  Told(a \o b, believes)
<1>1. /\ Len(a \o b) = Len(a) + Len(b) /\ Len(a) \in Nat /\ Len(b) \in Nat
      /\ \A i \in 1..Len(a) : (a \o b)[i] = a[i]
      /\ \A i \in 1..Len(b) : (a \o b)[Len(a) + i] = b[i]
  BY ConcatIndex
<1>2. ASSUME NEW i \in 1..Len(a \o b), (a \o b)[i].type = "subscribed" PROVE i < Len(a)
  BY <1>1, <1>2 DEF NoneOf, LagSaid
<1>3. CASE a = <<>>
  BY <1>1, <1>2, <1>3 DEF LagSaid, Told
<1>4. CASE a # <<>>
  <2>1. Len(a) >= 1 /\ a[Len(a)].type = "lagged"
    BY <1>4 DEF LagSaid
  <2>2. Len(a) \in 1..Len(a \o b) /\ (a \o b)[Len(a)].type \in Notices
    BY <1>1, <2>1 DEF Notices
  <2>3. ASSUME NEW i \in 1..Len(a \o b), (a \o b)[i].type = "subscribed"
        PROVE  Len(a) \in i + 1..Len(a \o b)
    BY <1>1, <1>2, <2>3
  <2> QED
    BY <2>2, <2>3 DEF Told
<1> QED
  BY <1>3, <1>4

-----------------------------------------------------------------------------
(* Reading the first frame.                                                *)

(* What reading m does to a cursor x and an awaited Bootstrap r.           *)
ReadOf(m, x, r, x2, r2) ==
    /\ x2 = CursorAfter(x, m)
    /\ m.type # "bootstrap" /\ r => r2
    /\ m.type = "event" /\ m.seq > x + 1 => r2

LEMMA TailIndex ==
    ASSUME NEW s \in Seq(Frames), s # <<>>
    PROVE  /\ Tail(s) \in Seq(Frames) /\ Head(s) = s[1] /\ s[1] \in Frames
           /\ Len(s) \in Nat /\ Len(s) >= 1 /\ Len(Tail(s)) = Len(s) - 1
           /\ \A i \in 1..Len(Tail(s)) : Tail(s)[i] = s[i + 1]
           /\ \A i \in 2..Len(s) : s[i] = Tail(s)[i - 1]
OBVIOUS

LEMMA TailKeeps ==
    ASSUME NEW s \in Seq(Frames), s # <<>>
    PROVE  /\ \A v : Bounded(s, v) => Bounded(Tail(s), v)
           /\ \A types : NoneOf(s, types) => NoneOf(Tail(s), types)
           /\ Paused(s) => Paused(Tail(s))
           /\ Recovered(s) => Recovered(Tail(s))
<1> DEFINE t == Tail(s)
<1>0. /\ Len(s) \in Nat /\ Len(s) >= 1 /\ Len(t) = Len(s) - 1
      /\ \A i \in 1..Len(t) : t[i] = s[i + 1]
      /\ \A i \in 2..Len(s) : s[i] = t[i - 1]
  BY TailIndex
<1> HIDE DEF t
<1>1. ASSUME NEW v, Bounded(s, v) PROVE Bounded(t, v)
  BY <1>0, <1>1 DEF Bounded
<1>2. ASSUME NEW types, NoneOf(s, types) PROVE NoneOf(t, types)
  BY <1>0, <1>2 DEF NoneOf
<1>3. ASSUME Paused(s) PROVE Paused(t)
  <2> SUFFICES ASSUME NEW i \in 1..Len(t), NEW j \in i + 1..Len(t),
                      t[i].type = "lagged", t[j].type = "event"
               PROVE  \E k \in i + 1..j - 1 : t[k].type = "bootstrap"
    BY DEF Paused
  <2>1. i + 1 \in 1..Len(s) /\ j + 1 \in (i + 1) + 1..Len(s) /\ t[i] = s[i + 1] /\ t[j] = s[j + 1]
    BY <1>0
  <2>2. PICK k \in (i + 1) + 1..(j + 1) - 1 : s[k].type = "bootstrap"
    BY <1>3, <2>1 DEF Paused
  <2>3. k - 1 \in i + 1..j - 1 /\ s[k] = t[k - 1]
    BY <1>0, <2>1, <2>2
  <2> QED
    BY <2>2, <2>3
<1>4. ASSUME Recovered(s) PROVE Recovered(t)
  <2> SUFFICES ASSUME NEW i \in 1..Len(t), t[i].type = "lagged"
               PROVE  \E j \in i + 1..Len(t) : t[j].type = "bootstrap"
    BY DEF Recovered
  <2>1. i + 1 \in 1..Len(s) /\ t[i] = s[i + 1]
    BY <1>0
  <2>2. PICK j \in (i + 1) + 1..Len(s) : s[j].type = "bootstrap"
    BY <1>4, <2>1 DEF Recovered
  <2>3. j - 1 \in i + 1..Len(t) /\ s[j] = t[j - 1]
    BY <1>0, <2>1, <2>2
  <2> QED
    BY <2>2, <2>3
<1> QED
  BY <1>1, <1>2, <1>3, <1>4 DEF t

LEMMA TailOrdered ==
    ASSUME NEW s \in Seq(Frames), s # <<>>, NEW x, Ordered(s, x),
           NEW x2, x2 = x \/ (x2 = s[1].seq /\ s[1].type \in Changes)
    PROVE  Ordered(Tail(s), x2)
BY TailIndex DEF Ordered

LEMMA TailTold ==
    ASSUME NEW s \in Seq(Frames), s # <<>>, NEW believes, Told(s, believes),
           NEW after, after => believes \/ s[1].type = "subscribed",
           s[1].type \in Notices => ~after
    PROVE  Told(Tail(s), after)
<1> DEFINE t == Tail(s)
<1>0. /\ Len(s) \in Nat /\ Len(s) >= 1 /\ Len(t) = Len(s) - 1
      /\ \A i \in 1..Len(t) : t[i] = s[i + 1]
      /\ \A i \in 2..Len(s) : s[i] = t[i - 1]
  BY TailIndex
<1> HIDE DEF t
<1>1. ASSUME after PROVE \E i \in 1..Len(t) : t[i].type \in Notices
  <2>1. PICK i \in 1..Len(s) : s[i].type \in Notices
    <3>1. 1 \in 1..Len(s) /\ \A j \in 1 + 1..Len(s) : j \in 1..Len(s)
      BY <1>0
    <3> QED
      BY <1>1, <3>1 DEF Told
  <2>2. i # 1
    BY <1>1, <2>1
  <2>3. i - 1 \in 1..Len(t) /\ i \in 2..Len(s)
    BY <1>0, <2>1, <2>2
  <2> QED
    BY <1>0, <2>1, <2>3
<1>2. ASSUME NEW i \in 1..Len(t), t[i].type = "subscribed"
      PROVE  \E j \in i + 1..Len(t) : t[j].type \in Notices
  <2>1. i + 1 \in 1..Len(s) /\ s[i + 1].type = "subscribed"
    BY <1>0, <1>2
  <2>2. PICK j \in (i + 1) + 1..Len(s) : s[j].type \in Notices
    BY <2>1 DEF Told
  <2>3. j - 1 \in i + 1..Len(t) /\ j \in 2..Len(s)
    BY <1>0, <2>2
  <2> QED
    BY <1>0, <2>2, <2>3
<1> QED
  BY <1>1, <1>2 DEF Told, t

LEMMA TailConfirmed ==
    ASSUME NEW s \in Seq(Frames), s # <<>>, NEW k \in 1..Len(s),
           NEW x \in Nat, NEW r \in BOOLEAN, NEW x2 \in Nat, NEW r2 \in BOOLEAN,
           NEW v \in Nat, Ordered(s, x), ReadOf(s[1], x, r, x2, r2), Confirmed(s, k, x, r, v)
    PROVE  Confirmed(Tail(s), k - 1, x2, r2, v)
<1> DEFINE t == Tail(s)
<1>0. /\ Len(s) \in Nat /\ Len(s) >= 1 /\ Len(t) = Len(s) - 1 /\ s[1] \in Frames
      /\ \A i \in 1..Len(t) : t[i] = s[i + 1]
      /\ \A i \in 2..Len(s) : s[i] = t[i - 1]
  BY TailIndex
<1> SUFFICES Confirmed(t, k - 1, x2, r2, v)
  OBVIOUS
<1> HIDE DEF t
<1>1. s[1].seq \in Nat
  BY <1>0 DEF Frames
<1>2. x2 >= x
  BY <1>0, <1>1 DEF Ordered, ReadOf, CursorAfter
<1>3. CASE x >= v
  BY <1>2, <1>3 DEF Confirmed
<1>4. ASSUME NEW j \in 2..k, s[j].type \in Changes, s[j].seq >= v
      PROVE  Confirmed(t, k - 1, x2, r2, v)
  BY <1>0, <1>4 DEF Confirmed
<1>5. CASE s[1].type \in Changes /\ s[1].seq >= v /\ x < v
  <2>1. CASE s[1].type = "bootstrap" \/ s[1].seq = x + 1
    BY <1>1, <1>5, <2>1 DEF ReadOf, CursorAfter, Confirmed, Changes
  <2>2. CASE s[1].type = "event" /\ s[1].seq # x + 1
    <3>1. r2
      BY <1>1, <1>5, <2>2 DEF ReadOf
    <3>2. CASE \A j \in 1..k - 1 : t[j].type # "bootstrap"
      BY <3>1, <3>2 DEF Confirmed
    <3>3. ASSUME NEW j \in 1..k - 1, t[j].type = "bootstrap" PROVE Confirmed(t, k - 1, x2, r2, v)
      <4>1. j + 1 \in 1..Len(s) /\ t[j] = s[j + 1] /\ 1 \in 1..(j + 1) - 1
        BY <1>0
      <4>2. s[1].seq <= s[j + 1].seq
        BY <1>5, <3>3, <4>1 DEF Ordered
      <4>3. s[j + 1].seq \in Nat
        <5>1. s[j + 1] \in Frames
          BY <4>1
        <5> QED
          BY <5>1 DEF Frames
      <4>4. t[j].seq >= v /\ t[j].type \in Changes
        BY <1>1, <1>5, <3>3, <4>1, <4>2, <4>3 DEF Changes
      <4> QED
        BY <4>4 DEF Confirmed
    <3> QED
      BY <3>2, <3>3
  <2> QED
    BY <1>5, <2>1, <2>2 DEF Changes
<1>6. CASE r /\ \A j \in 1..k : s[j].type # "bootstrap"
  <2>1. r2 /\ \A j \in 1..k - 1 : t[j].type # "bootstrap"
    <3>1. 1 \in 1..k
      BY <1>0
    <3>2. r2
      BY <1>6, <3>1 DEF ReadOf
    <3>3. ASSUME NEW j \in 1..k - 1 PROVE t[j].type # "bootstrap"
      <4>1. j + 1 \in 1..k /\ t[j] = s[j + 1]
        BY SMTT(30), <1>0
      <4> QED
        BY <1>6, <4>1
    <3> QED
      BY <3>2, <3>3
  <2> QED
    BY <2>1 DEF Confirmed
<1>7. CASE \E j \in 1..k : s[j].type \in Changes /\ s[j].seq >= v
  BY <1>7, <1>3, <1>5, <1>4
<1> QED
  BY <1>3, <1>6, <1>7 DEF Confirmed

LEMMA TailAnswers ==
    ASSUME NEW s \in Seq(Frames), s # <<>>,
           NEW x \in Nat, NEW r \in BOOLEAN, NEW x2 \in Nat, NEW r2 \in BOOLEAN,
           Ordered(s, x), ReadOf(s[1], x, r, x2, r2), AnswersConfirmed(s, x, r)
    PROVE  AnswersConfirmed(Tail(s), x2, r2)
<1>0. /\ Len(s) \in Nat /\ Len(s) >= 1 /\ Len(Tail(s)) = Len(s) - 1
      /\ \A i \in 1..Len(Tail(s)) : Tail(s)[i] = s[i + 1]
  BY TailIndex
<1> SUFFICES ASSUME NEW i \in 1..Len(Tail(s)), Tail(s)[i].type = "layoutApplied"
             PROVE  Confirmed(Tail(s), i - 1, x2, r2, Tail(s)[i].seq)
  BY DEF AnswersConfirmed
<1>1. i + 1 \in 1..Len(s) /\ Tail(s)[i] = s[i + 1] /\ i \in 1..Len(s) /\ (i + 1) - 1 = i
  BY <1>0
<1>2. Confirmed(s, i, x, r, s[i + 1].seq)
  BY <1>1 DEF AnswersConfirmed
<1>3. s[i + 1].seq \in Nat
  <2>1. s[i + 1] \in Frames
    BY <1>1
  <2> QED
    BY <2>1 DEF Frames
<1>4. Confirmed(Tail(s), i - 1, x2, r2, s[i + 1].seq)
  BY <1>1, <1>2, <1>3, TailConfirmed
<1> QED
  BY <1>1, <1>4

-----------------------------------------------------------------------------
(* Reading a whole chain.                                                  *)

(* Replayed's cursor, as a function of the frames read so far.             *)
Replays(f, s, x) ==
    /\ f \in [0..Len(s) -> Nat] /\ f[0] = x
    /\ \A i \in 1..Len(s) : f[i] = CursorAfter(f[i - 1], s[i])

LEMMA CursorIsNumber ==
    ASSUME NEW x \in Nat, NEW m \in Frames
    PROVE  CursorAfter(x, m) \in Nat
BY DEF CursorAfter, Frames

LEMMA FrameAt ==
    ASSUME NEW s \in Seq(Frames), NEW i \in 1..Len(s)
    PROVE  s[i] \in Frames
OBVIOUS

LEMMA ReplayedIs ==
    ASSUME NEW s \in Seq(Frames), NEW x \in Nat
    PROVE  \E f : Replays(f, s, x) /\ Replayed(s, x) = f[Len(s)]
<1> DEFINE n == Len(s)
           Upto(f) == f = [i \in 0..n |-> IF i = 0 THEN x ELSE CursorAfter(f[i - 1], s[i])]
           step == [i \in 1..n |-> [v \in Nat |-> CursorAfter(v, s[i])]]
<1>1. IsStep(step, n, Nat) /\ \A i \in 1..n : \A v \in Nat : step[i][v] = CursorAfter(v, s[i])
  BY FrameAt, CursorIsNumber DEF IsStep
<1>2. PICK g : Recurses(g, n, Nat, x, step)
  <2>1. n \in Nat
    OBVIOUS
  <2> HIDE DEF step, n
  <2> QED
    BY <1>1, <2>1, RecursionDefines
<1>3. Replays(g, s, x)
  <2>1. g \in [0..n -> Nat] /\ g[0] = x /\ \A i \in 1..n : g[i] = step[i][g[i - 1]]
    BY <1>2 DEF Recurses
  <2>2. ASSUME NEW i \in 1..n PROVE g[i] = CursorAfter(g[i - 1], s[i])
    BY <2>1, <1>1
  <2> QED
    BY <2>1, <2>2 DEF Replays
<1>4. Upto(g)
  BY <1>3 DEF Replays
<1> DEFINE f == CHOOSE f : Upto(f)
<1>5. Upto(f)
  BY <1>4
<1>6. Replayed(s, x) = f[n]
  BY DEF Replayed
<1> HIDE DEF f
<1>7. AgreeStepwise(f, g, n)
  BY <1>5, <1>3 DEF AgreeStepwise, Replays
<1>8. f[n] = g[n]
  BY <1>7, RecursionsAgree DEF Agree
<1> QED
  BY <1>3, <1>6, <1>8

LEMMA ReplayedIsNumber ==
    ASSUME NEW s \in Seq(Frames), NEW x \in Nat
    PROVE  Replayed(s, x) \in Nat
<1>1. PICK f : Replays(f, s, x) /\ Replayed(s, x) = f[Len(s)]
  BY ReplayedIs
<1> QED
  BY <1>1 DEF Replays

LEMMA ReplayEmpty ==
    ASSUME NEW x \in Nat PROVE Replayed(<<>>, x) = x
<1>1. <<>> \in Seq(Frames) /\ Len(<<>>) = 0
  OBVIOUS
<1>2. PICK f : Replays(f, <<>>, x) /\ Replayed(<<>>, x) = f[Len(<<>>)]
  BY <1>1, ReplayedIs
<1> QED
  BY <1>1, <1>2 DEF Replays

LEMMA ReplayConcat ==
    ASSUME NEW a \in Seq(Frames), NEW b \in Seq(Frames), NEW x \in Nat
    PROVE  Replayed(a \o b, x) = Replayed(b, Replayed(a, x))
<1> DEFINE s == a \o b
<1>0. /\ s \in Seq(Frames) /\ Len(s) = Len(a) + Len(b)
      /\ Len(a) \in Nat /\ Len(b) \in Nat
      /\ \A i \in 1..Len(a) : s[i] = a[i]
      /\ \A i \in 1..Len(b) : s[Len(a) + i] = b[i]
  BY ConcatIndex
<1> HIDE DEF s
<1>1. PICK f : Replays(f, s, x) /\ Replayed(s, x) = f[Len(s)]
  BY <1>0, ReplayedIs
<1>2. PICK g : Replays(g, a, x) /\ Replayed(a, x) = g[Len(a)]
  BY ReplayedIs
<1>3. f[Len(a)] = g[Len(a)]
  <2>1. AgreeStepwise(f, g, Len(a))
    BY <1>0, <1>1, <1>2 DEF AgreeStepwise, Replays
  <2>2. Agree(f, g, Len(a))
    BY <1>0, <2>1, RecursionsAgree
  <2> QED
    BY <1>0, <2>2 DEF Agree
<1>4. g[Len(a)] \in Nat
  BY <1>0, <1>2 DEF Replays
<1>5. PICK h : Replays(h, b, g[Len(a)]) /\ Replayed(b, g[Len(a)]) = h[Len(b)]
  BY <1>4, ReplayedIs
<1> DEFINE later == [i \in 0..Len(b) |-> f[Len(a) + i]]
<1>6. AgreeStepwise(later, h, Len(b))
  <2>1. later[0] = h[0]
    BY <1>0, <1>3, <1>5 DEF Replays
  <2>2. ASSUME NEW i \in 1..Len(b), later[i - 1] = h[i - 1] PROVE later[i] = h[i]
    <3>1. Len(a) + i \in 1..Len(s) /\ (Len(a) + i) - 1 = Len(a) + (i - 1)
      BY <1>0
    <3>2. f[Len(a) + i] = CursorAfter(f[Len(a) + (i - 1)], b[i])
      BY <1>0, <1>1, <3>1 DEF Replays
    <3>3. later[i] = f[Len(a) + i] /\ later[i - 1] = f[Len(a) + (i - 1)]
      BY <1>0
    <3>4. h[i] = CursorAfter(h[i - 1], b[i])
      BY <1>5 DEF Replays
    <3> HIDE DEF later
    <3> QED
      BY <2>2, <3>2, <3>3, <3>4
  <2> HIDE DEF later
  <2> QED
    BY <2>1, <2>2 DEF AgreeStepwise
<1>7. later[Len(b)] = h[Len(b)]
  BY <1>0, <1>6, RecursionsAgree DEF Agree
<1>8. later[Len(b)] = f[Len(s)]
  BY <1>0
<1> QED
  BY <1>1, <1>2, <1>3, <1>5, <1>7, <1>8 DEF s

LEMMA ReplayOne ==
    ASSUME NEW x \in Nat, NEW m \in Frames
    PROVE  Replayed(<<m>>, x) = CursorAfter(x, m)
<1>1. <<m>> \in Seq(Frames) /\ Len(<<m>>) = 1 /\ <<m>>[1] = m
  OBVIOUS
<1>2. PICK f : Replays(f, <<m>>, x) /\ Replayed(<<m>>, x) = f[Len(<<m>>)]
  BY <1>1, ReplayedIs
<1>3. f[1] = CursorAfter(f[1 - 1], <<m>>[1])
  BY <1>1, <1>2 DEF Replays
<1> QED
  BY <1>1, <1>2, <1>3 DEF Replays

LEMMA ReplayAppend ==
    ASSUME NEW s \in Seq(Frames), NEW m \in Frames, NEW x \in Nat
    PROVE  Replayed(Append(s, m), x) = CursorAfter(Replayed(s, x), m)
<1>1. Append(s, m) = s \o <<m>> /\ <<m>> \in Seq(Frames)
  BY AppendIsConcat
<1>2. Replayed(s \o <<m>>, x) = Replayed(<<m>>, Replayed(s, x))
  BY <1>1, ReplayConcat
<1>3. Replayed(s, x) \in Nat
  BY ReplayedIsNumber
<1>4. Replayed(<<m>>, Replayed(s, x)) = CursorAfter(Replayed(s, x), m)
  BY <1>3, ReplayOne
<1> QED
  BY <1>1, <1>2, <1>4

LEMMA ReplayTail ==
    ASSUME NEW s \in Seq(Frames), s # <<>>, NEW x \in Nat
    PROVE  Replayed(Tail(s), CursorAfter(x, s[1])) = Replayed(s, x)
<1>1. s = <<s[1]>> \o Tail(s) /\ <<s[1]>> \in Seq(Frames) /\ s[1] \in Frames /\ Tail(s) \in Seq(Frames)
  OBVIOUS
<1>2. Replayed(<<s[1]>> \o Tail(s), x) = Replayed(Tail(s), Replayed(<<s[1]>>, x))
  BY <1>1, ReplayConcat
<1> QED
  BY <1>1, <1>2, ReplayOne

(* A frame that is no change makes no difference wherever it is.           *)
LEMMA ReplayInsert ==
    ASSUME NEW a \in Seq(Frames), NEW b \in Seq(Frames), NEW m \in Frames, NEW x \in Nat,
           m.type \notin Changes
    PROVE  Replayed(Append(a, m) \o b, x) = Replayed(a \o b, x)
<1> DEFINE c == Append(a, m)
<1>1. c \in Seq(Frames)
  OBVIOUS
<1>2. Replayed(c, x) = Replayed(a, x)
  BY ReplayAppend DEF CursorAfter, Changes
<1> HIDE DEF c
<1>3. Replayed(c \o b, x) = Replayed(b, Replayed(c, x))
  BY <1>1, ReplayConcat
<1>4. Replayed(a \o b, x) = Replayed(b, Replayed(a, x))
  BY ReplayConcat
<1> QED
  BY <1>2, <1>3, <1>4 DEF c

LEMMA ReplayBounded ==
    ASSUME NEW s \in Seq(Frames), NEW x \in Nat, NEW v \in Nat, Bounded(s, v), x <= v
    PROVE  Replayed(s, x) <= v
<1>1. PICK f : Replays(f, s, x) /\ Replayed(s, x) = f[Len(s)]
  BY ReplayedIs
<1> DEFINE S == {i \in 0..Len(s) : f[i] <= v}
<1>2. 0 \in S
  BY <1>1 DEF Replays
<1>3. ASSUME NEW i \in 1..Len(s), i - 1 \in S PROVE i \in S
  BY <1>1, <1>3 DEF Replays, CursorAfter, Bounded
<1>4. Len(s) \in S
  <2> HIDE DEF S
  <2>1. Len(s) \in Nat
    OBVIOUS
  <2>2. 0..Len(s) \subseteq S
    BY <1>2, <1>3, <2>1, InductionTo
  <2> QED
    BY <2>1, <2>2
<1> QED
  BY <1>1, <1>4

LEMMA ReplayGrows ==
    ASSUME NEW s \in Seq(Frames), NEW x \in Nat, Ordered(s, x)
    PROVE  Replayed(s, x) >= x
<1>1. PICK f : Replays(f, s, x) /\ Replayed(s, x) = f[Len(s)]
  BY ReplayedIs
<1> DEFINE S == {i \in 0..Len(s) : f[i] >= x}
<1>2. 0 \in S
  BY <1>1 DEF Replays
<1>3. ASSUME NEW i \in 1..Len(s), i - 1 \in S PROVE i \in S
  BY <1>1, <1>3 DEF Replays, CursorAfter, Ordered
<1>4. Len(s) \in S
  <2> HIDE DEF S
  <2>1. Len(s) \in Nat
    OBVIOUS
  <2>2. 0..Len(s) \subseteq S
    BY <1>2, <1>3, <2>1, InductionTo
  <2> QED
    BY <2>1, <2>2
<1> QED
  BY <1>1, <1>4

(* The events from e on, read from anywhere among them, lead to their end. *)
EventsFrom(e, k) == [j \in 1..k |-> Event(e + j)]

LEMMA ReplayEvents ==
    ASSUME NEW e \in Nat, NEW k \in Nat, NEW x \in Nat, e <= x, x <= e + k
    PROVE  EventsFrom(e, k) \in Seq(Frames) /\ Replayed(EventsFrom(e, k), x) = e + k
<1> DEFINE s == EventsFrom(e, k)
<1>0. s \in Seq(Frames) /\ Len(s) = k /\ \A i \in 1..k : s[i].type = "event" /\ s[i].seq = e + i
  BY DEF Types, Event, Message, Frames, EventsFrom
<1> HIDE DEF s
<1>1. PICK f : Replays(f, s, x) /\ Replayed(s, x) = f[Len(s)]
  BY <1>0, ReplayedIs
<1> DEFINE S == {i \in 0..k : f[i] = IF e + i <= x THEN x ELSE e + i}
<1>2. 0 \in S
  BY <1>1 DEF Replays
<1>3. ASSUME NEW i \in 1..k, i - 1 \in S PROVE i \in S
  <2>1. f[i] = IF s[i].seq = f[i - 1] + 1 THEN s[i].seq ELSE f[i - 1]
    BY <1>0, <1>1 DEF Replays, CursorAfter
  <2>2. f[i - 1] = IF e + (i - 1) <= x THEN x ELSE e + (i - 1)
    BY <1>3
  <2>3. s[i].seq = e + i
    BY <1>0
  <2>4. CASE e + i <= x
    BY <2>1, <2>2, <2>3, <2>4
  <2>5. CASE e + i > x
    BY <2>2, <2>5, <2>1, <2>3
  <2> QED
    BY <2>4, <2>5
<1>4. k \in S
  <2> HIDE DEF S
  <2>1. 0..k \subseteq S
    BY <1>2, <1>3, InductionTo
  <2> QED
    BY <2>1
<1>5. f[k] = e + k
  BY <1>4
<1> QED
  BY <1>0, <1>1, <1>5 DEF s

-----------------------------------------------------------------------------
(* Locks, fences and connections.                                          *)

(* The pieces of what is in flight: what the Server is done with, and what *)
(* it still has to send.                                                   *)
Gone(c) == wire[c] \o writer[c].reliable

Looping(c) == IF sending.client = c /\ ~writer[c].lagged THEN sending.items ELSE <<>>
Captured(c) ==
    IF capture[c].stage \in {"captured", "reopened"} /\ sending.client # c
    THEN <<Bootstrap(capture[c].seq)>> \o deferred[c] ELSE <<>>
Due(c) == Looping(c) \o Captured(c)

-----------------------------------------------------------------------------
(* The invariant.  First, how locks, fences and connections fit together.  *)

(* The history is the end of the sequence.                                 *)
History ==
    /\ Len(events) <= sequence
    /\ \A i \in 1..Len(events) : events[i] = (sequence - Len(events)) + i
    /\ events = <<>> => sequence = 0
    /\ sending.client = NoClient => sending = Idle

(* Who is fenced has a Bootstrap on the way, and only events behind it.    *)
FenceOk(c) ==
    /\ c \in fenced => capture[c].stage = "captured"
    /\ capture[c].stage = "captured" /\ c \in subscribers => c \in fenced
    /\ capture[c].stage = "reopened" => c \notin subscribers
    /\ c \notin fenced => deferred[c] = <<>>
    /\ \A i \in 1..Len(deferred[c]) : deferred[c][i].type = "event"

(* The loop under the state lock sends a Subscribe's answer or a Bootstrap.*)
LoopOk(c) ==
    sending.client = c =>
      /\ sending.items # <<>> /\ deferred[c] = <<>>
      /\ writer[c].alive /\ layout[c].stage # "answering"
      /\ \/ /\ capture[c].stage = "none"
            /\ \A i \in 1..Len(sending.items) :
                 sending.items[i].type \in {"event", "subscribed", "rejected"}
         \/ /\ capture[c].stage = "captured" /\ c \in fenced
            /\ \A i \in 1..Len(sending.items) : sending.items[i].type \in Changes

(* What a Client and its connection's thread may be doing when it is not   *)
(* connected, not up, or not a window.                                     *)
PhaseOk(c) ==
    /\ layout[c].stage = "answering" => capture[c].stage = "none"
    /\ writer[c].alive <=> client[c].phase # "down"
    /\ writer[c].lagged => writer[c].alive
    /\ client[c].phase = "down" =>
         /\ wire[c] = <<>> /\ writer[c].reliable = <<>>
         /\ capture[c].stage = "none" /\ client[c].out = <<>>
    /\ client[c].phase # "up" =>
         /\ c \notin subscribers /\ ~client[c].subscribed /\ layout[c].stage = "none"
         /\ \A i \in 1..Len(client[c].out) : client[c].out[i].type = "snapshot"
    /\ c \notin Guis =>
         /\ layout[c].stage = "none"
         /\ \A i \in 1..Len(client[c].out) : client[c].out[i].type # "layout"
    /\ c \notin Guis \/ client[c].phase # "up" =>
         NoneOf(wire[c], Answered) /\ NoneOf(writer[c].reliable, Answered)

Locks(c) == FenceOk(c) /\ LoopOk(c) /\ PhaseOk(c)
Base == TypeOK /\ History /\ \A c \in Clients : Locks(c)

(* A step that is none of c's business.                                    *)
Untouched(c) ==
    /\ wire'[c] = wire[c] /\ writer'[c] = writer[c] /\ capture'[c] = capture[c]
    /\ deferred'[c] = deferred[c] /\ layout'[c] = layout[c] /\ open'[c] = open[c]
    /\ client'[c] = client[c]
    /\ (c \in subscribers') <=> (c \in subscribers)
    /\ (c \in fenced') <=> (c \in fenced)
    /\ (sending'.client = c) <=> (sending.client = c)
    /\ sending.client = c => sending'.items = sending.items

-----------------------------------------------------------------------------
(* Types                                                                   *)

LEMMA LastIsNumber == TypeOK => Last \in Nat /\ spent.setting \in Setting
  BY StreamAssumption DEF TypeOK, Last, Setting

LEMMA MessagesAreFrames ==
    ASSUME TypeOK, NEW m \in Messages
    PROVE  m \in Frames /\ m.seq \in 0..Last
BY LastIsNumber, StreamAssumption DEF Event, Bootstrap, Subscribed, LayoutApplied, Message,
   Frames, Types, Rejected, SnapshotRejected, LayoutRejected, LagNotice, Messages

LEMMA ChainsAreFrames ==
    ASSUME TypeOK, NEW s \in Seq(Messages)
    PROVE  s \in Seq(Frames) /\ \A i \in 1..Len(s) : s[i] \in Messages /\ s[i].seq \in 0..Last
BY MessagesAreFrames

LEMMA MessageTypes ==
    /\ \A s \in 0..Last : {Event(s), Bootstrap(s), Subscribed(s), LayoutApplied(s)} \subseteq Messages
    /\ {Rejected, SnapshotRejected, LayoutRejected, LagNotice} \subseteq Messages
    /\ \A s \in 0..Last : Subscribe(s) \in Requests
    /\ {SnapshotRequest, Layout} \subseteq Requests
BY DEF Messages, Requests

(* The fields of each message.                                             *)
LEMMA MessageFields ==
    /\ \A s : /\ Event(s).type = "event" /\ Event(s).seq = s
              /\ Bootstrap(s).type = "bootstrap" /\ Bootstrap(s).seq = s
              /\ Subscribed(s).type = "subscribed" /\ Subscribed(s).seq = s
              /\ LayoutApplied(s).type = "layoutApplied" /\ LayoutApplied(s).seq = s
              /\ Subscribe(s).type = "subscribe" /\ Subscribe(s).seq = s
    /\ Rejected.type = "rejected" /\ Rejected.seq = 0
    /\ SnapshotRejected.type = "snapshotRejected" /\ SnapshotRejected.seq = 0
    /\ LayoutRejected.type = "layoutRejected" /\ LayoutRejected.seq = 0
    /\ LagNotice.type = "lagged" /\ LagNotice.seq = 0 /\ LagNotice.size = 1
    /\ SnapshotRequest.type = "snapshot" /\ Layout.type = "layout"
BY DEF Event, Bootstrap, Subscribed, LayoutApplied, Rejected, SnapshotRejected, LayoutRejected,
       LagNotice, Message, Subscribe, SnapshotRequest, Layout

(* The setting never changes, and the sets of values depend on it alone.   *)
LEMMA SettingStays == TypeOK /\ [Next]_vars => spent'.setting = spent.setting
<1> SUFFICES ASSUME TypeOK, [Next]_vars PROVE spent'.setting = spent.setting
  OBVIOUS
<1>1. spent \in [setting : Settings, gaps : Nat, layouts : Nat, failures : Nat, drops : Nat]
  BY DEF TypeOK
<1>2. ASSUME NEW c \in Clients, ConnectionStep(c) PROVE spent'.setting = spent.setting
  BY <1>1, <1>2
     DEF ConnectionStep, HandleSubscribe, BeginBootstrap, FinishFenced, FinishUnfenced, Reopen,
         AbortBootstrap, RejectBootstrap, CloseConnection, HandleLocalLayout, AnswerLocalLayout,
         RefuseLayout, StartExternalLayout, CommitExternalLayout, AnswerExternalLayout, WriterSend
<1>3. ASSUME NEW c \in Clients, ClientStep(c) PROVE spent'.setting = spent.setting
  BY <1>1, <1>3
     DEF ClientStep, ClientReceive, VisualGap, SendLayout, Connect, LoseConnection, ReadEnd
<1>4. CASE PublishBackground \/ SendNext \/ UNCHANGED vars
  BY <1>4 DEF PublishBackground, SendNext, vars
<1> QED
  BY <1>2, <1>3, <1>4 DEF Next

LEMMA SameTypes ==
    ASSUME spent'.setting = spent.setting
    PROVE  /\ Last' = Last /\ Messages' = Messages /\ Requests' = Requests
           /\ StreamQueues' = StreamQueues /\ ClientStates' = ClientStates
BY DEF Last, Messages, Requests, StreamQueues, ClientStates

-----------------------------------------------------------------------------
(* The writer's queue                                                      *)

(* A send is queued, refused by a queue that has lagged or is closed, or   *)
(* overflows the queue, which then holds the lag notice alone.             *)
SendEffect(q, m, q2) ==
    \/ /\ SentOk(q, m) /\ q.alive /\ ~q.lagged
       /\ q2.alive /\ ~q2.lagged /\ q2.reliable = Append(q.reliable, m)
    \/ /\ ~SentOk(q, m) /\ q2 = q /\ (q.lagged \/ ~q.alive)
    \/ /\ ~SentOk(q, m) /\ q.alive /\ ~q.lagged
       /\ q2.alive /\ q2.lagged /\ q2.reliable = <<LagNotice>>

LEMMA QueueFields ==
    ASSUME NEW q \in StreamQueues
    PROVE  /\ q.reliable \in Seq(Messages) /\ q.bytes \in 0..MaxBytes
           /\ q.lagged \in BOOLEAN /\ q.alive \in BOOLEAN
           /\ q.clipboard = <<>> /\ q.render = <<>>
BY DEF StreamQueues

LEMMA SendIs ==
    ASSUME TypeOK, NEW q \in StreamQueues, NEW m \in Messages
    PROVE  Sent(q, m) \in StreamQueues /\ SendEffect(q, m, Sent(q, m))
<1>1. q = [reliable |-> q.reliable, bytes |-> q.bytes, lagged |-> q.lagged,
           clipboard |-> q.clipboard, render |-> q.render, alive |-> q.alive]
  BY DEF StreamQueues
<1>2. m.size \in Nat /\ MaxBytes \in Nat \ {0} /\ LagNotice \in Messages /\ LagNotice.size = 1
  BY MessagesAreFrames, QueueAssumption, MessageTypes, MessageFields DEF Frames
<1>3. CASE Refusal(q) # "ok"
  BY <1>3, QueueFields DEF Sent, SentOk, SendResult, Refusal, SendEffect
<1>4. CASE Refusal(q) = "ok" /\ HasRoom(q, m.size)
  <2>1. q.alive /\ ~q.lagged /\ SentOk(q, m)
    BY <1>4, QueueFields DEF SentOk, SendResult, Refusal
  <2>2. Sent(q, m) = [q EXCEPT !.reliable = Append(@, m), !.bytes = @ + m.size]
    BY <1>4 DEF Sent
  <2>3. Append(q.reliable, m) \in Seq(Messages) /\ q.bytes + m.size \in 0..MaxBytes
    BY <1>2, <1>4, QueueFields DEF HasRoom
  <2>4. Sent(q, m) \in StreamQueues
    BY <2>2, <2>3 DEF StreamQueues
  <2>5. /\ Sent(q, m).alive = q.alive /\ Sent(q, m).lagged = q.lagged
        /\ Sent(q, m).reliable = Append(q.reliable, m)
    BY <2>2, <1>1
  <2> QED
    BY <2>1, <2>4, <2>5 DEF SendEffect
<1>5. CASE Refusal(q) = "ok" /\ ~HasRoom(q, m.size)
  <2>1. q.alive /\ ~q.lagged /\ ~SentOk(q, m)
    BY <1>5, QueueFields DEF SentOk, SendResult, Refusal
  <2>2. Sent(q, m) = [q EXCEPT !.reliable = <<LagNotice>>, !.bytes = LagNotice.size,
                               !.clipboard = <<>>, !.render = <<>>, !.lagged = TRUE]
    BY <1>5 DEF Sent, Overflowed
  <2>3. <<LagNotice>> \in Seq(Messages) /\ LagNotice.size \in 0..MaxBytes
    BY <1>2
  <2>4. Sent(q, m) \in StreamQueues
    BY <2>2, <2>3 DEF StreamQueues
  <2>5. /\ Sent(q, m).alive = q.alive /\ Sent(q, m).lagged = TRUE
        /\ Sent(q, m).reliable = <<LagNotice>>
    BY <2>2, <1>1
  <2> QED
    BY <2>1, <2>4, <2>5 DEF SendEffect
<1> QED
  BY <1>3, <1>4, <1>5

LEMMA ReceiveIs ==
    ASSUME TypeOK, NEW q \in StreamQueues
    PROVE  /\ HasItem(q) <=> q.reliable # <<>>
           /\ q.reliable # <<>> =>
                /\ AfterReceive(q) \in StreamQueues /\ Received(q) = Head(q.reliable)
                /\ Received(q) \in Messages
                /\ AfterReceive(q).reliable = Tail(q.reliable)
                /\ AfterReceive(q).alive = q.alive /\ AfterReceive(q).lagged = q.lagged
<1>1. HasItem(q) <=> q.reliable # <<>>
  BY QueueFields DEF HasItem
<1> SUFFICES ASSUME q.reliable # <<>>
             PROVE  /\ AfterReceive(q) \in StreamQueues /\ Received(q) = Head(q.reliable)
                    /\ Received(q) \in Messages
                    /\ AfterReceive(q).reliable = Tail(q.reliable)
                    /\ AfterReceive(q).alive = q.alive /\ AfterReceive(q).lagged = q.lagged
  BY <1>1
<1>2. Head(q.reliable) \in Messages /\ Tail(q.reliable) \in Seq(Messages)
  BY QueueFields
<1>3. Head(q.reliable).size \in Nat
  BY <1>2, MessagesAreFrames DEF Frames
<1>4. Saturating(q.bytes, Head(q.reliable).size) \in 0..MaxBytes
  BY <1>3, QueueFields, QueueAssumption DEF Saturating
<1>5. AfterReceive(q) = [q EXCEPT !.reliable = Tail(q.reliable),
                                  !.bytes = Saturating(q.bytes, Head(q.reliable).size)]
  BY DEF AfterReceive
<1>6. AfterReceive(q) \in StreamQueues
  BY <1>2, <1>4, <1>5 DEF StreamQueues
<1>7. /\ AfterReceive(q).reliable = Tail(q.reliable)
      /\ AfterReceive(q).alive = q.alive /\ AfterReceive(q).lagged = q.lagged
  BY <1>5 DEF StreamQueues
<1>8. Received(q) = Head(q.reliable)
  BY DEF Received
<1> QED
  BY <1>2, <1>6, <1>7, <1>8

LEMMA ResumeIs ==
    ASSUME NEW q \in StreamQueues
    PROVE  /\ Resumed(q) \in StreamQueues /\ Resumed(q).reliable = q.reliable
           /\ Resumed(q).alive = q.alive /\ ~Resumed(q).lagged
           /\ Closed(q) \in StreamQueues /\ Closed(q).reliable = <<>>
           /\ ~Closed(q).alive /\ ~Closed(q).lagged
<1>1. q = [reliable |-> q.reliable, bytes |-> q.bytes, lagged |-> q.lagged,
           clipboard |-> q.clipboard, render |-> q.render, alive |-> q.alive]
  BY DEF StreamQueues
<1>2. /\ Closed(q) \in StreamQueues /\ Closed(q).reliable = <<>>
      /\ ~Closed(q).alive /\ ~Closed(q).lagged
  <2>1. 0 \in 0..MaxBytes /\ <<>> \in Seq(Messages)
    BY QueueAssumption
  <2>2. Closed(q) \in StreamQueues
    BY <2>1 DEF StreamQueues, Closed
  <2>3. Closed(q).reliable = <<>>
    BY DEF StreamQueues, Closed
  <2>4. ~Closed(q).alive /\ ~Closed(q).lagged
    BY DEF StreamQueues, Closed
  <2> QED
    BY <2>2, <2>3, <2>4
<1>3. CASE ~q.lagged
  BY <1>2, <1>3 DEF Resumed
<1>4. CASE q.lagged
  BY <1>1, <1>4, QueueFields, <1>2 DEF Resumed, StreamQueues
<1> QED
  BY <1>3, <1>4

LEMMA NewIs ==
    /\ NewQueue \in StreamQueues /\ NewQueue.reliable = <<>>
    /\ NewQueue.alive /\ ~NewQueue.lagged
BY QueueAssumption DEF StreamQueues, NewQueue

-----------------------------------------------------------------------------
(* What a Subscribe is answered                                            *)

(* The numbers behind "after", up to e.                                    *)
Span(after, e) == [j \in 1..e - after |-> after + j]

LEMMA SpanIs ==
    ASSUME NEW after \in Nat, NEW e \in Nat
    PROVE  /\ e <= after => Span(after, e) = <<>>
           /\ e > after => Span(after, e) = Append(Span(after, e - 1), e)
BY DEF Span

(* The kept events of the first i in the history, none of which is older   *)
(* than the cursor "after".                                                *)
LEMMA MissedIs ==
    ASSUME TypeOK, History, NEW after \in 0..sequence, ~CursorExpired(after)
    PROVE  Missed(after) = Span(after, sequence)
<1> DEFINE n == Len(events)
           base == sequence - n
           steps == [i \in 1..n |-> [v \in Seq(Nat) |-> IF events[i] > after THEN Append(v, events[i]) ELSE v]]
           Upto(f) == f = [i \in 0..n |->
                             IF i = 0 THEN <<>>
                             ELSE IF events[i] > after THEN Append(f[i - 1], events[i]) ELSE f[i - 1]]
<1>1. /\ sequence \in Nat /\ n \in Nat /\ base \in Nat /\ sequence = base + n
      /\ \A i \in 1..n : events[i] = base + i
  BY LastIsNumber DEF TypeOK, History
<1>2. base <= after
  <2>1. CASE events = <<>>
    BY <1>1, <2>1 DEF History
  <2>2. CASE events # <<>>
    <3>1. Head(events) = events[1] /\ 1 \in 1..n
      BY <2>2 DEF TypeOK
    <3>2. events[1] = base + 1
      BY <1>1, <3>1
    <3> QED
      BY <1>1, <2>2, <3>1, <3>2 DEF CursorExpired
  <2> QED
    BY <2>1, <2>2
<1>3. /\ IsStep(steps, n, Seq(Nat))
      /\ \A i \in 1..n : \A v \in Seq(Nat) :
           steps[i][v] = IF events[i] > after THEN Append(v, events[i]) ELSE v
  BY <1>1 DEF IsStep
<1>4. PICK g : Recurses(g, n, Seq(Nat), <<>>, steps)
  <2>1. <<>> \in Seq(Nat) /\ n \in Nat
    BY <1>1
  <2> HIDE DEF steps, n
  <2> QED
    BY <1>3, <2>1, RecursionDefines
<1>5. /\ g \in [0..n -> Seq(Nat)] /\ g[0] = <<>>
      /\ \A i \in 1..n : g[i] = IF events[i] > after THEN Append(g[i - 1], events[i]) ELSE g[i - 1]
  <2>1. g \in [0..n -> Seq(Nat)] /\ g[0] = <<>> /\ \A i \in 1..n : g[i] = steps[i][g[i - 1]]
    BY <1>4 DEF Recurses
  <2>2. ASSUME NEW i \in 1..n
        PROVE g[i] = IF events[i] > after THEN Append(g[i - 1], events[i]) ELSE g[i - 1]
    <3>1. i - 1 \in 0..n
      BY <1>1
    <3>2. g[i - 1] \in Seq(Nat)
      BY <2>1, <3>1
    <3> HIDE DEF steps, n
    <3> QED
      BY <1>3, <2>1, <3>2
  <2> QED
    BY <2>1, <2>2
<1>6. Upto(g)
  <2>1. g = [i \in 0..n |-> g[i]]
    BY <1>5
  <2>2. ASSUME NEW i \in 0..n
        PROVE g[i] = IF i = 0 THEN <<>>
                     ELSE IF events[i] > after THEN Append(g[i - 1], events[i]) ELSE g[i - 1]
    <3> HIDE DEF n
    <3>1. CASE i = 0
      BY <1>5, <3>1
    <3>2. CASE i # 0
      <4>1. i \in 1..n
        BY <1>1, <3>2
      <4> QED
        BY <1>5, <3>2, <4>1
    <3> QED
      BY <3>1, <3>2
  <2> HIDE DEF n
  <2> QED
    BY <2>1, <2>2
<1> DEFINE f == CHOOSE f : Upto(f)
<1>7. Upto(f)
  BY <1>6
<1>8. Missed(after) = f[n]
  BY DEF Missed
<1> HIDE DEF f
<1>9. f[n] = g[n]
  <2>1. \A i \in 0..n : f[i] = IF i = 0 THEN <<>>
                               ELSE IF events[i] > after THEN Append(f[i - 1], events[i]) ELSE f[i - 1]
    BY <1>7
  <2>2. AgreeStepwise(f, g, n)
    BY <1>1, <2>1, <1>5 DEF AgreeStepwise
  <2> HIDE DEF n
  <2>3. Agree(f, g, n)
    BY <1>1, <2>2, RecursionsAgree
  <2> QED
    BY <1>1, <2>3 DEF Agree
<1> DEFINE S == {i \in 0..n : g[i] = Span(after, base + i)}
<1> HIDE DEF base, n
<1>10. 0 \in S
  BY <1>1, <1>2, SpanIs, <1>5
<1>11. ASSUME NEW i \in 1..n, i - 1 \in S PROVE i \in S
  <2> DEFINE e == base + i
  <2>1. events[i] = e /\ i \in 0..n /\ e \in Nat /\ base + (i - 1) = e - 1 /\ e - 1 \in Nat
    BY <1>1
  <2>2. g[i - 1] = Span(after, e - 1)
    BY <1>11, <2>1
  <2> HIDE DEF e
  <2>3. g[i] = IF e > after THEN Append(Span(after, e - 1), e) ELSE Span(after, e - 1)
    BY <1>5, <2>1, <2>2
  <2>4. g[i] = Span(after, e)
    BY <2>1, <1>1, SpanIs, <2>3
  <2> QED
    BY <2>1, <2>4 DEF e
<1>12. n \in S
  <2> HIDE DEF S
  <2>1. 0..n \subseteq S
    BY <1>1, <1>10, <1>11, InductionTo
  <2> QED
    BY <1>1, <2>1
<1> QED
  BY <1>1, <1>8, <1>9, <1>12

(* The events after the cursor, and the sequence they lead to.             *)
SubscribeAnswer(after) == EventsFrom(after, sequence - after) \o <<Subscribed(sequence)>>

LEMMA SubscribeItems ==
    ASSUME TypeOK, History, NEW after \in 0..sequence, ~CursorExpired(after)
    PROVE  /\ [i \in DOMAIN Missed(after) |-> Event(Missed(after)[i])] \o <<Subscribed(sequence)>>
                = SubscribeAnswer(after)
           /\ EventsFrom(after, sequence - after) \in Seq(Messages)
           /\ SubscribeAnswer(after) \in Seq(Messages)
<1> DEFINE k == sequence - after
<1>1. k \in Nat /\ after \in Nat /\ sequence \in 0..Last /\ Last \in Nat /\ after + k = sequence
  BY LastIsNumber DEF TypeOK
<1>2. Missed(after) = [j \in 1..k |-> after + j]
  BY MissedIs DEF Span
<1> HIDE DEF k
<1>3. DOMAIN Missed(after) = 1..k /\ \A i \in 1..k : Missed(after)[i] = after + i
  BY <1>2
<1>4. [i \in DOMAIN Missed(after) |-> Event(Missed(after)[i])] = EventsFrom(after, k)
  BY <1>3 DEF EventsFrom
<1>5. \A j \in 1..k : Event(after + j) \in Messages
  BY <1>1, MessageTypes
<1>6. EventsFrom(after, k) \in Seq(Messages)
  BY <1>5, <1>1 DEF EventsFrom
<1>7. Subscribed(sequence) \in Messages
  BY <1>1, MessageTypes
<1>8. EventsFrom(after, k) \o <<Subscribed(sequence)>> \in Seq(Messages)
  BY <1>6, <1>7
<1> QED
  BY <1>4, <1>6, <1>8 DEF k, SubscribeAnswer

-----------------------------------------------------------------------------
(* What a Client reads                                                     *)

(* What it sends goes behind what it sent: a request for a Bootstrap or a  *)
(* Subscribe from the cursor x.                                            *)
Asks(out, out2, x) ==
    out2 \in {out, Append(out, SnapshotRequest), Append(out, Subscribe(x))}

ClientFields(k) ==
    /\ k.phase \in {"down", "connecting", "up"} /\ k.cursor \in 0..Last
    /\ k.subscribed \in BOOLEAN /\ k.subPending \in BOOLEAN
    /\ k.resync \in BOOLEAN /\ k.recover \in BOOLEAN /\ k.out \in Seq(Requests)

LEMMA ClientIs ==
    ASSUME NEW k \in ClientStates
    PROVE  ClientFields(k)
BY DEF ClientFields, ClientStates

(* The operators that change a Client leave it one.                        *)
LEMMA RequestIs ==
    ASSUME NEW k \in ClientStates
    PROVE  /\ RequestSnapshot(k) \in ClientStates
           /\ RequestSnapshot(k).phase = k.phase /\ RequestSnapshot(k).cursor = k.cursor
           /\ RequestSnapshot(k).subscribed = k.subscribed
           /\ RequestSnapshot(k).resync
           /\ RequestSnapshot(k).out \in {k.out, Append(k.out, SnapshotRequest)}
<1>1. Append(k.out, SnapshotRequest) \in Seq(Requests)
  BY MessageTypes, ClientIs DEF ClientFields
<1>2. RequestSnapshot(k) \in ClientStates
  BY <1>1 DEF RequestSnapshot, ClientStates
<1> QED
  BY <1>2 DEF RequestSnapshot, ClientStates

LEMMA UnsubscribeIs ==
    ASSUME NEW k \in ClientStates
    PROVE  /\ Unsubscribed(k) \in ClientStates /\ ~Unsubscribed(k).subscribed
           /\ Unsubscribed(k).phase = k.phase /\ Unsubscribed(k).cursor = k.cursor
           /\ Unsubscribed(k).resync = k.resync /\ Unsubscribed(k).out = k.out
BY DEF Unsubscribed, ClientStates

LEMMA GuiSubscribeIs ==
    ASSUME TypeOK, NEW k \in ClientStates
    PROVE  /\ GuiSubscribe(k) \in ClientStates
           /\ GuiSubscribe(k).phase = k.phase /\ GuiSubscribe(k).cursor = k.cursor
           /\ GuiSubscribe(k).subscribed => k.subscribed
           /\ GuiSubscribe(k).resync = k.resync
           /\ GuiSubscribe(k).out \in {k.out, Append(k.out, Subscribe(k.cursor))}
<1>1. Append(k.out, Subscribe(k.cursor)) \in Seq(Requests)
  BY MessageTypes, ClientIs DEF ClientFields
<1>2. GuiSubscribe(k) \in ClientStates
  BY <1>1 DEF GuiSubscribe, ClientStates
<1> QED
  BY <1>2 DEF GuiSubscribe, ClientStates

LEMMA ReplaceIs ==
    ASSUME NEW k \in ClientStates, NEW s \in 0..Last
    PROVE  /\ Replaced(k, s) \in ClientStates
           /\ Replaced(k, s).phase = k.phase /\ Replaced(k, s).cursor = s
           /\ Replaced(k, s).subscribed = k.subscribed
           /\ Replaced(k, s).out = k.out
BY DEF Replaced, ClientStates

(* Read by a Client that is up, m moves the cursor as CursorAfter says, a  *)
(* gap is known until a Bootstrap, and a notice ends what the Client       *)
(* believes of its subscription.                                           *)
ReadEffect(k, m, k2) ==
    /\ k2.phase = k.phase
    /\ k2.cursor = CursorAfter(k.cursor, m)
    /\ m.type # "bootstrap" /\ k.resync => k2.resync
    /\ m.type = "event" /\ m.seq > k.cursor + 1 => k2.resync
    /\ m.type \in Notices => ~k2.subscribed
    /\ k2.subscribed => k.subscribed \/ m.type = "subscribed"
    /\ Asks(k.out, k2.out, k2.cursor)

LEMMA EventRead ==
    ASSUME TypeOK, NEW k \in ClientStates, NEW m \in Messages, m.type = "event"
    PROVE  OnEvent(k, m.seq) \in ClientStates /\ ReadEffect(k, m, OnEvent(k, m.seq))
<1>0. m.seq \in 0..Last /\ k.cursor \in 0..Last /\ Last \in Nat /\ "event" \notin Notices
      /\ "event" # "subscribed" /\ "event" # "bootstrap"
  BY MessagesAreFrames, LastIsNumber, ClientIs DEF ClientFields, Notices
<1>1. CASE m.seq = k.cursor + 1
  BY <1>0, <1>1 DEF OnEvent, ClientStates, ReadEffect, Asks, CursorAfter
<1>2. CASE m.seq > k.cursor + 1
  <2>1. OnEvent(k, m.seq) = RequestSnapshot(Unsubscribed(k))
    BY <1>0, <1>2 DEF OnEvent
  <2>2. Unsubscribed(k) \in ClientStates
    BY UnsubscribeIs
  <2>3. CursorAfter(k.cursor, m) = k.cursor
    BY <1>0, <1>2 DEF CursorAfter
  <2> QED
    BY <1>0, <2>1, <2>2, <2>3, UnsubscribeIs, RequestIs DEF ReadEffect, Asks
<1>3. CASE m.seq <= k.cursor
  BY <1>0, <1>3 DEF OnEvent, CursorAfter, ReadEffect, Asks
<1> QED
  BY <1>0, <1>1, <1>2, <1>3

LEMMA BootstrapRead ==
    ASSUME TypeOK, NEW k \in ClientStates, NEW m \in Messages, m.type = "bootstrap",
           NEW k2, k2 \in {Replaced(k, m.seq), GuiSubscribe(Replaced(k, m.seq))}
    PROVE  k2 \in ClientStates /\ ReadEffect(k, m, k2)
<1> DEFINE r == Replaced(k, m.seq)
<1>1. m.seq \in 0..Last
  BY MessagesAreFrames
<1>2. /\ r \in ClientStates /\ r.phase = k.phase /\ r.cursor = m.seq /\ r.subscribed = k.subscribed
      /\ r.out = k.out
  BY <1>1, ReplaceIs
<1> HIDE DEF r
<1>3. /\ k2 \in ClientStates /\ k2.phase = r.phase /\ k2.cursor = r.cursor
      /\ k2.subscribed => r.subscribed
      /\ k2.out \in {r.out, Append(r.out, Subscribe(r.cursor))}
  BY <1>2, GuiSubscribeIs DEF r
<1>4. CursorAfter(k.cursor, m) = m.seq /\ m.type \notin Notices /\ "bootstrap" # "event"
  BY DEF CursorAfter, Notices
<1>5. Asks(k.out, k2.out, k2.cursor)
  BY <1>2, <1>3 DEF Asks
<1> QED
  BY <1>2, <1>3, <1>4, <1>5 DEF ReadEffect

LEMMA GuiRead ==
    ASSUME TypeOK, NEW k \in ClientStates, NEW m \in Messages
    PROVE  GuiOn(k, m) \in ClientStates /\ ReadEffect(k, m, GuiOn(k, m))
<1>0. /\ m.type \in Types /\ m.seq \in 0..Last /\ Last \in Nat /\ k.cursor \in 0..Last
  BY MessagesAreFrames, LastIsNumber, ClientIs DEF Frames, ClientFields
<1>1. CASE m.type = "event"
  BY <1>1, EventRead DEF GuiOn
<1>2. CASE m.type = "bootstrap"
  BY <1>2, BootstrapRead DEF GuiOn, GuiOnBootstrap
<1>3. CASE m.type = "subscribed"
  <2>0. CursorAfter(k.cursor, m) = k.cursor
    BY <1>3 DEF CursorAfter
  <2>1. GuiOn(k, m) = GuiOnSubscribed(k, m.seq)
    BY <1>3 DEF GuiOn
  <2>2. CASE ~k.subPending
    BY <2>1, <2>2, ClientIs, <1>3, <2>0 DEF GuiOnSubscribed, ClientFields, ReadEffect, Asks,
       Notices
  <2>3. CASE k.subPending /\ k.cursor = m.seq
    BY <2>1, <2>3, ClientIs, <1>3, <2>0 DEF GuiOnSubscribed, ClientFields, ClientStates,
       ReadEffect, Asks, Notices
  <2>4. CASE k.subPending /\ k.cursor # m.seq
    BY <2>1, <2>4, ClientIs, UnsubscribeIs, <1>3, <2>0, RequestIs DEF GuiOnSubscribed,
       ClientFields, ReadEffect, Asks, Notices
  <2> QED
    BY <2>2, <2>3, <2>4, ClientIs DEF ClientFields
<1>4. CASE m.type \in Notices
  <2>0. CursorAfter(k.cursor, m) = k.cursor
    BY <1>4 DEF CursorAfter, Notices
  <2>1. GuiOn(k, m) = RequestSnapshot([Unsubscribed(k) EXCEPT !.recover = TRUE])
    BY <1>4 DEF GuiOn, GuiOnRejected, Notices
  <2> DEFINE u == Unsubscribed(k)
             w == [u EXCEPT !.recover = TRUE]
  <2>2. /\ u \in ClientStates /\ ~u.subscribed /\ u.phase = k.phase /\ u.cursor = k.cursor
        /\ u.resync = k.resync /\ u.out = k.out
    BY UnsubscribeIs
  <2> HIDE DEF u
  <2>3. /\ w \in ClientStates /\ ~w.subscribed /\ w.phase = k.phase /\ w.cursor = k.cursor
        /\ w.resync = k.resync /\ w.out = k.out
    BY <2>2 DEF ClientStates
  <2>4. GuiOn(k, m) = RequestSnapshot(w)
    BY <2>1 DEF u
  <2> HIDE DEF w
  <2> QED
    BY <1>4, <2>0, <2>3, <2>4, RequestIs DEF ReadEffect, Asks, Notices
<1>5. CASE m.type = "snapshotRejected"
  <2>0. CursorAfter(k.cursor, m) = k.cursor
    BY <1>5 DEF CursorAfter
  <2>1. GuiOn(k, m) = IF k.resync THEN RequestSnapshot([Unsubscribed(k) EXCEPT !.resync = FALSE]) ELSE k
    BY <1>5 DEF GuiOn, GuiOnSnapshotRejected
  <2> DEFINE u == Unsubscribed(k)
             w == [u EXCEPT !.resync = FALSE]
  <2>2. /\ u \in ClientStates /\ ~u.subscribed /\ u.phase = k.phase /\ u.cursor = k.cursor
        /\ u.out = k.out
    BY UnsubscribeIs
  <2> HIDE DEF u
  <2>3. /\ w \in ClientStates /\ ~w.subscribed /\ w.phase = k.phase /\ w.cursor = k.cursor
        /\ w.out = k.out
    BY <2>2 DEF ClientStates
  <2>4. GuiOn(k, m) \in {k, RequestSnapshot(w)} /\ (k.resync => GuiOn(k, m) = RequestSnapshot(w))
    BY <2>1 DEF u
  <2> HIDE DEF w
  <2> QED
    BY <1>5, <2>0, <2>3, <2>4, RequestIs DEF ReadEffect, Asks, Notices
<1>6. CASE m.type \in Answered
  BY <1>6 DEF GuiOn, CursorAfter, Answered, ReadEffect, Asks, Notices
<1> QED
  BY <1>0, <1>1, <1>2, <1>3, <1>4, <1>5, <1>6 DEF Types, Notices, Answered

LEMMA CompanionRead ==
    ASSUME TypeOK, NEW k \in ClientStates, NEW m \in Messages, m.type \notin Answered
    PROVE  CompanionOn(k, m) \in ClientStates /\ ReadEffect(k, m, CompanionOn(k, m))
<1>0. /\ m.type \in Types /\ m.seq \in 0..Last /\ Last \in Nat /\ k.cursor \in 0..Last
  BY MessagesAreFrames, LastIsNumber, ClientIs DEF Frames, ClientFields
<1>1. CASE m.type = "event"
  BY <1>1, EventRead DEF CompanionOn
<1>2. CASE m.type = "bootstrap"
  BY <1>2, BootstrapRead DEF CompanionOn, CompanionSubscribe
<1>3. CASE m.type = "subscribed"
  BY <1>3 DEF CursorAfter, CompanionOn, ClientStates, ReadEffect, Asks, Notices
<1>4. CASE m.type \in Notices \cup {"snapshotRejected"}
  <2>0. CursorAfter(k.cursor, m) = k.cursor
    BY <1>4 DEF CursorAfter, Notices
  <2>1. CompanionOn(k, m) = RequestSnapshot([Unsubscribed(k) EXCEPT !.resync = FALSE])
    BY <1>4 DEF CompanionOn, CompanionOnRejected, Notices
  <2> DEFINE u == Unsubscribed(k)
             w == [u EXCEPT !.resync = FALSE]
  <2>2. /\ u \in ClientStates /\ ~u.subscribed /\ u.phase = k.phase /\ u.cursor = k.cursor
        /\ u.out = k.out
    BY UnsubscribeIs
  <2> HIDE DEF u
  <2>3. /\ w \in ClientStates /\ ~w.subscribed /\ w.phase = k.phase /\ w.cursor = k.cursor
        /\ w.out = k.out
    BY <2>2 DEF ClientStates
  <2>4. CompanionOn(k, m) = RequestSnapshot(w)
    BY <2>1 DEF u
  <2> HIDE DEF w
  <2> QED
    BY <1>4, <2>0, <2>3, <2>4, RequestIs DEF ReadEffect, Asks, Notices
<1> QED
  BY <1>0, <1>1, <1>2, <1>3, <1>4 DEF Types, Notices, Answered

(* Before it is up a Client waits for its first Bootstrap.                 *)
HandshakeEffect(k, m, k2) ==
    \/ m.type # "bootstrap" /\ k2 = k
    \/ /\ m.type = "bootstrap" /\ k2.phase = "up" /\ k2.cursor = m.seq
       /\ k2.subscribed => k.subscribed
       /\ Asks(k.out, k2.out, k2.cursor)

LEMMA HandshakeRead ==
    ASSUME TypeOK, NEW k \in ClientStates, NEW m \in Messages
    PROVE  OnHandshake(k, m) \in ClientStates /\ HandshakeEffect(k, m, OnHandshake(k, m))
<1>1. CASE m.type # "bootstrap"
  BY <1>1 DEF OnHandshake, HandshakeEffect
<1>2. CASE m.type = "bootstrap"
  <2> DEFINE r == Replaced(k, m.seq)
             u == [r EXCEPT !.phase = "up"]
  <2>1. m.seq \in 0..Last
    BY MessagesAreFrames
  <2>2. r \in ClientStates /\ r.cursor = m.seq /\ r.subscribed = k.subscribed /\ r.out = k.out
    BY <2>1, ReplaceIs
  <2>3. OnHandshake(k, m) = GuiSubscribe(u)
    BY <1>2 DEF OnHandshake
  <2> HIDE DEF r
  <2>4. /\ u \in ClientStates /\ u.cursor = m.seq /\ u.subscribed = k.subscribed /\ u.out = k.out
        /\ u.phase = "up"
    BY <2>2 DEF ClientStates
  <2> HIDE DEF u
  <2> QED
    BY <1>2, <2>3, <2>4, GuiSubscribeIs DEF HandshakeEffect, Asks
<1> QED
  BY <1>1, <1>2

LEMMA ReadIs ==
    ASSUME TypeOK, NEW c \in Clients, NEW k \in ClientStates, NEW m \in Messages,
           k.phase # "down", c \notin Guis => m.type \notin Answered
    PROVE  /\ On(c, k, m) \in ClientStates
           /\ k.phase = "connecting" => HandshakeEffect(k, m, On(c, k, m))
           /\ k.phase = "up" => ReadEffect(k, m, On(c, k, m))
BY HandshakeRead, GuiRead, CompanionRead, ClientIs DEF On, ClientFields

-----------------------------------------------------------------------------
(* The types are invariant                                                 *)

LEMMA TypeFacts ==
    ASSUME TypeOK
    PROVE  /\ sequence \in 0..Last /\ Last \in Nat
           /\ events \in Seq(1..Last) /\ Len(events) <= HistoryLimit
           /\ fenced \subseteq subscribers /\ subscribers \subseteq Clients
           /\ sending \in [client : Clients \cup {NoClient}, items : Seq(Messages)]
           /\ \A c \in Clients :
                /\ deferred[c] \in Seq(Messages) /\ writer[c] \in StreamQueues
                /\ wire[c] \in Seq(Messages)
                /\ capture[c] \in [stage : {"none", "captured", "reopened", "aborted", "rejecting"},
                                   seq : 0..Last]
                /\ layout[c] \in [stage : {"none", "answering", "running", "committed"}, seq : 0..Last]
                /\ open[c] \in BOOLEAN /\ client[c] \in ClientStates
BY LastIsNumber DEF TypeOK

LEMMA IdleIsTyped ==
    ASSUME TypeOK
    PROVE  /\ Idle \in [client : Clients \cup {NoClient}, items : Seq(Messages)]
           /\ NoCapture \in [stage : {"none", "captured", "reopened", "aborted", "rejecting"},
                             seq : 0..Last]
           /\ NoLayout \in [stage : {"none", "answering", "running", "committed"}, seq : 0..Last]
BY LastIsNumber DEF Idle, NoCapture, NoLayout

LEMMA RemoveIsTyped ==
    ASSUME TypeOK, NEW c \in Clients, RemoveSubscriber(c)
    PROVE  /\ fenced' \subseteq subscribers' /\ subscribers' \subseteq Clients
           /\ deferred' \in [Clients -> Seq(Messages)]
BY DEF TypeOK, RemoveSubscriber

LEMMA HandledIsTyped ==
    ASSUME TypeOK, NEW c \in Clients, client[c].out # <<>>, Handled(c)
    PROVE  client' \in [Clients -> ClientStates]
<1>1. client[c] \in ClientStates /\ client[c].out \in Seq(Requests)
  BY TypeFacts, ClientIs DEF ClientFields
<1>2. Tail(client[c].out) \in Seq(Requests)
  BY <1>1
<1>3. [client[c] EXCEPT !.out = Tail(@)] \in ClientStates
  BY <1>1, <1>2 DEF ClientStates
<1>4. client' = [client EXCEPT ![c] = [client[c] EXCEPT !.out = Tail(@)]]
  BY DEF Handled
<1> QED
  BY <1>3, <1>4 DEF TypeOK

LEMMA PublishIsTyped ==
    ASSUME TypeOK, NEW origin, PublishEvent(origin)
    PROVE  /\ sequence' \in 0..Last /\ events' \in Seq(1..Last) /\ Len(events') <= HistoryLimit
           /\ fenced' \subseteq subscribers' /\ subscribers' \subseteq Clients
           /\ deferred' \in [Clients -> Seq(Messages)] /\ writer' \in [Clients -> StreamQueues]
<1>1. sequence' = sequence + 1 /\ sequence < Last /\ Last \in Nat /\ sequence \in Nat
  BY LastIsNumber DEF TypeOK, PublishEvent, Last
<1>2. sequence + 1 \in 1..Last /\ sequence + 1 \in 0..Last
  BY <1>1
<1>3. Event(sequence + 1) \in Messages
  BY <1>2, MessageTypes
<1>4. events' \in Seq(1..Last) /\ Len(events') <= HistoryLimit
  <2> DEFINE longer == Append(events, sequence + 1)
  <2>1. /\ events \in Seq(1..Last) /\ Len(events) <= HistoryLimit /\ HistoryLimit \in Nat \ {0}
        /\ events' = IF Len(longer) > HistoryLimit THEN Tail(longer) ELSE longer
    BY StreamAssumption DEF TypeOK, PublishEvent, Kept
  <2>2. longer \in Seq(1..Last) /\ Len(longer) = Len(events) + 1 /\ longer # <<>>
    BY <1>2, <2>1
  <2> HIDE DEF longer
  <2>3. Tail(longer) \in Seq(1..Last) /\ Len(Tail(longer)) = Len(longer) - 1
    BY <2>2
  <2>4. Len(events) \in Nat /\ Len(longer) \in Nat
    BY <2>1, <2>2
  <2>5. CASE Len(longer) > HistoryLimit
    BY <2>1, <2>5, <2>2, <2>4, <2>3
  <2>6. CASE ~(Len(longer) > HistoryLimit)
    BY <2>1, <2>6, <2>4, <2>2
  <2> QED
    BY <2>5, <2>6
<1>5. /\ fenced' = fenced \cap subscribers' /\ subscribers' \subseteq subscribers
      /\ writer' \in [Clients -> StreamQueues]
  BY <1>3, SendIs, TypeFacts DEF PublishEvent
<1>6. deferred' \in [Clients -> Seq(Messages)]
  BY <1>3, TypeFacts DEF PublishEvent
<1> QED
  BY <1>1, <1>2, <1>4, <1>5, <1>6 DEF TypeOK

LEMMA SpentIsTyped ==
    ASSUME TypeOK, [Next]_vars
    PROVE  /\ spent' \in [setting : Settings, gaps : Nat, layouts : Nat, failures : Nat, drops : Nat]
           /\ spent'.gaps <= spent'.setting.gaps /\ spent'.layouts <= spent'.setting.layouts
           /\ spent'.failures <= spent'.setting.failures /\ spent'.drops <= spent'.setting.drops
<1> DEFINE Within(s) ==
      /\ s \in [setting : Settings, gaps : Nat, layouts : Nat, failures : Nat, drops : Nat]
      /\ s.gaps <= s.setting.gaps /\ s.layouts <= s.setting.layouts
      /\ s.failures <= s.setting.failures /\ s.drops <= s.setting.drops
<1>0. Within(spent) /\ spent.setting \in Setting
  BY LastIsNumber DEF TypeOK
<1>1. /\ spent.setting.gaps \in Nat /\ spent.setting.layouts \in Nat
      /\ spent.setting.failures \in Nat /\ spent.setting.drops \in Nat
  BY <1>0 DEF Setting
<1> SUFFICES Within(spent')
  OBVIOUS
<1>2. CASE UNCHANGED spent
  BY <1>0, <1>2
<1>3. CASE spent.failures < spent.setting.failures /\ spent' = [spent EXCEPT !.failures = @ + 1]
  BY <1>0, <1>1, <1>3
<1>4. CASE spent.gaps < spent.setting.gaps /\ spent' = [spent EXCEPT !.gaps = @ + 1]
  BY <1>0, <1>1, <1>4
<1>5. CASE spent.layouts < spent.setting.layouts /\ spent' = [spent EXCEPT !.layouts = @ + 1]
  BY <1>0, <1>1, <1>5
<1>6. CASE spent.drops < spent.setting.drops /\ spent' = [spent EXCEPT !.drops = @ + 1]
  BY <1>0, <1>1, <1>6
<1> HIDE DEF Within
<1>7. ASSUME NEW c \in Clients, ConnectionStep(c) PROVE Within(spent')
  BY <1>2, <1>3, <1>7
     DEF ConnectionStep, HandleSubscribe, BeginBootstrap, FinishFenced, FinishUnfenced, Reopen,
         AbortBootstrap, RejectBootstrap, CloseConnection, HandleLocalLayout, AnswerLocalLayout,
         RefuseLayout, StartExternalLayout, CommitExternalLayout, AnswerExternalLayout, WriterSend
<1>8. ASSUME NEW c \in Clients, ClientStep(c) PROVE Within(spent')
  BY <1>2, <1>4, <1>5, <1>6, <1>8
     DEF ClientStep, ClientReceive, VisualGap, SendLayout, Connect, LoseConnection, ReadEnd
<1>9. CASE PublishBackground \/ SendNext \/ UNCHANGED vars
  BY <1>2, <1>9 DEF PublishBackground, SendNext, vars
<1> QED
  BY <1>7, <1>8, <1>9 DEF Next

(* The message that a Client at the head of its request is handled for.    *)
LEMMA HeadRequest ==
    ASSUME TypeOK, NEW c \in Clients, client[c].out # <<>>
    PROVE  Head(client[c].out) \in Requests /\ Tail(client[c].out) \in Seq(Requests)
           /\ (Head(client[c].out).type = "subscribe" => Head(client[c].out).seq \in 0..Last)
<1>1. Head(client[c].out) \in Requests /\ Tail(client[c].out) \in Seq(Requests)
  BY TypeFacts, ClientIs DEF ClientFields
<1>2. ASSUME NEW r \in Requests, r.type = "subscribe" PROVE r.seq \in 0..Last
  BY <1>2 DEF Requests, Subscribe, SnapshotRequest, Layout
<1> QED
  BY <1>1, <1>2

LEMMA SubscribeSends ==
    ASSUME TypeOK, History, NEW c \in Clients, HandleSubscribe(c),
           NEW after, after = Head(client[c].out).seq
    PROVE  /\ after \in 0..Last
           /\ \/ /\ after > sequence \/ CursorExpired(after)
                 /\ RemoveSubscriber(c) /\ sending' = [client |-> c, items |-> <<Rejected>>]
              \/ /\ after \in 0..sequence /\ ~CursorExpired(after)
                 /\ subscribers' = subscribers \cup {c} /\ UNCHANGED <<fenced, deferred>>
                 /\ sending' = [client |-> c, items |-> SubscribeAnswer(after)]
<1>1. after \in 0..Last
  BY HeadRequest DEF HandleSubscribe, Handling
<1>2. CASE after > sequence \/ CursorExpired(after)
  BY <1>1, <1>2 DEF HandleSubscribe
<1>3. CASE ~(after > sequence \/ CursorExpired(after))
  <2>1. after \in 0..sequence
    BY <1>1, <1>3, LastIsNumber DEF TypeOK
  <2>2. /\ subscribers' = subscribers \cup {c} /\ UNCHANGED <<fenced, deferred>>
        /\ sending' = [client |-> c,
                       items |-> [i \in DOMAIN Missed(after) |-> Event(Missed(after)[i])]
                                   \o <<Subscribed(sequence)>>]
    BY <1>3 DEF HandleSubscribe
  <2>3. [i \in DOMAIN Missed(after) |-> Event(Missed(after)[i])] \o <<Subscribed(sequence)>>
          = SubscribeAnswer(after)
    BY <1>3, <2>1, SubscribeItems
  <2> QED
    BY <1>1, <1>3, <2>1, <2>2, <2>3
<1> QED
  BY <1>2, <1>3

(* Who is being sent to under the state lock.                              *)
LEMMA SenderIs ==
    ASSUME Base, sending # Idle
    PROVE  /\ sending.client \in Clients /\ sending.items # <<>>
           /\ Head(sending.items) \in Messages /\ Tail(sending.items) \in Seq(Messages)
BY TypeFacts DEF Base, History, Locks, LoopOk

(* What a Client reads is meant for it.                                    *)
LEMMA ReaderIs ==
    ASSUME Base, NEW c \in Clients, wire[c] # <<>>
    PROVE  /\ client[c].phase # "down" /\ Head(wire[c]) \in Messages
           /\ c \notin Guis => Head(wire[c]).type \notin Answered
BY TypeFacts DEF Base, Locks, PhaseOk, NoneOf

LEMMA TypeStep == Base /\ [Next]_vars => TypeOK'
<1> SUFFICES ASSUME Base, [Next]_vars PROVE TypeOK'
  OBVIOUS
<1>1. TypeOK /\ History
  BY DEF Base
<1>2. Last' = Last /\ Messages' = Messages /\ StreamQueues' = StreamQueues /\ ClientStates' = ClientStates
  BY <1>1, SettingStays, SameTypes
<1>3. /\ spent' \in [setting : Settings, gaps : Nat, layouts : Nat, failures : Nat, drops : Nat]
      /\ spent'.gaps <= spent'.setting.gaps /\ spent'.layouts <= spent'.setting.layouts
      /\ spent'.failures <= spent'.setting.failures /\ spent'.drops <= spent'.setting.drops
  BY <1>1, SpentIsTyped
<1>4. ASSUME NEW c \in Clients, NEW m \in Messages PROVE Sent(writer[c], m) \in StreamQueues
  BY <1>1, SendIs, TypeFacts
<1>5. \A c \in Clients : Bootstrap(capture[c].seq) \in Messages /\ LayoutApplied(layout[c].seq) \in Messages
  BY <1>1, TypeFacts, MessageTypes
<1>6. LayoutRejected \in Messages /\ Rejected \in Messages /\ SnapshotRejected \in Messages
  BY MessageTypes
<1>7. ASSUME NEW c \in Clients, HandleSubscribe(c) PROVE TypeOK'
  <2> DEFINE after == Head(client[c].out).seq
  <2>1. client' \in [Clients -> ClientStates]
    BY <1>1, <1>7, HandledIsTyped DEF HandleSubscribe, Handling
  <2>2. /\ fenced' \subseteq subscribers' /\ subscribers' \subseteq Clients
        /\ deferred' \in [Clients -> Seq(Messages)]
        /\ sending' \in [client : Clients \cup {NoClient}, items : Seq(Messages)]
    <3> HIDE DEF after
    <3>1. CASE RemoveSubscriber(c) /\ sending' = [client |-> c, items |-> <<Rejected>>]
      BY <1>6, <1>1, <3>1, RemoveIsTyped
    <3>2. CASE /\ after \in 0..sequence /\ ~CursorExpired(after)
               /\ subscribers' = subscribers \cup {c} /\ UNCHANGED <<fenced, deferred>>
               /\ sending' = [client |-> c, items |-> SubscribeAnswer(after)]
      BY <1>1, <3>2, SubscribeItems DEF TypeOK
    <3> QED
      BY <1>1, <1>7, <3>1, <3>2, SubscribeSends DEF after
  <2> QED
    BY <1>1, <1>2, <1>3, <1>7, <2>1, <2>2 DEF HandleSubscribe, TypeOK
<1>8. ASSUME NEW c \in Clients, BeginBootstrap(c) PROVE TypeOK'
  <2>1. client' \in [Clients -> ClientStates]
    BY <1>1, <1>8, HandledIsTyped DEF BeginBootstrap, Handling
  <2>2. [stage |-> "captured", seq |-> sequence] \in [stage : {"none", "captured", "reopened", "aborted", "rejecting"},
                                  seq : 0..Last]
    BY <1>1, TypeFacts
  <2>3. capture' \in [Clients -> [stage : {"none", "captured", "reopened", "aborted", "rejecting"},
                                  seq : 0..Last]]
    BY <1>1, <1>8, <2>2 DEF BeginBootstrap, TypeOK
  <2>4. /\ fenced' \subseteq subscribers' /\ subscribers' \subseteq Clients
        /\ deferred' \in [Clients -> Seq(Messages)]
    BY <1>1, <1>8 DEF BeginBootstrap, FencedWith, TypeOK
  <2> QED
    BY <1>1, <1>2, <1>3, <1>8, <2>1, <2>3, <2>4 DEF BeginBootstrap, TypeOK
<1>9. ASSUME NEW c \in Clients, FinishFenced(c) PROVE TypeOK'
  <2>1. Resumed(writer[c]) \in StreamQueues
    BY <1>1, TypeFacts, ResumeIs
  <2>2. <<Bootstrap(capture[c].seq)>> \o deferred[c] \in Seq(Messages)
    BY <1>1, <1>5, TypeFacts
  <2> QED
    BY <1>1, <1>2, <1>3, <1>9, <2>1, <2>2 DEF FinishFenced, TypeOK
<1>10. ASSUME NEW c \in Clients, Reopen(c) PROVE TypeOK'
  <2>1. Resumed(writer[c]) \in StreamQueues
    BY <1>1, TypeFacts, ResumeIs
  <2>2. capture' \in [Clients -> [stage : {"none", "captured", "reopened", "aborted", "rejecting"},
                                  seq : 0..Last]]
    <3> DEFINE stage == IF capture[c].stage = "captured" THEN "reopened" ELSE "rejecting"
    <3>1. [capture[c] EXCEPT !.stage = stage] \in [stage : {"none", "captured", "reopened", "aborted", "rejecting"},
                                  seq : 0..Last]
      BY <1>1, TypeFacts
    <3>2. capture' = [capture EXCEPT ![c] = [capture[c] EXCEPT !.stage = stage]]
      BY <1>10 DEF Reopen
    <3> HIDE DEF stage
    <3> QED
      BY <1>1, <3>1, <3>2 DEF TypeOK
  <2> QED
    BY <1>1, <1>2, <1>3, <1>10, <2>1, <2>2 DEF Reopen, TypeOK
<1>11. ASSUME NEW c \in Clients, FinishUnfenced(c) PROVE TypeOK'
  BY <1>1, <1>2, <1>3, <1>4, <1>5, <1>11, IdleIsTyped DEF FinishUnfenced, TypeOK
<1>12. ASSUME NEW c \in Clients, AbortBootstrap(c) PROVE TypeOK'
  <2>1. capture' \in [Clients -> [stage : {"none", "captured", "reopened", "aborted", "rejecting"},
                                  seq : 0..Last]]
    BY <1>1, TypeFacts, <1>12 DEF AbortBootstrap, TypeOK
  <2>2. /\ fenced' \subseteq subscribers' /\ subscribers' \subseteq Clients
        /\ deferred' \in [Clients -> Seq(Messages)]
    BY <1>1, <1>12 DEF AbortBootstrap, TypeOK
  <2>3. UNCHANGED <<sequence, events, sending, layout, open, writer, wire, client>>
    BY <1>12 DEF AbortBootstrap
  <2> QED
    BY <1>1, <1>2, <1>3, <2>1, <2>2, <2>3 DEF TypeOK
<1>13. ASSUME NEW c \in Clients, RejectBootstrap(c) PROVE TypeOK'
  BY <1>4, <1>6, <1>1, <1>2, <1>3, <1>13, IdleIsTyped DEF RejectBootstrap, TypeOK
<1>14. ASSUME NEW c \in Clients, CloseConnection(c) PROVE TypeOK'
  BY <1>1, <1>14, RemoveIsTyped, <1>2, <1>3 DEF CloseConnection, TypeOK
<1>15. ASSUME NEW c \in Clients, HandleLocalLayout(c) PROVE TypeOK'
  BY <1>1, <1>15, HandledIsTyped, PublishIsTyped, <1>2, <1>3 DEF HandleLocalLayout, Handling,
     TypeOK
<1>16. ASSUME NEW c \in Clients, AnswerLocalLayout(c) PROVE TypeOK'
  BY <1>1, <1>2, <1>3, <1>4, <1>5, <1>16, IdleIsTyped DEF AnswerLocalLayout, TypeOK
<1>17. ASSUME NEW c \in Clients, RefuseLayout(c) PROVE TypeOK'
  BY <1>1, <1>17, HandledIsTyped, <1>2, <1>3, <1>4, <1>6 DEF RefuseLayout, Handling, TypeOK
<1>18. ASSUME NEW c \in Clients, StartExternalLayout(c) PROVE TypeOK'
  <2>1. client' \in [Clients -> ClientStates]
    BY <1>1, <1>18, HandledIsTyped DEF StartExternalLayout, Handling
  <2>2. 0 \in 0..Last
    BY <1>1, LastIsNumber
  <2> QED
    BY <1>1, <1>2, <1>3, <1>18, <2>1, <2>2 DEF StartExternalLayout, TypeOK
<1>19. ASSUME NEW c \in Clients, CommitExternalLayout(c) PROVE TypeOK'
  BY <1>19, <1>1, PublishIsTyped, <1>2, <1>3 DEF CommitExternalLayout, TypeOK
<1>20. ASSUME NEW c \in Clients, AnswerExternalLayout(c) PROVE TypeOK'
  <2>1. writer' \in [Clients -> StreamQueues]
    <3>1. Sent(writer[c], LayoutApplied(layout[c].seq)) \in StreamQueues
      BY <1>4, <1>5
    <3>2. Sent(writer[c], LayoutRejected) \in StreamQueues
      BY <1>4, <1>6
    <3> QED
      BY <1>1, <1>20, <3>1, <3>2 DEF AnswerExternalLayout, TypeOK
  <2> QED
    BY <1>1, <1>2, <1>3, <1>20, <2>1, IdleIsTyped DEF AnswerExternalLayout, TypeOK
<1>21. ASSUME NEW c \in Clients, WriterSend(c) PROVE TypeOK'
  <2>1. writer[c] \in StreamQueues /\ wire[c] \in Seq(Messages) /\ writer[c].reliable # <<>>
    BY <1>1, <1>21, TypeFacts, ReceiveIs DEF WriterSend
  <2>2. AfterReceive(writer[c]) \in StreamQueues /\ Append(wire[c], Received(writer[c])) \in Seq(Messages)
    BY <1>1, <2>1, ReceiveIs
  <2> QED
    BY <1>1, <1>2, <1>3, <1>21, <2>2 DEF WriterSend, serverVars, TypeOK
<1>22. ASSUME NEW c \in Clients, ClientReceive(c) PROVE TypeOK'
  <2>1. On(c, client[c], Head(wire[c])) \in ClientStates /\ Tail(wire[c]) \in Seq(Messages)
    <3>1. wire[c] # <<>> /\ wire[c] \in Seq(Messages) /\ client[c] \in ClientStates
      BY <1>1, <1>22, TypeFacts DEF ClientReceive
    <3>2. /\ client[c].phase # "down" /\ Head(wire[c]) \in Messages
          /\ c \notin Guis => Head(wire[c]).type \notin Answered
      BY <3>1, ReaderIs
    <3>3. On(c, client[c], Head(wire[c])) \in ClientStates
      BY <1>1, <3>1, <3>2, ReadIs
    <3> QED
      BY <3>1, <3>3
  <2> QED
    BY <1>1, <1>2, <1>3, <1>22, <2>1 DEF ClientReceive, serverVars, TypeOK
<1>23. ASSUME NEW c \in Clients, VisualGap(c) PROVE TypeOK'
  BY <1>1, TypeFacts, RequestIs, <1>2, <1>3, <1>23 DEF VisualGap, serverVars, TypeOK
<1>24. ASSUME NEW c \in Clients, SendLayout(c) PROVE TypeOK'
  <2>1. client[c] \in ClientStates /\ Append(client[c].out, Layout) \in Seq(Requests)
    BY <1>1, TypeFacts, ClientIs, MessageTypes DEF ClientFields
  <2>2. [client[c] EXCEPT !.out = Append(@, Layout)] \in ClientStates
    BY <2>1 DEF ClientStates
  <2>3. client' \in [Clients -> ClientStates]
    BY <1>24, <1>1, <2>2 DEF SendLayout, TypeOK
  <2> QED
    BY <1>1, <1>2, <1>3, <1>24, <2>3 DEF SendLayout, serverVars, TypeOK
<1>25. ASSUME NEW c \in Clients, Connect(c) PROVE TypeOK'
  <2>1. client[c] \in ClientStates /\ <<SnapshotRequest>> \in Seq(Requests)
    BY <1>1, TypeFacts, MessageTypes
  <2>2. [client[c] EXCEPT !.phase = "connecting", !.out = <<SnapshotRequest>>] \in ClientStates
    BY <2>1 DEF ClientStates
  <2>3. client' \in [Clients -> ClientStates]
    BY <1>1, <1>25, <2>2 DEF Connect, TypeOK
  <2> QED
    BY <1>1, <1>2, <1>3, <1>25, <2>3, NewIs DEF Connect, TypeOK
<1>26. ASSUME NEW c \in Clients, EndConnection(c) PROVE TypeOK'
  <2>1. /\ fenced' \subseteq subscribers' /\ subscribers' \subseteq Clients
        /\ deferred' \in [Clients -> Seq(Messages)]
    BY <1>1, <1>26, RemoveIsTyped DEF EndConnection
  <2>2. Closed(writer[c]) \in StreamQueues /\ <<>> \in Seq(Messages)
    BY <1>1, TypeFacts, ResumeIs
  <2>3. Offline(client[c]) \in ClientStates
    <3>1. client[c] \in ClientStates /\ <<>> \in Seq(Requests)
      BY <1>1, TypeFacts
    <3> QED
      BY <3>1 DEF Offline, ClientStates
  <2> QED
    BY <1>1, <1>2, <1>3, <1>26, <2>1, <2>2, <2>3, IdleIsTyped DEF EndConnection, TypeOK
<1>27. CASE SendNext
  BY <1>27, SenderIs, <1>4, <1>1, IdleIsTyped, RemoveIsTyped, <1>2, <1>3 DEF SendNext, TypeOK
<1>28. CASE PublishBackground
  BY <1>28, <1>1, PublishIsTyped, <1>2, <1>3 DEF PublishBackground, TypeOK
<1>29. CASE UNCHANGED vars
  BY <1>1, <1>2, <1>29 DEF vars, serverVars, TypeOK
<1> QED
  BY <1>7, <1>8, <1>9, <1>10, <1>11, <1>12, <1>13, <1>14, <1>15, <1>16, <1>17, <1>18, <1>19,
     <1>20, <1>21, <1>22, <1>23, <1>24, <1>25, <1>26, <1>27, <1>28, <1>29
     DEF Next, ConnectionStep, ClientStep, LoseConnection, ReadEnd

-----------------------------------------------------------------------------
(* The history, the locks and the fences are invariant                     *)

LEMMA PublishHistory ==
    ASSUME TypeOK, History, NEW origin, PublishEvent(origin)
    PROVE  /\ Len(events') <= sequence' /\ events' # <<>>
           /\ \A i \in 1..Len(events') : events'[i] = (sequence' - Len(events')) + i
<1> DEFINE longer == Append(events, sequence + 1)
           n == Len(events)
<1>1. /\ sequence \in Nat /\ n \in Nat /\ n <= sequence /\ sequence' = sequence + 1
      /\ HistoryLimit \in Nat \ {0} /\ events \in Seq(Nat)
      /\ events' = IF Len(longer) > HistoryLimit THEN Tail(longer) ELSE longer
      /\ \A i \in 1..n : events[i] = (sequence - n) + i
  <2>1. sequence \in Nat /\ events \in Seq(Nat)
    BY SMTT(30), LastIsNumber DEF TypeOK
  <2>2. sequence' = sequence + 1 /\ HistoryLimit \in Nat \ {0}
    BY StreamAssumption DEF PublishEvent
  <2>3. events' = IF Len(longer) > HistoryLimit THEN Tail(longer) ELSE longer
    BY DEF PublishEvent, Kept
  <2>4. n \in Nat /\ n <= sequence
    BY <2>1 DEF History
  <2>5. \A i \in 1..n : events[i] = (sequence - n) + i
    BY DEF History
  <2> QED
    BY <2>1, <2>2, <2>3, <2>4, <2>5
<1>2. /\ longer \in Seq(Nat) /\ Len(longer) = n + 1 /\ longer # <<>> /\ longer[n + 1] = sequence + 1
      /\ \A i \in 1..n : longer[i] = events[i]
  <2>1. sequence + 1 \in Nat /\ events \in Seq(Nat)
    BY <1>1
  <2>2. longer \in Seq(Nat) /\ Len(longer) = Len(events) + 1
    BY <2>1
  <2>3. longer[Len(events) + 1] = sequence + 1 /\ \A i \in 1..Len(events) : longer[i] = events[i]
    BY <2>1
  <2>4. longer # <<>>
    <3> HIDE DEF longer
    <3> QED
      BY <1>1, <2>2
  <2> QED
    BY <2>2, <2>3, <2>4
<1> HIDE DEF longer, n
<1>3. \A i \in 1..n + 1 : longer[i] = (sequence - n) + i
  BY <1>1, <1>2
<1>4. CASE Len(longer) > HistoryLimit
  <2>1. events' = Tail(longer) /\ n >= 1
    BY <1>1, <1>2, <1>4
  <2>2. /\ Tail(longer) \in Seq(Nat) /\ Len(Tail(longer)) = n
        /\ \A i \in 1..n : Tail(longer)[i] = longer[i + 1]
    BY <1>1, <1>2
  <2>3. \A i \in 1..n : Tail(longer)[i] = ((sequence + 1) - n) + i
    BY <1>1, <1>3, <2>2
  <2>4. Tail(longer) # <<>>
    BY <2>1, <2>2
  <2>5. Len(events') = n /\ n <= sequence' /\ sequence' - Len(events') = (sequence + 1) - n
    <3>1. Len(events') = n
      BY <2>1, <2>2
    <3>2. n <= sequence' /\ sequence' = sequence + 1
      BY <1>1
    <3> QED
      BY <3>1, <3>2
  <2>6. \A i \in 1..Len(events') : events'[i] = (sequence' - Len(events')) + i
    BY <2>1, <2>3, <2>5
  <2> QED
    BY <2>1, <2>4, <2>5, <2>6
<1>5. CASE ~(Len(longer) > HistoryLimit)
  <2>1. events' = longer
    BY <1>1, <1>5
  <2>2. \A i \in 1..n + 1 : longer[i] = ((sequence + 1) - (n + 1)) + i
    BY <1>1, <1>3
  <2>3. Len(events') = n + 1 /\ n + 1 <= sequence'
        /\ sequence' - Len(events') = (sequence + 1) - (n + 1)
    <3>1. Len(events') = n + 1
      BY <1>2, <2>1
    <3>2. n + 1 <= sequence' /\ sequence' = sequence + 1
      BY <1>1
    <3> QED
      BY <3>1, <3>2
  <2>4. \A i \in 1..Len(events') : events'[i] = (sequence' - Len(events')) + i
    BY <2>1, <2>2, <2>3
  <2> QED
    BY <1>2, <2>1, <2>3, <2>4
<1> QED
  BY <1>4, <1>5

LEMMA HistoryStep == Base /\ [Next]_vars => History'
<1> SUFFICES ASSUME Base, [Next]_vars PROVE History'
  OBVIOUS
<1>1. TypeOK /\ History /\ NoClient \notin Clients
  BY StreamAssumption DEF Base
<1>2. CASE UNCHANGED <<sequence, events>> /\ (sending'.client = NoClient => sending' = Idle)
  BY <1>1, <1>2 DEF History
<1>3. ASSUME NEW origin, PublishEvent(origin), UNCHANGED sending PROVE History'
  BY <1>1, <1>3, PublishHistory DEF History
<1>4. ASSUME NEW c \in Clients, ConnectionStep(c) PROVE History'
  <2>1. CASE HandleSubscribe(c) \/ FinishFenced(c)
    <3>1. UNCHANGED <<sequence, events>> /\ \E items : sending' = [client |-> c, items |-> items]
      BY <2>1 DEF HandleSubscribe, FinishFenced
    <3> QED
      BY <1>1, <1>2, <3>1
  <2>2. CASE HandleLocalLayout(c) \/ CommitExternalLayout(c)
    BY <1>3, <2>2 DEF HandleLocalLayout, CommitExternalLayout
  <2>3. CASE UNCHANGED <<sequence, events, sending>>
    BY <1>1, <1>2, <2>3 DEF History
  <2> QED
    BY <1>4, <2>1, <2>2, <2>3
       DEF ConnectionStep, BeginBootstrap, FinishUnfenced, Reopen, AbortBootstrap, RejectBootstrap,
           CloseConnection, AnswerLocalLayout, RefuseLayout, StartExternalLayout,
           AnswerExternalLayout, WriterSend, serverVars
<1>5. ASSUME NEW c \in Clients, ClientStep(c) PROVE History'
  BY <1>1, <1>2, <1>5 DEF History, ClientStep, ClientReceive, VisualGap, SendLayout, Connect,
     LoseConnection, ReadEnd, EndConnection, serverVars
<1>6. CASE PublishBackground
  BY <1>3, <1>6 DEF PublishBackground
<1>7. CASE SendNext
  BY <1>7, SenderIs, <1>1, TypeFacts, <1>2 DEF SendNext
<1>8. CASE UNCHANGED vars
  BY <1>1, <1>8 DEF vars, serverVars, History
<1> QED
  BY <1>4, <1>5, <1>6, <1>7, <1>8 DEF Next

LEMMA UntouchedLocks ==
    ASSUME NEW c \in Clients, Locks(c), Untouched(c)
    PROVE  Locks(c)'
BY DEF Locks, FenceOk, Untouched, LoopOk, PhaseOk

(* A step of another connection that publishes nothing.                    *)
LEMMA Apart ==
    ASSUME TypeOK, NEW c \in Clients, NEW d \in Clients, c # d,
           ConnectionStep(d) \/ ClientStep(d), sequence' = sequence
    PROVE  Untouched(c)
<1>1. sequence \in Nat /\ NoClient # c /\ Idle.client = NoClient
  BY LastIsNumber, StreamAssumption DEF TypeOK, Idle
<1>2. ASSUME ConnectionStep(d) PROVE Untouched(c)
  <2>1. CASE HandleLocalLayout(d) \/ CommitExternalLayout(d)
    BY <1>1, <2>1 DEF HandleLocalLayout, CommitExternalLayout, PublishEvent
  <2>2. CASE HandleSubscribe(d)
    <3>1. /\ sending = Idle /\ sending'.client = d
          /\ UNCHANGED <<capture, layout, open, writer, wire>> /\ client'[c] = client[c]
      BY <2>2 DEF HandleSubscribe, Unlocked, Handled, TypeOK
    <3>2. /\ deferred'[c] = deferred[c]
          /\ (c \in subscribers') <=> (c \in subscribers)
          /\ (c \in fenced') <=> (c \in fenced)
      <4>1. CASE RemoveSubscriber(d)
        BY <4>1 DEF RemoveSubscriber, TypeOK
      <4>2. CASE subscribers' = subscribers \cup {d} /\ UNCHANGED <<fenced, deferred>>
        BY <4>2
      <4> QED
        BY <2>2, <4>1, <4>2 DEF HandleSubscribe
    <3> QED
      BY <1>1, <3>1, <3>2 DEF Untouched
  <2>3. CASE BeginBootstrap(d)
    BY <2>3 DEF BeginBootstrap, FencedWith, Handled, Untouched, TypeOK
  <2>4. CASE FinishFenced(d)
    BY <1>1, <2>4 DEF FinishFenced, Unlocked, Untouched, TypeOK
  <2>5. CASE FinishUnfenced(d) \/ Reopen(d)
    BY <2>5 DEF FinishUnfenced, Reopen, Untouched, TypeOK
  <2>6. CASE AbortBootstrap(d) \/ RejectBootstrap(d)
    BY <2>6 DEF AbortBootstrap, RejectBootstrap, Untouched, TypeOK
  <2>7. CASE CloseConnection(d)
    BY <2>7 DEF CloseConnection, RemoveSubscriber, Untouched, TypeOK
  <2>8. CASE AnswerLocalLayout(d) \/ AnswerExternalLayout(d)
    BY <2>8 DEF AnswerLocalLayout, AnswerExternalLayout, Untouched, TypeOK
  <2>9. CASE RefuseLayout(d) \/ StartExternalLayout(d)
    BY <2>9 DEF RefuseLayout, StartExternalLayout, Handled, Untouched, TypeOK
  <2>10. CASE WriterSend(d)
    BY <2>10 DEF WriterSend, serverVars, Untouched, TypeOK
  <2> QED
    BY <1>2, <2>1, <2>2, <2>3, <2>4, <2>5, <2>6, <2>7, <2>8, <2>9, <2>10 DEF ConnectionStep
<1>3. ASSUME ClientStep(d) PROVE Untouched(c)
  <2>1. CASE ClientReceive(d) \/ VisualGap(d) \/ SendLayout(d)
    BY <2>1 DEF ClientReceive, VisualGap, SendLayout, serverVars, Untouched, TypeOK
  <2>2. CASE Connect(d)
    BY <2>2 DEF Connect, Untouched, TypeOK
  <2>3. CASE EndConnection(d)
    BY <1>1, <2>3 DEF EndConnection, RemoveSubscriber, Untouched, TypeOK
  <2> QED
    BY <1>3, <2>1, <2>2, <2>3 DEF ClientStep, LoseConnection, ReadEnd
<1> QED
  BY <1>2, <1>3

(* What publishing an event does to c: it is held back behind a Bootstrap, *)
(* sent, or none of its business.                                          *)
Holds(c) ==
    /\ c \in fenced /\ c \in fenced' /\ c \in subscribers /\ c \in subscribers'
    /\ deferred'[c] = Append(deferred[c], Event(sequence + 1))
    /\ writer'[c] = writer[c]
Sends(c) ==
    /\ c \notin fenced /\ c \notin fenced'
    /\ writer'[c] = Sent(writer[c], Event(sequence + 1))
    /\ c \in subscribers' <=> (c \in subscribers /\ SentOk(writer[c], Event(sequence + 1)))
    /\ deferred'[c] = deferred[c]
Skips(c) ==
    /\ c \notin fenced /\ c \notin fenced' /\ c \notin subscribers /\ c \notin subscribers'
    /\ writer'[c] = writer[c] /\ deferred'[c] = deferred[c]

LEMMA PublishIs ==
    ASSUME TypeOK, NEW origin, PublishEvent(origin), NEW c \in Clients, FenceOk(c),
           c = origin => capture[c].stage = "none"
    PROVE  /\ Holds(c) \/ Sends(c) \/ (Skips(c) /\ c # origin)
           /\ c = origin => Sends(c)
           /\ sequence' = sequence + 1
BY DEF PublishEvent, Defers, TypeOK, FenceOk, Holds, Sends, Skips

(* A request at the head of its connection's queue, and those behind it.   *)
LEMMA HandlingIs ==
    ASSUME Base, NEW c \in Clients, NEW type, Handling(c, type), Handled(c)
    PROVE  /\ client'[c].phase = client[c].phase /\ client'[c].subscribed = client[c].subscribed
           /\ client'[c].cursor = client[c].cursor /\ client'[c].resync = client[c].resync
           /\ client'[c].out = Tail(client[c].out)
           /\ client[c].phase # "down" /\ writer[c].alive
           /\ type = "layout" => c \in Guis /\ client[c].phase = "up"
           /\ type # "snapshot" => client[c].phase = "up"
           /\ client[c].phase # "up" => \A i \in 1..Len(client'[c].out) : client'[c].out[i].type = "snapshot"
           /\ c \notin Guis => \A i \in 1..Len(client'[c].out) : client'[c].out[i].type # "layout"
<1> DEFINE k == client[c]
<1>1. TypeOK /\ PhaseOk(c) /\ k \in ClientStates
  BY TypeFacts DEF Base, Locks
<1>2. k.out \in Seq(Requests) /\ k.out # <<>> /\ Head(k.out).type = type
  BY <1>1, ClientIs DEF Handling, ClientFields
<1>3. client'[c] = [k EXCEPT !.out = Tail(@)]
  BY <1>1 DEF Handled, TypeOK
<1>4. /\ client'[c].phase = k.phase /\ client'[c].subscribed = k.subscribed
      /\ client'[c].cursor = k.cursor /\ client'[c].resync = k.resync
      /\ client'[c].out = Tail(k.out)
  BY <1>1, <1>3 DEF ClientStates
<1>5. Head(k.out) = k.out[1] /\ 1 \in 1..Len(k.out)
      /\ \A i \in 1..Len(Tail(k.out)) : i + 1 \in 1..Len(k.out) /\ Tail(k.out)[i] = k.out[i + 1]
  BY <1>2
<1>6. k.phase # "down" /\ writer[c].alive
  BY <1>1, <1>2 DEF PhaseOk
<1>7. type = "layout" => c \in Guis
  BY <1>1, <1>2, <1>5 DEF PhaseOk
<1>8. type # "snapshot" => k.phase = "up"
  BY <1>1, <1>2, <1>5 DEF PhaseOk
<1>9. k.phase # "up" => \A i \in 1..Len(Tail(k.out)) : Tail(k.out)[i].type = "snapshot"
  BY <1>1, <1>5 DEF PhaseOk
<1>10. c \notin Guis => \A i \in 1..Len(Tail(k.out)) : Tail(k.out)[i].type # "layout"
  BY <1>1, <1>5 DEF PhaseOk
<1> QED
  BY <1>4, <1>6, <1>7, <1>8, <1>9, <1>10

LEMMA SendNoneOf ==
    ASSUME TypeOK, NEW q \in StreamQueues, NEW m \in Messages, NEW types,
           NoneOf(q.reliable, types), m.type \notin types, "lagged" \notin types
    PROVE  NoneOf(Sent(q, m).reliable, types)
<1>1. SendEffect(q, m, Sent(q, m)) /\ q.reliable \in Seq(Messages)
  BY SendIs, QueueFields
<1>2. CASE Sent(q, m).reliable = Append(q.reliable, m)
  BY <1>1, <1>2 DEF NoneOf
<1>3. CASE Sent(q, m) = q
  BY <1>3
<1>4. CASE Sent(q, m).reliable = <<LagNotice>>
  BY <1>4, MessageFields DEF NoneOf
<1> QED
  BY <1>1, <1>2, <1>3, <1>4 DEF SendEffect

(* Sending keeps a queue as alive as it was, and only a live one lags.     *)
LEMMA SendAlive ==
    ASSUME TypeOK, NEW q \in StreamQueues, NEW m \in Messages
    PROVE  /\ Sent(q, m).alive = q.alive
           /\ (q.lagged => q.alive) => (Sent(q, m).lagged => Sent(q, m).alive)
BY SendIs, QueueFields DEF SendEffect

(* What is sent to a Client that is up, or is no answer to a command,      *)
(* leaves PhaseOk's account of the queue.                                  *)
QueueOk(c, q) ==
    /\ q.alive <=> client[c].phase # "down"
    /\ q.lagged => q.alive
    /\ client[c].phase = "down" => q.reliable = <<>>
    /\ c \notin Guis \/ client[c].phase # "up" => NoneOf(q.reliable, Answered)

LEMMA SendQueueOk ==
    ASSUME Base, NEW c \in Clients, NEW m \in Messages,
           m.type \in Answered => c \in Guis /\ client[c].phase = "up"
    PROVE  QueueOk(c, Sent(writer[c], m))
<1> DEFINE q == writer[c]
<1>1. TypeOK /\ PhaseOk(c) /\ q \in StreamQueues
  BY TypeFacts DEF Base, Locks
<1>2. Sent(q, m).alive = q.alive /\ (Sent(q, m).lagged => Sent(q, m).alive)
  BY <1>1, SendAlive DEF PhaseOk
<1>3. client[c].phase = "down" => Sent(q, m).reliable = <<>>
  BY <1>1, SendIs DEF PhaseOk, SendEffect
<1>4. c \notin Guis \/ client[c].phase # "up" => NoneOf(Sent(q, m).reliable, Answered)
  BY <1>1, SendNoneOf DEF PhaseOk, Answered
<1> QED
  BY <1>1, <1>2, <1>3, <1>4 DEF QueueOk, PhaseOk

LEMMA SameQueueOk ==
    ASSUME Base, NEW c \in Clients
    PROVE  QueueOk(c, writer[c])
BY DEF Base, Locks, PhaseOk, QueueOk

(* A step of the Server leaves the Client as it is, but may take a request *)
(* of it.                                                                  *)
ServerOnly(c) ==
    /\ client'[c].phase = client[c].phase /\ client'[c].subscribed = client[c].subscribed
    /\ client'[c].out = client[c].out \/ client'[c].out = Tail(client[c].out)
    /\ client[c].phase = "down" => client'[c].out = <<>>
    /\ client[c].phase # "up" => \A i \in 1..Len(client'[c].out) : client'[c].out[i].type = "snapshot"
    /\ c \notin Guis => \A i \in 1..Len(client'[c].out) : client'[c].out[i].type # "layout"
    /\ wire'[c] = wire[c]

LEMMA ServerOnlyIs ==
    ASSUME Base, NEW c \in Clients, wire'[c] = wire[c],
           client'[c] = client[c] \/ \E type : Handling(c, type) /\ Handled(c)
    PROVE  ServerOnly(c)
BY HandlingIs DEF ServerOnly, Base, Locks, PhaseOk

LEMMA ServerPhase ==
    ASSUME Base, NEW c \in Clients, ServerOnly(c), QueueOk(c, writer'[c]),
           capture'[c].stage # "none" => client[c].phase # "down",
           c \in subscribers' => client[c].phase = "up",
           layout'[c].stage # "none" => c \in Guis /\ client[c].phase = "up",
           layout'[c].stage = "answering" => capture'[c].stage = "none"
    PROVE  PhaseOk(c)'
BY DEF Base, Locks, PhaseOk, ServerOnly, QueueOk

(* What PhaseOk says of a Client, for the steps of its connection.         *)
LEMMA PhaseFacts ==
    ASSUME Base, NEW c \in Clients
    PROVE  /\ capture[c].stage # "none" => client[c].phase # "down"
           /\ c \in subscribers => client[c].phase = "up"
           /\ layout[c].stage # "none" => c \in Guis /\ client[c].phase = "up"
           /\ layout[c].stage = "answering" => capture[c].stage = "none"
           /\ client[c].phase # "down" => writer[c].alive
BY DEF Base, Locks, PhaseOk

LEMMA SubscribeLocks ==
    ASSUME Base, NEW c \in Clients, HandleSubscribe(c)
    PROVE  Locks(c)'
<1> DEFINE after == Head(client[c].out).seq
<1>1. TypeOK /\ History /\ Locks(c) /\ Handling(c, "subscribe") /\ Handled(c)
  BY DEF Base, HandleSubscribe
<1>2. /\ UNCHANGED <<sequence, events, capture, layout, open, writer, wire>>
      /\ capture[c].stage = "none" /\ layout[c].stage # "answering"
  BY DEF HandleSubscribe, Handling
<1>3. client[c].phase = "up" /\ writer[c].alive /\ ServerOnly(c)
  BY <1>1, <1>2, HandlingIs, ServerOnlyIs
<1>4. PhaseOk(c)'
  BY <1>2, <1>3, SameQueueOk, ServerPhase, PhaseFacts
<1>5. c \notin fenced /\ deferred[c] = <<>>
  BY <1>1, <1>2 DEF Locks, FenceOk
<1> HIDE DEF after
<1>6. CASE RemoveSubscriber(c) /\ sending' = [client |-> c, items |-> <<Rejected>>]
  BY <1>1, <1>6, MessageFields, <1>2, <1>3, <1>4 DEF RemoveSubscriber, TypeOK, FenceOk, LoopOk,
     Locks
<1>7. CASE /\ after \in 0..sequence /\ ~CursorExpired(after)
           /\ subscribers' = subscribers \cup {c} /\ UNCHANGED <<fenced, deferred>>
           /\ sending' = [client |-> c, items |-> SubscribeAnswer(after)]
  <2>1. /\ sending'.items # <<>>
        /\ \A i \in 1..Len(sending'.items) :
             sending'.items[i].type \in {"event", "subscribed", "rejected"}
    <3> DEFINE e == EventsFrom(after, sequence - after)
    <3>1. e \in Seq(Messages) /\ \A i \in 1..Len(e) : e[i].type = "event"
      <4>1. e \in Seq(Messages)
        BY <1>1, <1>7, SubscribeItems
      <4>2. sequence - after \in Nat
        BY <1>1, <1>7, LastIsNumber DEF TypeOK
      <4>3. Len(e) = sequence - after
        BY <4>1, <4>2 DEF EventsFrom
      <4>4. \A i \in 1..sequence - after : e[i] = Event(after + i)
        BY DEF EventsFrom
      <4> QED
        BY <4>1, <4>3, <4>4, MessageFields
    <3>2. Subscribed(sequence) \in Messages /\ Subscribed(sequence).type = "subscribed"
      BY <1>1, TypeFacts, MessageTypes, MessageFields
    <3> HIDE DEF e
    <3>3. \A i \in 1..Len(e \o <<Subscribed(sequence)>>) :
            \/ i \in 1..Len(e) /\ (e \o <<Subscribed(sequence)>>)[i] = e[i]
            \/ (e \o <<Subscribed(sequence)>>)[i] = Subscribed(sequence)
      BY <3>1, <3>2
    <3>4. e \o <<Subscribed(sequence)>> # <<>>
      BY <3>1, <3>2
    <3>5. sending'.items = e \o <<Subscribed(sequence)>>
      BY <1>7 DEF SubscribeAnswer, e
    <3> QED
      BY <3>1, <3>2, <3>3, <3>4, <3>5
  <2>2. FenceOk(c)'
    BY <1>1, <1>2, <1>5, <1>7 DEF Locks, FenceOk
  <2>3. LoopOk(c)'
    BY <1>2, <1>3, <1>5, <1>7, <2>1 DEF LoopOk
  <2> QED
    BY <1>4, <2>2, <2>3 DEF Locks
<1> QED
  BY <1>1, <1>6, <1>7, SubscribeSends DEF after

LEMMA CaptureLocks ==
    ASSUME Base, NEW c \in Clients,
           \/ BeginBootstrap(c) \/ FinishFenced(c) \/ FinishUnfenced(c) \/ Reopen(c)
           \/ AbortBootstrap(c) \/ RejectBootstrap(c) \/ CloseConnection(c)
    PROVE  Locks(c)'
<1>1. TypeOK /\ History /\ Locks(c) /\ c # NoClient /\ Idle.client = NoClient
  BY StreamAssumption DEF Base, Idle
<1>2. /\ deferred[c] \in Seq(Messages) /\ writer[c] \in StreamQueues
      /\ Bootstrap(capture[c].seq) \in Messages /\ SnapshotRejected \in Messages
  BY <1>1, TypeFacts, MessageTypes
<1>3. CASE BeginBootstrap(c)
  <2>1. Handling(c, "snapshot") /\ Handled(c) /\ wire' = wire /\ writer' = writer /\ layout' = layout
    BY <1>3 DEF BeginBootstrap
  <2>2. ServerOnly(c) /\ client[c].phase # "down" /\ layout[c].stage # "answering"
    BY <2>1, HandlingIs, ServerOnlyIs DEF Handling
  <2>3. /\ capture'[c].stage = "captured" /\ deferred'[c] = <<>> /\ subscribers' = subscribers
        /\ c \in fenced' <=> c \in subscribers \/ c \in fenced
        /\ sending' = sending /\ sending = Idle
    BY <1>1, <1>3 DEF BeginBootstrap, FencedWith, Unlocked, TypeOK
  <2>4. PhaseOk(c)'
    BY <2>1, <2>2, <2>3, SameQueueOk, ServerPhase, PhaseFacts
  <2>5. FenceOk(c)' /\ LoopOk(c)'
    BY <1>1, <2>3 DEF FenceOk, LoopOk
  <2> QED
    BY <2>4, <2>5 DEF Locks
<1>4. CASE FinishFenced(c)
  <2>1. /\ capture[c].stage = "captured" /\ c \in fenced /\ writer'[c] = Resumed(writer[c])
        /\ sending' = [client |-> c, items |-> <<Bootstrap(capture[c].seq)>> \o deferred[c]]
        /\ deferred'[c] = <<>>
        /\ UNCHANGED <<subscribers, fenced, capture, layout, wire, client>>
    BY <1>1, <1>4 DEF FinishFenced, TypeOK
  <2>2. ServerOnly(c)
    BY <2>1, ServerOnlyIs
  <2>3. QueueOk(c, writer'[c])
    BY <1>1, <1>2, <2>1, ResumeIs, SameQueueOk DEF QueueOk
  <2>4. PhaseOk(c)'
    BY <2>1, <2>2, <2>3, ServerPhase, PhaseFacts
  <2>5. FenceOk(c)'
    BY <1>1, <2>1 DEF Locks, FenceOk
  <2>6. /\ sending'.items # <<>>
        /\ \A i \in 1..Len(sending'.items) : sending'.items[i].type \in Changes
    BY <1>2, <1>1, MessageFields, <2>1 DEF Locks, FenceOk, Changes
  <2>7. writer'[c].alive /\ layout'[c].stage # "answering"
    BY <1>2, <2>1, ResumeIs, PhaseFacts
  <2>8. LoopOk(c)'
    BY <2>1, <2>6, <2>7 DEF LoopOk
  <2> QED
    BY <2>4, <2>5, <2>8 DEF Locks
<1>5. CASE FinishUnfenced(c)
  BY <1>1, <1>5, <1>2, ServerOnlyIs, SendQueueOk, MessageFields, ServerPhase, PhaseFacts DEF
     FinishUnfenced, NoCapture, TypeOK, Answered, Locks, FenceOk, LoopOk
<1>6. CASE Reopen(c)
  <2>1. /\ \/ capture[c].stage = "captured" /\ c \notin fenced /\ capture'[c].stage = "reopened"
           \/ capture[c].stage = "aborted" /\ capture'[c].stage = "rejecting"
        /\ writer'[c] = Resumed(writer[c])
        /\ UNCHANGED <<subscribers, fenced, deferred, sending, layout, wire, client>>
    BY <1>1, TypeFacts, <1>6 DEF Reopen, TypeOK
  <2>2. ServerOnly(c)
    BY <2>1, ServerOnlyIs
  <2>3. QueueOk(c, writer'[c])
    BY <1>1, <1>2, <2>1, ResumeIs, SameQueueOk DEF QueueOk
  <2>4. PhaseOk(c)'
    BY <2>1, <2>2, <2>3, ServerPhase, PhaseFacts
  <2>5. FenceOk(c)' /\ sending.client # c
    BY <1>1, <2>1 DEF Locks, FenceOk, LoopOk
  <2> QED
    BY <2>1, <2>4, <2>5 DEF Locks, LoopOk
<1>7. CASE AbortBootstrap(c)
  BY <1>1, TypeFacts, <1>7, ServerOnlyIs, SameQueueOk, ServerPhase, PhaseFacts DEF AbortBootstrap,
     Unlocked, TypeOK, FenceOk, LoopOk, Locks
<1>8. CASE RejectBootstrap(c)
  BY <1>1, <1>8, <1>2, ServerOnlyIs, SendQueueOk, MessageFields, ServerPhase, PhaseFacts DEF
     RejectBootstrap, NoCapture, TypeOK, Answered, Locks, FenceOk, LoopOk
<1>9. CASE CloseConnection(c)
  BY <1>1, <1>9, ServerOnlyIs, SameQueueOk, ServerPhase, PhaseFacts DEF CloseConnection,
     RemoveSubscriber, Unlocked, TypeOK, FenceOk, LoopOk, Locks
<1> QED
  BY <1>3, <1>4, <1>5, <1>6, <1>7, <1>8, <1>9

(* An event published by anybody leaves c's fence as it was.               *)
LEMMA PublishFence ==
    ASSUME Base, NEW c \in Clients, NEW origin, PublishEvent(origin),
           c = origin => capture[c].stage = "none", UNCHANGED capture
    PROVE  FenceOk(c)' /\ (c \in subscribers' => c \in subscribers) /\ QueueOk(c, writer'[c])
<1>1. TypeOK /\ FenceOk(c) /\ sequence \in 0..Last /\ sequence < Last /\ Last \in Nat
  BY TypeFacts DEF PublishEvent, Last, Base, Locks
<1>2. /\ Event(sequence + 1) \in Messages /\ Event(sequence + 1).type = "event"
      /\ deferred[c] \in Seq(Messages)
  BY <1>1, MessageTypes, MessageFields, TypeFacts
<1>3. Holds(c) \/ Sends(c) \/ Skips(c)
  BY <1>1, PublishIs
<1>4. QueueOk(c, writer[c]) /\ QueueOk(c, Sent(writer[c], Event(sequence + 1)))
  BY <1>2, SendQueueOk, SameQueueOk DEF Answered
<1>5. CASE Holds(c)
  BY <1>2, <1>1, <1>5, <1>4 DEF Holds, FenceOk
<1>6. CASE Sends(c) \/ Skips(c)
  BY <1>1, <1>4, <1>6 DEF Sends, Skips, FenceOk
<1> QED
  BY <1>3, <1>5, <1>6

(* ... and its other locks.                                                *)
LEMMA PublishLocks ==
    ASSUME Base, NEW c \in Clients, NEW origin, PublishEvent(origin),
           c = origin => capture[c].stage = "none", UNCHANGED <<capture, sending>>, sending = Idle,
           ServerOnly(c), layout'[c].stage # "none" => c \in Guis /\ client[c].phase = "up",
           layout'[c].stage = "answering" => capture[c].stage = "none"
    PROVE  Locks(c)'
BY PublishFence, ServerPhase, PhaseFacts, StreamAssumption DEF Idle, Locks, LoopOk

LEMMA LayoutLocks ==
    ASSUME Base, NEW c \in Clients,
           \/ HandleLocalLayout(c) \/ AnswerLocalLayout(c) \/ RefuseLayout(c)
           \/ StartExternalLayout(c) \/ CommitExternalLayout(c) \/ AnswerExternalLayout(c)
    PROVE  Locks(c)'
<1>1. TypeOK /\ History /\ Locks(c) /\ c # NoClient /\ Idle.client = NoClient
  BY StreamAssumption DEF Base, Idle
<1>2. writer[c] \in StreamQueues /\ LayoutApplied(layout[c].seq) \in Messages /\ LayoutRejected \in Messages
  BY <1>1, TypeFacts, MessageTypes
<1>3. CASE HandleLocalLayout(c)
  BY <1>1, <1>3, HandlingIs, ServerOnlyIs, PublishLocks DEF HandleLocalLayout, Unlocked, Handling,
     TypeOK
<1>4. CASE CommitExternalLayout(c)
  BY <1>1, <1>4, PhaseFacts, ServerOnlyIs, PublishLocks DEF CommitExternalLayout, Unlocked,
     FenceFree, TypeOK
<1>5. CASE AnswerLocalLayout(c) \/ AnswerExternalLayout(c)
  <2>1. /\ layout[c].stage # "none" /\ layout'[c].stage = "none"
        /\ writer'[c] \in {Sent(writer[c], LayoutApplied(layout[c].seq)), Sent(writer[c], LayoutRejected)}
        /\ UNCHANGED <<subscribers, fenced, deferred, capture, sending, wire, client>>
    BY <1>1, <1>5 DEF AnswerLocalLayout, AnswerExternalLayout, NoLayout, TypeOK
  <2>2. c \in Guis /\ client[c].phase = "up" /\ ServerOnly(c)
    BY <2>1, PhaseFacts, ServerOnlyIs
  <2>3. QueueOk(c, writer'[c])
    BY <1>2, <2>1, <2>2, SendQueueOk
  <2>4. PhaseOk(c)'
    BY <2>1, <2>2, <2>3, ServerPhase, PhaseFacts
  <2>5. FenceOk(c)'
    BY <1>1, <2>1 DEF Locks, FenceOk
  <2>6. LoopOk(c)'
    BY <2>2, <2>3, <1>1, <2>1 DEF QueueOk, Locks, LoopOk
  <2> QED
    BY <2>4, <2>5, <2>6 DEF Locks
<1>6. CASE RefuseLayout(c)
  BY <1>1, <1>6, HandlingIs, ServerOnlyIs, <1>2, SendQueueOk, ServerPhase, PhaseFacts DEF
     RefuseLayout, Unlocked, TypeOK, Locks, FenceOk, LoopOk
<1>7. CASE StartExternalLayout(c)
  BY <1>1, <1>7, HandlingIs, ServerOnlyIs, SameQueueOk, ServerPhase, PhaseFacts DEF
     StartExternalLayout, Unlocked, TypeOK, Locks, FenceOk, LoopOk
<1> QED
  BY <1>3, <1>4, <1>5, <1>6, <1>7

LEMMA SendNextLocks ==
    ASSUME Base, NEW c \in Clients, SendNext, sending.client = c
    PROVE  Locks(c)'
<1> DEFINE m == Head(sending.items)
           ok == SentOk(writer[c], m)
           last == ~ok \/ Len(sending.items) = 1
<1>1. TypeOK /\ History /\ Locks(c) /\ c # NoClient /\ Idle.client = NoClient
  BY StreamAssumption DEF Base, Idle
<1>2. /\ sending.items \in Seq(Messages) /\ sending.items # <<>> /\ m \in Messages
      /\ m = sending.items[1] /\ 1 \in 1..Len(sending.items) /\ writer[c] \in StreamQueues
      /\ sending \in [client : Clients \cup {NoClient}, items : Seq(Messages)]
  BY <1>1, TypeFacts DEF Locks, LoopOk
<1>3. /\ writer'[c] = Sent(writer[c], m)
      /\ sending' = IF last THEN Idle ELSE [sending EXCEPT !.items = Tail(@)]
      /\ capture'[c] = IF last THEN NoCapture ELSE capture[c]
      /\ UNCHANGED <<layout, wire, client>>
  BY <1>1 DEF SendNext, TypeOK
<1>4. /\ ok => /\ c \in fenced' <=> c \in fenced /\ ~last
               /\ c \in subscribers' <=> c \in subscribers
               /\ deferred'[c] = deferred[c]
      /\ ~ok => c \notin fenced' /\ c \notin subscribers' /\ deferred'[c] = <<>>
  BY <1>1 DEF SendNext, RemoveSubscriber, TypeOK
<1>5. /\ deferred[c] = <<>> /\ writer[c].alive /\ layout[c].stage # "answering"
      /\ capture[c].stage # "reopened" /\ m.type \notin Answered
  BY <1>1, <1>2 DEF Locks, LoopOk, Changes, Answered
<1>6. QueueOk(c, writer'[c]) /\ ServerOnly(c)
  BY <1>2, <1>3, <1>5, SendQueueOk, ServerOnlyIs
<1>7. NoCapture.stage = "none"
  BY DEF NoCapture
<1>8. PhaseOk(c)'
  BY <1>4, <1>3, <1>7, <1>5, <1>6, ServerPhase, PhaseFacts
<1>9. FenceOk(c)'
  BY <1>3, <1>4, <1>5, <1>7, <1>1 DEF FenceOk, last, Locks
<1>10. LoopOk(c)'
  <2>1. CASE last
    BY <1>1, <1>3, <2>1 DEF LoopOk
  <2>2. CASE ~last
    <3>1. sending'.items = Tail(sending.items) /\ ok /\ Len(sending.items) # 1
      BY <1>2, <1>3, <2>2
    <3>2. /\ sending'.items # <<>>
          /\ \A i \in 1..Len(sending'.items) :
               i + 1 \in 1..Len(sending.items) /\ sending'.items[i] = sending.items[i + 1]
      <4> DEFINE s == sending.items
      <4>1. s \in Seq(Messages) /\ s # <<>> /\ Len(s) # 1
        BY <1>2, <3>1
      <4> HIDE DEF s
      <4>2. s \in Seq(Frames)
        BY <1>1, <4>1, ChainsAreFrames
      <4>3. /\ Len(s) \in Nat /\ Len(s) >= 1 /\ Len(Tail(s)) = Len(s) - 1
            /\ \A i \in 1..Len(Tail(s)) : Tail(s)[i] = s[i + 1]
        BY <4>1, <4>2, TailIndex
      <4>4. Len(Tail(s)) # 0 /\ \A i \in 1..Len(Tail(s)) : i + 1 \in 1..Len(s)
        BY <4>1, <4>3
      <4>5. Tail(s) # <<>>
        <5>1. Len(<<>>) = 0
          OBVIOUS
        <5> QED
          BY <4>4, <5>1
      <4>6. sending'.items = Tail(s)
        BY <3>1 DEF s
      <4> QED
        BY <4>3, <4>4, <4>5, <4>6 DEF s
    <3>3. writer'[c].alive /\ deferred'[c] = <<>> /\ layout'[c].stage # "answering"
      BY <1>1, <1>2, <1>3, <1>4, <1>5, <3>1, SendAlive
    <3>4. capture'[c] = capture[c] /\ (c \in fenced' <=> c \in fenced)
      BY <1>3, <1>4, <2>2, <3>1
    <3>5. \/ /\ capture[c].stage = "none"
             /\ \A i \in 1..Len(sending.items) :
                  sending.items[i].type \in {"event", "subscribed", "rejected"}
          \/ /\ capture[c].stage = "captured" /\ c \in fenced
             /\ \A i \in 1..Len(sending.items) : sending.items[i].type \in Changes
      BY <1>1 DEF Locks, LoopOk
    <3> HIDE DEF m, ok, last
    <3> QED
      BY <3>2, <3>3, <3>4, <3>5 DEF LoopOk
  <2> QED
    BY <2>1, <2>2
<1> QED
  BY <1>8, <1>9, <1>10 DEF Locks

LEMMA WireNoneOf ==
    ASSUME NEW a \in Seq(Frames), NEW m \in Frames, NEW types, NoneOf(a, types), m.type \notin types
    PROVE  NoneOf(Append(a, m), types)
BY DEF NoneOf

LEMMA WriterLocks ==
    ASSUME Base, NEW c \in Clients, WriterSend(c)
    PROVE  Locks(c)'
<1> DEFINE q == writer[c]
<1>1. TypeOK /\ Locks(c) /\ q \in StreamQueues /\ wire[c] \in Seq(Messages)
  BY TypeFacts DEF Base
<1>2. /\ q.reliable # <<>> /\ AfterReceive(q).reliable = Tail(q.reliable)
      /\ AfterReceive(q).alive = q.alive /\ AfterReceive(q).lagged = q.lagged
      /\ Received(q) = Head(q.reliable) /\ q.reliable \in Seq(Messages) /\ Received(q) \in Messages
  BY <1>1, ReceiveIs, QueueFields DEF WriterSend
<1>3. /\ wire'[c] = Append(wire[c], Received(q)) /\ writer'[c] = AfterReceive(q)
      /\ UNCHANGED <<subscribers, fenced, deferred, capture, sending, layout, client>>
  BY <1>1 DEF WriterSend, serverVars, TypeOK
<1>4. q.reliable \in Seq(Frames) /\ wire[c] \in Seq(Frames) /\ Received(q) \in Frames
  BY <1>1, <1>2, ChainsAreFrames, MessagesAreFrames
<1>5. c \notin Guis \/ client[c].phase # "up" =>
        NoneOf(wire'[c], Answered) /\ NoneOf(writer'[c].reliable, Answered)
  <2> SUFFICES ASSUME c \notin Guis \/ client[c].phase # "up"
               PROVE  NoneOf(wire'[c], Answered) /\ NoneOf(writer'[c].reliable, Answered)
    OBVIOUS
  <2>1. NoneOf(wire[c], Answered) /\ NoneOf(q.reliable, Answered)
    BY <1>1 DEF Locks, PhaseOk
  <2>2. Head(q.reliable) = q.reliable[1] /\ 1 \in 1..Len(q.reliable)
    BY <1>2
  <2>3. Received(q).type \notin Answered
    BY <1>2, <2>1, <2>2 DEF NoneOf
  <2>4. NoneOf(Tail(q.reliable), Answered)
    BY <1>2, <1>4, <2>1, TailKeeps
  <2>5. NoneOf(Append(wire[c], Received(q)), Answered)
    BY <1>4, <2>1, <2>3, WireNoneOf
  <2> QED
    BY <1>2, <1>3, <2>4, <2>5
<1>6. client[c].phase # "down"
  BY <1>1, <1>2 DEF Locks, PhaseOk
<1>7. PhaseOk(c)'
  BY <1>1, <1>2, <1>3, <1>5, <1>6 DEF q, Locks, PhaseOk
<1>8. FenceOk(c)'
  BY <1>1, <1>3 DEF Locks, FenceOk
<1>9. LoopOk(c)'
  BY <1>1, <1>2, <1>3 DEF Locks, LoopOk
<1> QED
  BY <1>7, <1>8, <1>9 DEF Locks

(* What the Client sends after reading goes behind its other requests.     *)
LEMMA AskedOut ==
    ASSUME NEW k \in ClientStates, NEW out2, NEW x, Asks(k.out, out2, x)
    PROVE  \A i \in 1..Len(out2) :
             \/ i \in 1..Len(k.out) /\ out2[i] = k.out[i]
             \/ out2[i] = SnapshotRequest
             \/ out2[i] = Subscribe(x)
BY ClientIs DEF ClientFields, Asks

(* A step of the Client alone changes nothing on the Server.               *)
LEMMA ClientPhase ==
    ASSUME Base, NEW c \in Clients, UNCHANGED <<serverVars, writer>>,
           client[c].phase # "down",
           \/ client'[c].phase = client[c].phase
           \/ client'[c].phase = "up",
           wire'[c] = wire[c] \/ (wire[c] # <<>> /\ wire'[c] = Tail(wire[c])),
           client'[c].phase # "up" => client'[c] = client[c],
           c \notin Guis => \A i \in 1..Len(client'[c].out) : client'[c].out[i].type # "layout"
    PROVE  Locks(c)'
<1>1. TypeOK /\ Locks(c) /\ wire[c] \in Seq(Frames)
  BY TypeFacts, ChainsAreFrames DEF Base
<1>2. UNCHANGED <<subscribers, fenced, deferred, capture, sending, layout, open, writer>>
  BY DEF serverVars
<1>3. NoneOf(wire[c], Answered) => NoneOf(wire'[c], Answered)
  BY <1>1, TailKeeps
<1>4. client'[c].phase # "down" /\ (client'[c].phase # "up" => client[c].phase # "up")
  OBVIOUS
<1>5. PhaseOk(c)'
  BY <1>1, <1>2, <1>3, <1>4 DEF Locks, PhaseOk
<1>6. FenceOk(c)' /\ LoopOk(c)'
  BY <1>1, <1>2 DEF Locks, FenceOk, LoopOk
<1> QED
  BY <1>5, <1>6 DEF Locks

LEMMA ReceiveLocks ==
    ASSUME Base, NEW c \in Clients, ClientReceive(c)
    PROVE  Locks(c)'
<1> DEFINE k == client[c]
           m == Head(wire[c])
           k2 == client'[c]
<1>1. /\ TypeOK /\ Locks(c) /\ k \in ClientStates /\ wire[c] # <<>>
      /\ k2 = On(c, k, m) /\ wire'[c] = Tail(wire[c]) /\ UNCHANGED <<serverVars, writer>>
  BY TypeFacts DEF Base, ClientReceive, TypeOK
<1>2. k.phase # "down" /\ m \in Messages /\ (c \notin Guis => m.type \notin Answered)
  BY <1>1, ReaderIs
<1>3. /\ k.phase = "connecting" => HandshakeEffect(k, m, k2)
      /\ k.phase = "up" => ReadEffect(k, m, k2)
  BY <1>1, <1>2, ReadIs
<1>4. k.phase = "connecting" \/ k.phase = "up"
  BY <1>1, <1>2, ClientIs DEF ClientFields
<1> HIDE DEF k, m, k2
<1>5. /\ k2.phase = k.phase \/ k2.phase = "up"
      /\ k2.phase # "up" => k2 = k
      /\ k2 = k \/ Asks(k.out, k2.out, k2.cursor)
  BY <1>3, <1>4 DEF HandshakeEffect, ReadEffect
<1>6. c \notin Guis => \A i \in 1..Len(k2.out) : k2.out[i].type # "layout"
  <2>1. c \notin Guis => \A i \in 1..Len(k.out) : k.out[i].type # "layout"
    BY <1>1 DEF Locks, PhaseOk, k
  <2>2. CASE k2 = k
    BY <2>1, <2>2
  <2>3. CASE Asks(k.out, k2.out, k2.cursor)
    <3>1. \A i \in 1..Len(k2.out) :
             \/ i \in 1..Len(k.out) /\ k2.out[i] = k.out[i]
             \/ k2.out[i] = SnapshotRequest
             \/ k2.out[i] = Subscribe(k2.cursor)
      BY <1>1, <2>3, AskedOut
    <3> QED
      BY <2>1, <3>1, MessageFields
  <2> QED
    BY <1>5, <2>2, <2>3
<1> QED
  BY <1>1, <1>2, <1>5, <1>6, ClientPhase DEF k, k2

LEMMA ClientLocks ==
    ASSUME Base, NEW c \in Clients, VisualGap(c) \/ SendLayout(c) \/ Connect(c) \/ EndConnection(c)
    PROVE  Locks(c)'
<1>1. TypeOK /\ Locks(c) /\ client[c] \in ClientStates /\ client[c].out \in Seq(Requests)
      /\ writer[c] \in StreamQueues /\ c # NoClient /\ Idle.client = NoClient
  BY TypeFacts, ClientIs, StreamAssumption DEF Base, ClientFields, Idle
<1>2. ASSUME NEW r, r.type = "layout" => c \in Guis
      PROVE  c \notin Guis => \A i \in 1..Len(Append(client[c].out, r)) : Append(client[c].out, r)[i].type # "layout"
  BY <1>1, <1>2 DEF Locks, PhaseOk
<1>3. CASE VisualGap(c)
  <2>1. client'[c] = RequestSnapshot(client[c]) /\ client[c].phase = "up"
        /\ UNCHANGED <<serverVars, writer>> /\ wire' = wire
    BY <1>1, <1>3 DEF VisualGap, TypeOK
  <2>2. /\ client'[c].phase = "up"
        /\ client'[c].out \in {client[c].out, Append(client[c].out, SnapshotRequest)}
    BY <1>1, <2>1, RequestIs
  <2>3. c \notin Guis => \A i \in 1..Len(client'[c].out) : client'[c].out[i].type # "layout"
    <3>1. SnapshotRequest.type # "layout"
      BY MessageFields
    <3>2. c \notin Guis => \A i \in 1..Len(client[c].out) : client[c].out[i].type # "layout"
      BY <1>1 DEF Locks, PhaseOk
    <3> QED
      BY <1>2, <2>2, <3>1, <3>2
  <2> QED
    BY <2>1, <2>2, <2>3, ClientPhase
<1>4. CASE SendLayout(c)
  <2>1. /\ c \in Guis /\ client[c].subscribed
        /\ UNCHANGED <<serverVars, writer>> /\ wire' = wire
        /\ client' = [client EXCEPT ![c] = [client[c] EXCEPT !.out = Append(@, Layout)]]
    BY <1>1, <1>4 DEF SendLayout
  <2>2. client'[c].phase = client[c].phase
    BY <1>1, <2>1 DEF TypeOK, ClientStates
  <2>3. client[c].phase = "up"
    BY <1>1, <2>1 DEF Locks, PhaseOk
  <2> QED
    BY <2>1, <2>2, <2>3, ClientPhase
<1>5. CASE Connect(c)
  <2>1. /\ client[c].phase = "down" /\ writer'[c] = NewQueue
        /\ UNCHANGED <<subscribers, fenced, deferred, capture, sending, layout, wire>>
    BY <1>1, <1>5 DEF Connect, TypeOK
  <2>2. client'[c].phase = "connecting" /\ client'[c].subscribed = client[c].subscribed
        /\ client'[c].out = <<SnapshotRequest>>
    BY <1>1, <1>5 DEF Connect, TypeOK, ClientStates
  <2>3. /\ NewQueue.alive /\ ~NewQueue.lagged /\ NewQueue.reliable = <<>>
    BY NewIs
  <2>4. \A i \in 1..Len(<<SnapshotRequest>>) : <<SnapshotRequest>>[i].type = "snapshot"
    BY MessageFields
  <2>5. PhaseOk(c) /\ FenceOk(c) /\ LoopOk(c) /\ ~writer[c].alive
    BY <1>1, <2>1 DEF Locks, PhaseOk
  <2>6. NoneOf(<<>>, Answered)
    BY EmptyChain
  <2>7. PhaseOk(c)'
    BY <2>1, <2>2, <2>3, <2>4, <2>5, <2>6 DEF PhaseOk
  <2>8. FenceOk(c)' /\ sending.client # c
    BY <2>1, <2>5 DEF FenceOk, LoopOk
  <2> QED
    BY <2>1, <2>7, <2>8 DEF Locks, LoopOk
<1>6. CASE EndConnection(c)
  <2>1. /\ writer'[c] = Closed(writer[c]) /\ wire'[c] = <<>> /\ capture'[c].stage = "none"
        /\ sending'.client # c /\ layout'[c].stage = "none"
        /\ c \notin subscribers' /\ c \notin fenced' /\ deferred'[c] = <<>>
        /\ client'[c] = Offline(client[c])
    BY <1>1, <1>6 DEF EndConnection, RemoveSubscriber, NoCapture, NoLayout, TypeOK
  <2>2. client'[c].phase = "down" /\ ~client'[c].subscribed /\ client'[c].out = <<>>
    BY <1>1, <2>1 DEF Offline, ClientStates
  <2>3. ~writer'[c].alive /\ ~writer'[c].lagged /\ writer'[c].reliable = <<>>
    BY <1>1, <2>1, ResumeIs
  <2>4. NoneOf(<<>>, Answered)
    BY EmptyChain
  <2>5. PhaseOk(c)'
    BY <2>1, <2>2, <2>3, <2>4 DEF PhaseOk
  <2>6. FenceOk(c)'
    BY <2>1 DEF FenceOk
  <2> QED
    BY <2>1, <2>5, <2>6 DEF Locks, LoopOk
<1> QED
  BY <1>3, <1>4, <1>5, <1>6

(* A step that publishes, seen by another connection.                      *)
LEMMA PublishApart ==
    ASSUME Base, NEW c \in Clients, NEW origin, origin # c, PublishEvent(origin),
           UNCHANGED <<wire, capture, sending>>, sending = Idle, client'[c] = client[c],
           layout'[c] = layout[c]
    PROVE  Locks(c)'
BY ServerOnlyIs, PublishLocks, PhaseFacts

LEMMA SendNextApart ==
    ASSUME TypeOK, NEW c \in Clients, SendNext, sending.client # c
    PROVE  Untouched(c)
BY StreamAssumption, TypeFacts DEF SendNext, Idle, TypeOK, RemoveSubscriber, Untouched

LEMMA LocksStep ==
    ASSUME Base, [Next]_vars, NEW c \in Clients
    PROVE  Locks(c)'
<1>1. TypeOK /\ Locks(c) /\ c # NoClient
  BY StreamAssumption DEF Base
<1>2. ASSUME Untouched(c) PROVE Locks(c)'
  BY <1>1, <1>2, UntouchedLocks
<1>3. CASE ConnectionStep(c)
  BY <1>3, SubscribeLocks, CaptureLocks, LayoutLocks, WriterLocks DEF ConnectionStep
<1>4. CASE ClientStep(c)
  BY <1>4, ReceiveLocks, ClientLocks DEF ClientStep, LoseConnection, ReadEnd
<1>5. ASSUME NEW d \in Clients, d # c, ConnectionStep(d) \/ ClientStep(d) PROVE Locks(c)'
  <2>1. CASE HandleLocalLayout(d)
    BY <1>1, <1>5, <2>1, PublishApart DEF HandleLocalLayout, Unlocked, Handled, TypeOK
  <2>2. CASE CommitExternalLayout(d)
    BY <1>1, <1>5, <2>2, PublishApart DEF CommitExternalLayout, Unlocked, TypeOK
  <2>3. CASE sequence' = sequence
    BY <1>1, <1>2, <1>5, <2>3, Apart
  <2>4. ConnectionStep(d) => HandleLocalLayout(d) \/ CommitExternalLayout(d) \/ sequence' = sequence
    BY DEF ConnectionStep, HandleSubscribe, BeginBootstrap, FinishFenced, FinishUnfenced, Reopen,
           AbortBootstrap, RejectBootstrap, CloseConnection, AnswerLocalLayout, RefuseLayout,
           StartExternalLayout, AnswerExternalLayout, WriterSend, serverVars
  <2>5. ClientStep(d) => sequence' = sequence
    BY DEF ClientStep, ClientReceive, VisualGap, SendLayout, Connect, LoseConnection, ReadEnd,
           EndConnection, serverVars
  <2> QED
    BY <1>5, <2>1, <2>2, <2>3, <2>4, <2>5
<1>6. CASE SendNext
  BY <1>6, SendNextLocks, <1>1, <1>2, SendNextApart
<1>7. CASE PublishBackground
  BY <1>7, <1>1, PublishApart DEF PublishBackground, Unlocked
<1>8. CASE UNCHANGED vars
  BY <1>2, <1>8 DEF vars, serverVars, Untouched
<1> QED
  BY <1>3, <1>4, <1>5, <1>6, <1>7, <1>8 DEF Next

LEMMA BaseInit == Init => Base
<1> SUFFICES ASSUME Init PROVE Base
  OBVIOUS
<1> DEFINE k0 == [phase |-> "down", cursor |-> 0, subscribed |-> FALSE, subPending |-> FALSE,
                  resync |-> FALSE, recover |-> FALSE, out |-> <<>>]
           q0 == Closed(NewQueue)
<1>1. PICK s \in Settings :
        spent = [setting |-> s, gaps |-> 0, layouts |-> 0, failures |-> 0, drops |-> 0]
  BY DEF Init
<1>2. /\ s \in Setting /\ spent.setting = s
      /\ spent \in [setting : Settings, gaps : Nat, layouts : Nat, failures : Nat, drops : Nat]
  BY <1>1, StreamAssumption
<1>3. /\ Last \in Nat /\ 0 \in 0..Last
      /\ spent.gaps <= spent.setting.gaps /\ spent.layouts <= spent.setting.layouts
      /\ spent.failures <= spent.setting.failures /\ spent.drops <= spent.setting.drops
  BY <1>1, <1>2 DEF Last, Setting
<1>4. q0 \in StreamQueues /\ q0.reliable = <<>> /\ ~q0.alive /\ ~q0.lagged
  BY NewIs, ResumeIs
<1>5. k0 \in ClientStates
  BY <1>3 DEF ClientStates
<1>6. NoCapture \in [stage : {"none", "captured", "reopened", "aborted", "rejecting"}, seq : 0..Last]
      /\ NoLayout \in [stage : {"none", "answering", "running", "committed"}, seq : 0..Last]
      /\ Idle \in [client : Clients \cup {NoClient}, items : Seq(Messages)]
  BY <1>3 DEF NoCapture, NoLayout, Idle
<1>7. TypeOK
  BY <1>4, <1>5, StreamAssumption, <1>2, <1>3, <1>6 DEF Init, k0, q0, TypeOK
<1>8. History
  BY DEF Init, History, Idle
<1>9. ASSUME NEW c \in Clients PROVE Locks(c)
  BY StreamAssumption, <1>4, EmptyChain DEF Init, NoCapture, NoLayout, Idle, Locks, FenceOk,
     LoopOk, PhaseOk
<1> QED
  BY <1>7, <1>8, <1>9 DEF Base

LEMMA BaseStep == Base /\ [Next]_vars => Base'
BY TypeStep, HistoryStep, LocksStep DEF Base

-----------------------------------------------------------------------------
(* What is on its way to a Client.                                         *)

(* What is on its way to c, and how much of it is beyond the reach of a    *)
(* response: that goes behind what was sent, and not before a Bootstrap.   *)
Ch(c) == Gone(c) \o Due(c)
Reach(c) == IF capture[c].stage = "none" THEN Len(Gone(c)) ELSE Len(Ch(c))

(* What is published reaches c: its writer takes it, or a Bootstrap that   *)
(* will reopen the writer is being made.                                   *)
Streams(c) == ~writer[c].lagged \/ (capture[c].stage = "captured" /\ sending.client # c)

(* A response to a committed Layout command is still to be sent.           *)
Owed(c) == Streams(c) /\ layout[c].stage \in {"answering", "committed"}

(* The second half of the invariant.  Nothing is newer than the Server's   *)
(* Session, and no Bootstrap takes the Client back, ...                    *)
Behind(c) == Bounded(Ch(c), sequence) /\ Ordered(Ch(c), client[c].cursor)

Cursors(c) ==
    /\ client[c].cursor <= sequence /\ layout[c].seq <= sequence
    /\ \A i \in 1..Len(client[c].out) :
         client[c].out[i].type = "subscribe" => client[c].out[i].seq <= client[c].cursor

(* ... and unless the connection fails, what is on its way leads a         *)
(* subscriber to the Server's Session, or tells the Client that it is none.*)
Flows(c) ==
    /\ Paused(Ch(c)) /\ NoneOf(Ch(c), {"snapshotRejected"})
    /\ Streams(c) => Recovered(Ch(c))
    /\ Streams(c) /\ c \in subscribers => Replayed(Ch(c), client[c].cursor) = sequence
    /\ c \notin subscribers => Told(Ch(c), client[c].subscribed)
    /\ writer[c].lagged => LagSaid(Gone(c), client[c].subscribed)
    /\ AnswersConfirmed(Ch(c), client[c].cursor, client[c].resync)
    /\ Owed(c) => Confirmed(Ch(c), Reach(c), client[c].cursor, client[c].resync, layout[c].seq)

Chain(c) == Behind(c) /\ Cursors(c) /\ (~Failing(c) => Flows(c))

StreamInv == Base /\ \A c \in Clients : Chain(c)

-----------------------------------------------------------------------------
(* The pieces of a chain                                                   *)

LEMMA ChainTypes ==
    ASSUME TypeOK, NEW c \in Clients
    PROVE  /\ wire[c] \in Seq(Frames) /\ writer[c].reliable \in Seq(Frames)
           /\ writer[c].reliable \in Seq(Messages) /\ wire[c] \in Seq(Messages)
           /\ Gone(c) \in Seq(Messages) /\ Gone(c) \in Seq(Frames)
           /\ Looping(c) \in Seq(Frames) /\ Captured(c) \in Seq(Frames)
           /\ Due(c) \in Seq(Frames) /\ Ch(c) \in Seq(Frames) /\ Ch(c) \in Seq(Messages)
           /\ client[c].cursor \in Nat /\ client[c].resync \in BOOLEAN
           /\ client[c].subscribed \in BOOLEAN /\ writer[c].lagged \in BOOLEAN
           /\ sequence \in Nat /\ layout[c].seq \in Nat
           /\ Begins(wire[c], Gone(c)) /\ Begins(Gone(c), Ch(c))
<1>1. /\ wire[c] \in Seq(Messages) /\ writer[c].reliable \in Seq(Messages) /\ deferred[c] \in Seq(Messages)
      /\ sending.items \in Seq(Messages) /\ Bootstrap(capture[c].seq) \in Messages
      /\ writer[c].lagged \in BOOLEAN
  BY TypeFacts, QueueFields, MessageTypes
<1>2. Gone(c) \in Seq(Messages) /\ Looping(c) \in Seq(Messages) /\ Captured(c) \in Seq(Messages)
  BY <1>1 DEF Gone, Looping, Captured
<1>3. Due(c) \in Seq(Messages)
  BY <1>2 DEF Due
<1>4. Ch(c) \in Seq(Messages)
  BY <1>2, <1>3 DEF Ch
<1>5. /\ wire[c] \in Seq(Frames) /\ writer[c].reliable \in Seq(Frames) /\ Gone(c) \in Seq(Frames)
      /\ Looping(c) \in Seq(Frames) /\ Captured(c) \in Seq(Frames)
      /\ Due(c) \in Seq(Frames) /\ Ch(c) \in Seq(Frames)
  BY <1>1, <1>2, <1>3, <1>4, ChainsAreFrames
<1>6. Begins(wire[c], Gone(c)) /\ Begins(Gone(c), Ch(c))
  BY <1>5, BeginningConcat DEF Gone, Ch
<1>7. /\ client[c].cursor \in Nat /\ client[c].resync \in BOOLEAN /\ client[c].subscribed \in BOOLEAN
      /\ sequence \in Nat /\ layout[c].seq \in Nat
  BY TypeFacts, ClientIs DEF ClientFields
<1> QED
  BY <1>1, <1>2, <1>4, <1>5, <1>6, <1>7

LEMMA ConcatAssoc ==
    ASSUME NEW a \in Seq(Frames), NEW b \in Seq(Frames), NEW d \in Seq(Frames)
    PROVE  (a \o b) \o d = a \o (b \o d)
OBVIOUS

LEMMA ConcatAppend ==
    ASSUME NEW a \in Seq(Frames), NEW b \in Seq(Frames), NEW m \in Frames
    PROVE  a \o Append(b, m) = Append(a \o b, m)
OBVIOUS

LEMMA NoneConcat ==
    ASSUME NEW a \in Seq(Frames), NEW b \in Seq(Frames), NEW types,
           NoneOf(a, types), NoneOf(b, types)
    PROVE  NoneOf(a \o b, types)
<1> DEFINE s == a \o b
<1>1. /\ Len(s) = Len(a) + Len(b) /\ Len(a) \in Nat /\ Len(b) \in Nat
      /\ \A i \in 1..Len(a) : s[i] = a[i]
      /\ \A i \in 1..Len(b) : s[Len(a) + i] = b[i]
  BY ConcatIndex
<1> HIDE DEF s
<1>2. ASSUME NEW i \in 1..Len(s) PROVE s[i].type \notin types
  <2>1. CASE i \in 1..Len(a)
    BY <1>1, <2>1 DEF NoneOf
  <2>2. CASE i \notin 1..Len(a)
    <3>1. i - Len(a) \in 1..Len(b) /\ Len(a) + (i - Len(a)) = i
      BY <1>1, <2>2
    <3> QED
      BY <1>1, <3>1 DEF NoneOf
  <2> QED
    BY <2>1, <2>2
<1> QED
  BY <1>2 DEF NoneOf, s

(* The chain is what EventStream's properties are about.                   *)
LEMMA InFlightIs ==
    ASSUME TypeOK, NEW c \in Clients
    PROVE  InFlight(c) = Ch(c)
<1>1. InFlight(c) = (Gone(c) \o Looping(c)) \o Captured(c)
  BY DEF InFlight, Gone, Looping, Captured
<1>2. (Gone(c) \o Looping(c)) \o Captured(c) = Gone(c) \o (Looping(c) \o Captured(c))
  BY SMTT(30), ChainTypes, ConcatAssoc
<1> QED
  BY <1>1, <1>2 DEF Ch, Due

LEMMA BoundedMore ==
    ASSUME NEW s \in Seq(Frames), NEW v \in Nat, NEW w \in Nat, v <= w, Bounded(s, v)
    PROVE  Bounded(s, w)
<1> SUFFICES ASSUME NEW i \in 1..Len(s) PROVE s[i].seq <= w
  BY DEF Bounded
<1>1. s[i] \in Frames /\ s[i].seq <= v
  BY DEF Bounded
<1>2. s[i].seq \in Nat
  BY <1>1 DEF Frames
<1> QED
  BY <1>1, <1>2

(* Frames that neither move the cursor back nor confirm or tell anything   *)
(* follow a chain.                                                         *)
Plain(b) == \A i \in 1..Len(b) : b[i].type \in {"event", "subscribed"}

LEMMA PlainConcat ==
    ASSUME NEW a \in Seq(Frames), NEW b \in Seq(Frames), Plain(b)
    PROVE  /\ \A v : Bounded(a, v) /\ Bounded(b, v) => Bounded(a \o b, v)
           /\ \A x : Ordered(a, x) => Ordered(a \o b, x)
           /\ Recovered(a) => Recovered(a \o b)
           /\ Recovered(a) /\ Paused(a) => Paused(a \o b)
           /\ NoneOf(a, {"snapshotRejected"}) => NoneOf(a \o b, {"snapshotRejected"})
           /\ \A x, r : AnswersConfirmed(a, x, r) => AnswersConfirmed(a \o b, x, r)
           /\ \A x, r, v : Confirmed(a, Len(a), x, r, v) => Confirmed(a \o b, Len(a), x, r, v)
<1> DEFINE s == a \o b
<1>1. /\ s \in Seq(Frames) /\ Len(s) = Len(a) + Len(b) /\ Len(a) \in Nat /\ Len(b) \in Nat
      /\ \A i \in 1..Len(a) : s[i] = a[i]
      /\ \A i \in 1..Len(b) : s[Len(a) + i] = b[i]
  BY ConcatIndex
<1> HIDE DEF s
<1>2. ASSUME NEW i \in 1..Len(s)
      PROVE  \/ i \in 1..Len(a) /\ s[i] = a[i]
             \/ i \notin 1..Len(a) /\ i - Len(a) \in 1..Len(b) /\ s[i] = b[i - Len(a)]
                  /\ s[i].type \in {"event", "subscribed"}
  <2>1. CASE i <= Len(a)
    BY <1>1, <2>1
  <2>2. CASE i > Len(a)
    <3>1. i - Len(a) \in 1..Len(b) /\ Len(a) + (i - Len(a)) = i
      BY <1>1, <2>2
    <3>2. s[i] = b[i - Len(a)]
      BY <1>1, <3>1
    <3> QED
      BY <1>1, <2>2, <3>1, <3>2 DEF Plain
  <2> QED
    BY <1>1, <2>1, <2>2
<1>3. ASSUME NEW v, Bounded(a, v), Bounded(b, v) PROVE Bounded(s, v)
  BY <1>2, <1>3 DEF Bounded
<1>4. ASSUME NEW x, Ordered(a, x) PROVE Ordered(s, x)
  <2> SUFFICES ASSUME NEW j \in 1..Len(s), s[j].type = "bootstrap"
               PROVE  x <= s[j].seq /\ \A i \in 1..j - 1 : s[i].type \in Changes => s[i].seq <= s[j].seq
    BY DEF Ordered
  <2>1. j \in 1..Len(a) /\ s[j] = a[j]
    BY <1>2
  <2>2. \A i \in 1..j - 1 : i \in 1..Len(a) /\ s[i] = a[i]
    BY <1>1, <2>1
  <2> QED
    BY <1>4, <2>1, <2>2 DEF Ordered
<1>5. ASSUME Recovered(a) PROVE Recovered(s)
  <2> SUFFICES ASSUME NEW i \in 1..Len(s), s[i].type = "lagged"
               PROVE  \E j \in i + 1..Len(s) : s[j].type = "bootstrap"
    BY DEF Recovered
  <2>1. i \in 1..Len(a) /\ s[i] = a[i]
    BY <1>2
  <2>2. PICK j \in i + 1..Len(a) : a[j].type = "bootstrap"
    BY <1>5, <2>1 DEF Recovered
  <2>3. j \in i + 1..Len(s) /\ s[j] = a[j]
    BY <1>1, <2>1, <2>2
  <2> QED
    BY <2>2, <2>3
<1>6. ASSUME Recovered(a), Paused(a) PROVE Paused(s)
  <2> SUFFICES ASSUME NEW i \in 1..Len(s), NEW j \in i + 1..Len(s),
                      s[i].type = "lagged", s[j].type = "event"
               PROVE  \E k \in i + 1..j - 1 : s[k].type = "bootstrap"
    BY DEF Paused
  <2>1. i \in 1..Len(a) /\ s[i] = a[i]
    BY <1>2
  <2>2. j \in 1..Len(s)
    BY <1>1, <2>1
  <2>3. CASE j \in 1..Len(a)
    <3>1. s[j] = a[j] /\ j \in i + 1..Len(a)
      BY <1>1, <2>3
    <3>2. PICK k \in i + 1..j - 1 : a[k].type = "bootstrap"
      BY <1>6, <2>1, <3>1 DEF Paused
    <3>3. s[k] = a[k]
      BY <1>1, <2>1, <2>3, <3>2
    <3> QED
      BY <3>2, <3>3
  <2>4. CASE j \notin 1..Len(a)
    <3>1. PICK k \in i + 1..Len(a) : a[k].type = "bootstrap"
      BY <1>6, <2>1 DEF Recovered
    <3>2. s[k] = a[k] /\ k \in i + 1..j - 1
      BY <1>1, <2>1, <2>2, <2>4, <3>1
    <3> QED
      BY <3>1, <3>2
  <2> QED
    BY <2>3, <2>4
<1>7. ASSUME NoneOf(a, {"snapshotRejected"}) PROVE NoneOf(s, {"snapshotRejected"})
  BY <1>2, <1>7 DEF NoneOf
<1>8. ASSUME NEW x, NEW r, NEW k \in 0..Len(a), NEW v, Confirmed(a, k, x, r, v)
      PROVE  Confirmed(s, k, x, r, v)
  <2>1. \A j \in 1..k : j \in 1..Len(a) /\ s[j] = a[j]
    BY <1>1
  <2> QED
    BY <1>8, <2>1 DEF Confirmed
<1>9. ASSUME NEW x, NEW r, AnswersConfirmed(a, x, r) PROVE AnswersConfirmed(s, x, r)
  <2> SUFFICES ASSUME NEW i \in 1..Len(s), s[i].type = "layoutApplied"
               PROVE  Confirmed(s, i - 1, x, r, s[i].seq)
    BY DEF AnswersConfirmed
  <2>1. i \in 1..Len(a) /\ s[i] = a[i]
    BY <1>2
  <2>2. Confirmed(a, i - 1, x, r, a[i].seq)
    BY <1>9, <2>1 DEF AnswersConfirmed
  <2>3. i - 1 \in 0..Len(a)
    BY <1>1, <2>1
  <2> QED
    BY <1>8, <2>1, <2>2, <2>3
<1>10. Len(a) \in 0..Len(a)
  BY <1>1
<1> QED
  BY <1>3, <1>4, <1>5, <1>6, <1>7, <1>8, <1>9, <1>10 DEF s

-----------------------------------------------------------------------------
(* How a step moves the chain of one Client                                *)

(* The step changes neither the Session c shows nor what c believes.       *)
SameView(c) ==
    /\ client'[c].cursor = client[c].cursor /\ client'[c].resync = client[c].resync
    /\ client'[c].subscribed = client[c].subscribed
SameMembers(c) == (c \in subscribers') <=> (c \in subscribers)
Moves(c) == Behind(c)' /\ (Flows(c) => Flows(c)')

(* The chain stays what it is, and c is still on its way.                  *)
LEMMA StillChain ==
    ASSUME TypeOK, TypeOK', NEW c \in Clients, Behind(c), SameView(c), SameMembers(c),
           Ch(c)' = Ch(c), sequence' = sequence \/ (sequence' = sequence + 1 /\ c \notin subscribers),
           Streams(c)' => Streams(c),
           writer'[c].lagged => writer[c].lagged /\ Gone(c)' = Gone(c),
           Flows(c) /\ Owed(c)' =>
             Confirmed(Ch(c), Reach(c)', client[c].cursor, client[c].resync, layout'[c].seq)
    PROVE  Moves(c)
BY ChainTypes, TypeFacts, BoundedMore DEF Behind, SameView, Flows, SameMembers, Moves

(* The writer has lagged: what was due is not sent.                        *)
LEMMA LagChain ==
    ASSUME TypeOK, TypeOK', NEW c \in Clients, Behind(c), SameView(c),
           Gone(c)' = Gone(c), Due(c)' = <<>>, sequence' \in {sequence, sequence + 1},
           writer[c].lagged, ~Streams(c)'
    PROVE  Moves(c)
<1>1. /\ Ch(c) \in Seq(Frames) /\ sequence \in Nat /\ sequence' \in Nat /\ Gone(c) \in Seq(Frames)
      /\ Begins(Gone(c), Ch(c))
  BY ChainTypes, TypeFacts
<1>2. Ch(c)' = Gone(c) /\ Gone(c) \o <<>> = Gone(c)
  BY <1>1 DEF Ch
<1>3. /\ Bounded(Gone(c), sequence) /\ Ordered(Gone(c), client[c].cursor)
      /\ Flows(c) => /\ Paused(Gone(c)) /\ NoneOf(Gone(c), {"snapshotRejected"})
                     /\ AnswersConfirmed(Gone(c), client[c].cursor, client[c].resync)
  BY <1>1, BeginningKeeps DEF Behind, Flows
<1>4. Behind(c)'
  BY <1>1, <1>3, BoundedMore, <1>2 DEF Behind, SameView
<1>5. ASSUME Flows(c) PROVE Flows(c)'
  <2>1. LagSaid(Gone(c), client[c].subscribed)
    BY <1>5 DEF Flows
  <2>2. Told(Gone(c), client[c].subscribed)
    <3>1. <<>> \in Seq(Frames) /\ NoneOf(<<>>, {"subscribed"})
      BY EmptyChain
    <3>2. Told(Gone(c) \o <<>>, client[c].subscribed)
      BY <1>1, <2>1, <3>1, LagTold
    <3> QED
      BY <1>2, <3>2
  <2>3. ~Owed(c)'
    BY DEF Owed
  <2> QED
    BY <1>2, <1>3, <1>5, <2>1, <2>2, <2>3 DEF Flows, SameView
<1> QED
  BY <1>4, <1>5 DEF Moves

(* The queue overflows: the lag notice takes the place of the backlog.     *)
LEMMA CutChain ==
    ASSUME TypeOK, TypeOK', NEW c \in Clients, Behind(c), SameView(c),
           Gone(c)' = wire[c] \o <<LagNotice>>, Due(c)' = <<>>,
           sequence' \in {sequence, sequence + 1}, ~Streams(c)'
    PROVE  Moves(c)
<1> DEFINE w == wire[c]
           s == Append(w, LagNotice)
           m == LagNotice
<1>1. /\ Ch(c) \in Seq(Frames) /\ sequence \in Nat /\ sequence' \in Nat /\ w \in Seq(Frames)
      /\ Gone(c) \in Seq(Frames) /\ Begins(w, Gone(c)) /\ Begins(Gone(c), Ch(c))
      /\ m \in Frames /\ m.type = "lagged" /\ m.seq = 0
  BY ChainTypes, TypeFacts, MessagesAreFrames, MessageTypes, MessageFields
<1>2. Begins(w, Ch(c))
  BY <1>1, BeginsTransitive
<1>3. /\ Bounded(w, sequence) /\ Ordered(w, client[c].cursor)
      /\ Flows(c) => /\ Paused(w) /\ NoneOf(w, {"snapshotRejected"})
                     /\ AnswersConfirmed(w, client[c].cursor, client[c].resync)
  BY <1>1, <1>2, BeginningKeeps DEF Behind, Flows
<1>4. /\ Gone(c)' = s /\ Ch(c)' = s /\ s \in Seq(Frames)
      /\ Inserted(s, w, Len(w), m) /\ Len(w) \in Nat
      /\ s # <<>> /\ s[Len(s)].type = "lagged"
  BY <1>1, InsertedAppend DEF w, m, Ch
<1> HIDE DEF w, s, m
<1>5. Behind(c)'
  <2>1. Bounded(w, sequence')
    BY <1>1, <1>3, BoundedMore
  <2>2. m.seq <= sequence'
    BY <1>1
  <2>3. Bounded(s, sequence')
    BY <1>4, <2>1, <2>2, InsertBounded
  <2>4. m.type \notin Changes
    BY <1>1 DEF Changes
  <2>5. Ordered(s, client[c].cursor)
    BY <1>3, <1>4, <2>4, InsertOrdered
  <2> QED
    BY <1>4, <2>3, <2>5 DEF Behind, SameView
<1>6. ASSUME Flows(c) PROVE Flows(c)'
  <2>1. Paused(s)
    BY <1>1, <1>3, <1>4, <1>6, InsertPaused
  <2>2. NoneOf(s, {"snapshotRejected"})
    BY <1>1, <1>3, <1>4, <1>6, InsertNoneOf
  <2>3. m.type \in Notices
    BY <1>1 DEF Notices
  <2>4. Told(s, client[c].subscribed)
    BY <1>4, <2>3, InsertTold
  <2>5. LagSaid(s, client[c].subscribed)
    BY <1>4 DEF LagSaid
  <2>6. m.type # "layoutApplied" /\ m.type # "bootstrap"
    BY <1>1
  <2>7. AnswersConfirmed(s, client[c].cursor, client[c].resync)
    BY <1>3, <1>4, <1>6, <2>6, InsertAnswers
  <2>8. ~Owed(c)'
    BY DEF Owed
  <2> QED
    BY <1>4, <2>1, <2>2, <2>4, <2>5, <2>7, <2>8 DEF Flows, SameView
<1> QED
  BY <1>5, <1>6 DEF Moves

(* An event goes to the end of the chain.                                  *)
LEMMA AppendChain ==
    ASSUME TypeOK, TypeOK', NEW c \in Clients, Behind(c), Cursors(c), SameView(c), SameMembers(c),
           Ch(c)' = Append(Ch(c), Event(sequence + 1)), sequence' = sequence + 1, Streams(c),
           writer'[c].lagged => writer[c].lagged /\ Gone(c)' = Gone(c),
           Owed(c)' => /\ Reach(c)' = Len(Ch(c)) + 1
                       /\ \/ layout'[c].seq = sequence'
                          \/ layout'[c].seq = layout[c].seq /\ Owed(c) /\ Reach(c) = Len(Ch(c))
    PROVE  Moves(c)
<1> DEFINE a == Ch(c)
           m == Event(sequence + 1)
           s == Append(a, m)
           x == client[c].cursor
           r == client[c].resync
<1>1. /\ a \in Seq(Frames) /\ Len(a) \in Nat /\ sequence \in Nat /\ sequence' \in Nat
      /\ x \in Nat /\ r \in BOOLEAN
      /\ m \in Frames /\ m.type = "event" /\ m.seq = sequence + 1 /\ m.seq = sequence'
  BY ChainTypes, MessageFields DEF Event, Message, Frames, Types
<1>2. Inserted(s, a, Len(a), m) /\ Ch(c)' = s /\ s \in Seq(Frames)
  BY <1>1, InsertedAppend
<1>3. Len(s) = Len(a) + 1 /\ s[Len(a) + 1] = m
  BY <1>1
<1> HIDE DEF a, m, s, x, r
<1>4. Behind(c)'
  <2>1. Bounded(a, sequence) /\ Ordered(a, x)
    BY DEF Behind, a, x
  <2>2. Bounded(a, sequence')
    BY <1>1, <2>1, BoundedMore
  <2>3. m.seq <= sequence'
    BY <1>1
  <2>4. Bounded(s, sequence')
    BY <1>1, <1>2, <2>2, <2>3, InsertBounded
  <2>5. Ordered(s, x)
    BY <1>1, <1>2, <2>1, InsertOrdered
  <2> QED
    BY <1>2, <2>4, <2>5 DEF Behind, SameView, x
<1>5. ASSUME Flows(c) PROVE Flows(c)'
  <2>1. /\ Paused(a) /\ NoneOf(a, {"snapshotRejected"}) /\ Recovered(a)
        /\ AnswersConfirmed(a, x, r)
    BY <1>5 DEF Flows, a, x, r
  <2>2. Paused(s)
    BY <1>1, <1>2, <2>1, InsertPaused
  <2>3. NoneOf(s, {"snapshotRejected"})
    BY <1>1, <1>2, <2>1, InsertNoneOf
  <2>4. Recovered(s)
    BY <1>1, <1>2, <2>1, InsertRecovered
  <2>5. AnswersConfirmed(s, x, r)
    BY <1>1, <1>2, <2>1, InsertAnswers
  <2>6. ASSUME c \in subscribers' PROVE Replayed(s, x) = sequence'
    BY <1>5, <2>6, <1>1, ReplayAppend DEF Flows, SameMembers, a, x, s, CursorAfter
  <2>7. ASSUME c \notin subscribers' PROVE Told(s, client[c].subscribed)
    BY <1>5, <2>7, <1>1, <1>2, InsertTold DEF Flows, SameMembers, a
  <2>8. ASSUME Owed(c)' PROVE Confirmed(s, Reach(c)', x, r, layout'[c].seq)
    <3>1. Reach(c)' = Len(a) + 1
      BY <2>8 DEF a
    <3>2. CASE layout'[c].seq = sequence'
      BY <1>1, <1>3, <3>1, <3>2 DEF Changes, Confirmed
    <3>3. CASE layout'[c].seq = layout[c].seq /\ Owed(c) /\ Reach(c) = Len(Ch(c))
      BY <1>5, <3>3, <1>1, <1>2, InsertConfirmed, <3>1 DEF Flows, a, x, r
    <3> QED
      BY <2>8, <3>2, <3>3
  <2>9. ASSUME writer'[c].lagged PROVE LagSaid(Gone(c)', client[c].subscribed)
    BY <1>5, <2>9 DEF Flows
  <2> QED
    BY <1>2, <2>2, <2>3, <2>4, <2>5, <2>6, <2>7, <2>8, <2>9 DEF Flows, SameView, x, r
<1> QED
  BY <1>4, <1>5 DEF Moves

(* A Layout response goes behind what was sent, ahead of what is due.      *)
LEMMA InsertChain ==
    ASSUME TypeOK, TypeOK', NEW c \in Clients, Behind(c), SameView(c), SameMembers(c),
           NEW m \in Messages, m.type \in Answered, m.seq <= sequence,
           Gone(c)' = Append(Gone(c), m), Due(c)' = Due(c), sequence' = sequence,
           Streams(c)' => Streams(c), ~writer'[c].lagged,
           m.type = "layoutApplied" =>
             Owed(c) /\ m.seq = layout[c].seq /\ Reach(c) = Len(Gone(c)),
           Owed(c)' => /\ Owed(c) /\ layout'[c].seq = layout[c].seq
                       /\ Reach(c) = Len(Gone(c)) /\ Reach(c)' = Len(Gone(c)) + 1
    PROVE  Moves(c)
<1> DEFINE g == Gone(c)
           d == Due(c)
           a == g \o d
           s == Append(g, m) \o d
           n == Len(g)
           x == client[c].cursor
           r == client[c].resync
<1>1. /\ g \in Seq(Frames) /\ d \in Seq(Frames) /\ a \in Seq(Frames) /\ s \in Seq(Frames)
      /\ sequence \in Nat /\ x \in Nat /\ r \in BOOLEAN /\ m \in Frames
      /\ Len(a) \in Nat /\ n \in 0..Len(a) /\ Len(a) = n + Len(d) /\ Len(d) \in Nat /\ n \in Nat
  BY ChainTypes, MessagesAreFrames, ConcatIndex
<1>2. Ch(c) = a /\ Ch(c)' = s
  BY DEF Ch
<1>3. Inserted(s, a, n, m)
  BY <1>1, InsertedConcat
<1>4. m.type \notin Changes /\ m.type \notin {"lagged", "event", "bootstrap", "subscribed", "snapshotRejected"}
  BY DEF Answered, Changes
<1>5. Replayed(s, x) = Replayed(a, x)
  BY <1>1, <1>4, ReplayInsert
<1> HIDE DEF g, d, a, s, n, x, r
<1>6. Behind(c)'
  BY <1>2, <1>1, <1>3, InsertBounded, <1>4, InsertOrdered DEF Behind, x, SameView
<1>7. ASSUME Flows(c) PROVE Flows(c)'
  <2>1. Paused(a) /\ NoneOf(a, {"snapshotRejected"}) /\ AnswersConfirmed(a, x, r)
    BY <1>2, <1>7 DEF Flows, x, r
  <2>2. Paused(s)
    BY <1>1, <1>3, <1>4, <2>1, InsertPaused
  <2>3. NoneOf(s, {"snapshotRejected"})
    BY <1>1, <1>3, <1>4, <2>1, InsertNoneOf
  <2>4. ASSUME Streams(c)' PROVE Recovered(s)
    BY <1>2, <1>7, <2>4, <1>1, <1>3, <1>4, InsertRecovered DEF Flows
  <2>5. ASSUME Streams(c)', c \in subscribers' PROVE Replayed(s, x) = sequence
    BY <1>2, <1>5, <1>7, <2>5 DEF Flows, SameMembers, x
  <2>6. ASSUME c \notin subscribers' PROVE Told(s, client[c].subscribed)
    BY <1>2, <1>7, <2>6, <1>1, <1>3, <1>4, InsertTold DEF Flows, SameMembers
  <2>7. ASSUME Owed(c), Reach(c) = Len(Gone(c)) PROVE Confirmed(a, n, x, r, layout[c].seq)
    BY <1>2, <1>7, <2>7 DEF Flows, n, g, x, r
  <2>8. AnswersConfirmed(s, x, r)
    BY <2>7, <1>1, <1>3, <1>4, <2>1, InsertAnswers
  <2>9. ASSUME Owed(c)' PROVE Confirmed(s, Reach(c)', x, r, layout'[c].seq)
    <3>1. Confirmed(a, n, x, r, layout[c].seq)
      BY <2>7, <2>9
    <3>2. n >= n /\ m.type # "bootstrap"
      BY <1>1, <1>4
    <3>3. Confirmed(s, n + 1, x, r, layout[c].seq)
      BY <1>1, <1>3, <3>1, <3>2, InsertConfirmed
    <3>4. Reach(c)' = n + 1 /\ layout'[c].seq = layout[c].seq
      BY <2>9 DEF n, g
    <3> QED
      BY <3>3, <3>4
  <2> QED
    BY <1>2, <2>2, <2>3, <2>4, <2>5, <2>6, <2>8, <2>9 DEF Flows, SameView, x, r
<1> QED
  BY <1>6, <1>7 DEF Moves

(* A Bootstrap is captured for c: whatever c missed, it leads to the       *)
(* Session as it is now.                                                   *)
LEMMA OfferChain ==
    ASSUME TypeOK, TypeOK', NEW c \in Clients, Behind(c), Cursors(c), SameView(c), SameMembers(c),
           Ch(c)' = Append(Ch(c), Bootstrap(sequence)), Gone(c)' = Gone(c), sequence' = sequence,
           writer'[c].lagged => writer[c].lagged,
           layout'[c].seq = layout[c].seq, Reach(c)' = Len(Ch(c)) + 1
    PROVE  Moves(c)
<1> DEFINE a == Ch(c)
           m == Bootstrap(sequence)
           s == Append(a, m)
           x == client[c].cursor
           r == client[c].resync
<1>1. /\ a \in Seq(Frames) /\ Len(a) \in Nat /\ sequence \in Nat /\ x \in Nat /\ r \in BOOLEAN
      /\ x <= sequence /\ layout[c].seq \in Nat /\ layout[c].seq <= sequence
      /\ m \in Frames /\ m.type = "bootstrap" /\ m.seq = sequence
  <2>1. a \in Seq(Frames) /\ Len(a) \in Nat /\ sequence \in Nat /\ x \in Nat /\ r \in BOOLEAN
        /\ x <= sequence /\ layout[c].seq \in Nat /\ layout[c].seq <= sequence
    BY ChainTypes DEF Cursors
  <2>2. m.type = "bootstrap" /\ m.seq = sequence
    BY MessageFields
  <2>3. m \in Frames
    BY MessageTypes, MessagesAreFrames, TypeFacts
  <2> QED
    BY <2>1, <2>2, <2>3
<1>2. Inserted(s, a, Len(a), m) /\ Ch(c)' = s /\ s \in Seq(Frames)
  BY <1>1, InsertedAppend
<1>3. Len(s) = Len(a) + 1 /\ s[Len(a) + 1] = m
  BY <1>1
<1> HIDE DEF a, m, s, x, r
<1>4. Behind(c)'
  BY <1>1, <1>2, InsertBounded, InsertOrdered DEF Behind, a, x, SameView
<1>5. ASSUME Flows(c) PROVE Flows(c)'
  <2>1. Paused(a) /\ NoneOf(a, {"snapshotRejected"}) /\ AnswersConfirmed(a, x, r)
    BY <1>5 DEF Flows, a, x, r
  <2>2. Paused(s)
    BY <1>1, <1>2, <2>1, InsertPaused
  <2>3. NoneOf(s, {"snapshotRejected"})
    BY <1>1, <1>2, <2>1, InsertNoneOf
  <2>4. Recovered(s)
    BY <1>1, <1>2, InsertRecovered
  <2>5. AnswersConfirmed(s, x, r)
    BY <1>1, <1>2, <2>1, InsertAnswers
  <2>6. Replayed(s, x) = sequence
    BY <1>1, ReplayAppend DEF s, CursorAfter
  <2>7. ASSUME c \notin subscribers' PROVE Told(s, client[c].subscribed)
    BY <1>5, <2>7, <1>1, <1>2, InsertTold DEF Flows, SameMembers, a
  <2>8. Confirmed(s, Reach(c)', x, r, layout'[c].seq)
    BY <1>1, <1>3 DEF a, Changes, Confirmed
  <2>9. ASSUME writer'[c].lagged PROVE LagSaid(Gone(c), client[c].subscribed)
    BY <1>5, <2>9 DEF Flows
  <2> QED
    BY <1>2, <2>2, <2>3, <2>4, <2>5, <2>6, <2>7, <2>8, <2>9 DEF Flows, SameView, x, r
<1> QED
  BY <1>4, <1>5 DEF Moves

(* A Subscribe's answer is due: every event c has missed.                  *)
LEMMA AnswerChain ==
    ASSUME TypeOK, TypeOK', NEW c \in Clients, Behind(c), SameView(c),
           NEW after \in 0..sequence, after <= client[c].cursor, client[c].cursor <= sequence,
           Ch(c)' = Ch(c) \o SubscribeAnswer(after), EventsFrom(after, sequence - after) \in Seq(Messages),
           sequence' = sequence, Streams(c), ~writer'[c].lagged, c \in subscribers',
           Owed(c)' => Owed(c) /\ layout'[c].seq = layout[c].seq
                       /\ Reach(c) = Len(Ch(c)) /\ Reach(c)' = Len(Ch(c))
    PROVE  Moves(c)
<1> DEFINE a == Ch(c)
           e == EventsFrom(after, sequence - after)
           b == <<Subscribed(sequence)>>
           s == a \o SubscribeAnswer(after)
           x == client[c].cursor
           r == client[c].resync
<1>1. /\ a \in Seq(Frames) /\ Len(a) \in Nat /\ sequence \in Nat /\ x \in Nat /\ r \in BOOLEAN
      /\ e \in Seq(Frames) /\ after \in Nat /\ sequence - after \in Nat
  BY ChainTypes, ChainsAreFrames
<1>2. Subscribed(sequence) \in Frames /\ b \in Seq(Frames)
  BY MessageTypes, MessagesAreFrames, TypeFacts
<1>3. SubscribeAnswer(after) = e \o b
  BY DEF SubscribeAnswer
<1>4. Plain(e \o b) /\ Bounded(e \o b, sequence) /\ e \o b \in Seq(Frames)
  <2>1. \A i \in 1..Len(e) : e[i].type = "event" /\ e[i].seq = after + i
        /\ Len(e) = sequence - after
    BY <1>1, MessageFields DEF EventsFrom
  <2>2. b[1].type = "subscribed" /\ b[1].seq = sequence /\ Len(b) = 1
    BY MessageFields
  <2> HIDE DEF e, b
  <2>3. /\ e \o b \in Seq(Frames) /\ Len(e \o b) = Len(e) + Len(b) /\ Len(e) \in Nat
        /\ \A i \in 1..Len(e) : (e \o b)[i] = e[i]
        /\ \A i \in 1..Len(b) : (e \o b)[Len(e) + i] = b[i]
    BY <1>1, <1>2, ConcatIndex
  <2>4. ASSUME NEW i \in 1..Len(e \o b)
        PROVE (e \o b)[i].type \in {"event", "subscribed"} /\ (e \o b)[i].seq <= sequence
    <3>1. CASE i <= Len(e)
      BY <2>2, <2>3, <3>1, <2>1, <1>1
    <3>2. CASE i > Len(e)
      BY <2>2, <2>3, <3>2, <1>1
    <3> QED
      BY <2>2, <2>3, <3>1, <3>2
  <2> QED
    BY <2>3, <2>4 DEF Plain, Bounded
<1>5. s \in Seq(Frames) /\ Ch(c)' = s /\ s = a \o (e \o b)
  BY <1>1, <1>3, <1>4, ConcatIndex
<1> HIDE DEF a, e, b, s, x, r
<1>6. Ordered(a, x) /\ Bounded(a, sequence)
  BY DEF Behind, a, x
<1>7. Replayed(s, x) = sequence
  <2> DEFINE y == Replayed(a, x)
  <2>1. y \in Nat /\ x <= y /\ y <= sequence
    BY <1>1, ReplayedIsNumber, <1>6, ReplayGrows, ReplayBounded DEF x
  <2>2. Replayed(s, x) = Replayed(e \o b, y)
    <3> DEFINE t == e \o b
    <3>1. t \in Seq(Frames)
      BY <1>4
    <3> HIDE DEF t
    <3>2. Replayed(a \o t, x) = Replayed(t, Replayed(a, x))
      BY <1>1, <3>1, ReplayConcat
    <3> QED
      BY <1>5, <3>2 DEF t
  <2> HIDE DEF y
  <2>3. Replayed(e \o b, y) = Replayed(b, Replayed(e, y))
    BY <1>1, <1>2, <2>1, ReplayConcat
  <2>4. Replayed(e, y) = sequence
    <3>1. after <= y /\ y <= after + (sequence - after) /\ after + (sequence - after) = sequence
      BY <1>1, <2>1 DEF x
    <3> QED
      BY <1>1, <2>1, <3>1, ReplayEvents DEF e
  <2>5. Replayed(b, sequence) = CursorAfter(sequence, Subscribed(sequence))
    BY <1>1, <1>2, ReplayOne DEF b
  <2>6. CursorAfter(sequence, Subscribed(sequence)) = sequence
    BY MessageFields DEF CursorAfter
  <2> QED
    BY <2>2, <2>3, <2>4, <2>5, <2>6
<1> DEFINE t == e \o b
<1> HIDE DEF t
<1>8. t \in Seq(Frames) /\ Plain(t) /\ Bounded(t, sequence) /\ s = a \o t
  BY <1>4, <1>5 DEF t
<1>9. Behind(c)'
  BY <1>1, <1>6, <1>8, PlainConcat, <1>5 DEF Behind, SameView, x
<1>10. ASSUME Flows(c) PROVE Flows(c)'
  BY <1>10, <1>1, <1>8, PlainConcat, <1>5, <1>7 DEF Flows, a, x, r, SameView
<1> QED
  BY <1>9, <1>10 DEF Moves

(* A Subscribe is rejected: c is no subscriber, and will be told.          *)
LEMMA RejectChain ==
    ASSUME TypeOK, TypeOK', NEW c \in Clients, Behind(c), SameView(c),
           Ch(c)' = Append(Ch(c), Rejected), sequence' = sequence,
           Streams(c), ~writer'[c].lagged, c \notin subscribers',
           Owed(c)' => Owed(c) /\ layout'[c].seq = layout[c].seq
                       /\ Reach(c) = Len(Ch(c)) /\ Reach(c)' = Len(Ch(c))
    PROVE  Moves(c)
<1> DEFINE a == Ch(c)
           m == Rejected
           s == Append(a, m)
           x == client[c].cursor
           r == client[c].resync
<1>1. /\ a \in Seq(Frames) /\ Len(a) \in Nat /\ sequence \in Nat /\ x \in Nat /\ r \in BOOLEAN
      /\ m \in Frames /\ m.type = "rejected" /\ m.seq = 0
  BY ChainTypes, MessageTypes, MessagesAreFrames, MessageFields
<1>2. Inserted(s, a, Len(a), m) /\ Ch(c)' = s /\ s \in Seq(Frames)
  BY <1>1, InsertedAppend
<1> HIDE DEF a, m, s, x, r
<1>3. m.type \notin Changes /\ m.type \in Notices /\ m.seq <= sequence
  BY <1>1 DEF Changes, Notices
<1>4. Behind(c)'
  BY <1>1, <1>2, <1>3, InsertBounded, InsertOrdered DEF Behind, a, x, SameView
<1>5. ASSUME Flows(c) PROVE Flows(c)'
  <2>1. /\ Paused(a) /\ NoneOf(a, {"snapshotRejected"}) /\ Recovered(a)
        /\ AnswersConfirmed(a, x, r)
    BY <1>5 DEF Flows, a, x, r
  <2>2. Paused(s)
    BY <1>1, <1>2, <2>1, InsertPaused
  <2>3. NoneOf(s, {"snapshotRejected"})
    BY <1>1, <1>2, <2>1, InsertNoneOf
  <2>4. Recovered(s)
    BY <1>1, <1>2, <2>1, InsertRecovered
  <2>5. AnswersConfirmed(s, x, r)
    BY <1>1, <1>2, <2>1, InsertAnswers
  <2>6. Told(s, client[c].subscribed)
    BY <1>1, <1>2, <1>3, InsertTold
  <2>7. ASSUME Owed(c)' PROVE Confirmed(s, Reach(c)', x, r, layout'[c].seq)
    BY <2>7, <1>1, <1>5, <1>2, InsertConfirmed DEF a, Flows, x, r
  <2> QED
    BY <1>2, <2>2, <2>3, <2>4, <2>5, <2>6, <2>7 DEF Flows, SameView, x, r
<1> QED
  BY <1>4, <1>5 DEF Moves

LEMMA TailConcat ==
    ASSUME NEW a \in Seq(Frames), NEW b \in Seq(Frames), a # <<>>
    PROVE  Tail(a \o b) = Tail(a) \o b /\ a \o b # <<>> /\ (a \o b)[1] = a[1] /\ a[1] = Head(a)
BY ConcatIndex

(* The Client reads m: it is in front of everything else on its way.       *)
LEMMA ReadChain ==
    ASSUME TypeOK, TypeOK', NEW c \in Clients, Behind(c), SameMembers(c), wire[c] # <<>>,
           Gone(c)' = Tail(Gone(c)), Due(c)' = Due(c), sequence' = sequence,
           capture'[c] = capture[c], layout'[c] = layout[c], writer'[c] = writer[c],
           Streams(c)' => Streams(c), Owed(c)' => Owed(c),
           NEW m, m = Head(wire[c]),
           \/ ReadEffect(client[c], m, client'[c])
           \/ /\ HandshakeEffect(client[c], m, client'[c]) /\ c \notin subscribers
              /\ ~client[c].subscribed /\ layout[c].stage = "none" /\ NoneOf(Ch(c), Answered)
    PROVE  Moves(c)
<1> DEFINE g == Gone(c)
           a == Ch(c)
           s == Tail(Ch(c))
           x == client[c].cursor
           r == client[c].resync
           b == client[c].subscribed
           x2 == client'[c].cursor
           r2 == client'[c].resync
           b2 == client'[c].subscribed
<1>1. /\ a \in Seq(Frames) /\ g \in Seq(Frames) /\ Due(c) \in Seq(Frames) /\ wire[c] \in Seq(Frames)
      /\ writer[c].reliable \in Seq(Frames)
      /\ sequence \in Nat /\ x \in Nat /\ r \in BOOLEAN /\ b \in BOOLEAN
      /\ layout[c].seq \in Nat
  BY ChainTypes
<1>2. x2 \in Nat /\ r2 \in BOOLEAN /\ b2 \in BOOLEAN
  <2>1. client'[c] \in ClientStates'
    BY DEF TypeOK
  <2>2. client'[c].cursor \in 0..Last' /\ client'[c].resync \in BOOLEAN
        /\ client'[c].subscribed \in BOOLEAN
    BY <2>1 DEF ClientStates
  <2> QED
    BY <2>2
<1>3. /\ g # <<>> /\ Tail(g) \in Seq(Frames) /\ g[1] = m /\ a # <<>> /\ a[1] = m
      /\ s = Tail(g) \o Due(c) /\ Ch(c)' = s /\ s \in Seq(Frames)
  <2>1. g # <<>> /\ g[1] = m
    BY <1>1, TailConcat DEF Gone
  <2>2. Tail(g) \in Seq(Frames)
    BY <1>1, <2>1
  <2>3. a # <<>> /\ a[1] = m /\ s = Tail(g) \o Due(c)
    BY <1>1, <2>1, TailConcat DEF Ch
  <2>4. Ch(c)' = s
    BY <2>3 DEF Ch
  <2>5. s \in Seq(Frames)
    BY <1>1, <2>3
  <2> QED
    BY <2>1, <2>2, <2>3, <2>4, <2>5
<1>4. /\ Len(s) = Len(a) - 1 /\ Len(a) \in Nat /\ m \in Frames
      /\ Len(Tail(g)) = Len(g) - 1 /\ Len(g) \in 1..Len(a)
  BY <1>1, <1>3, TailIndex, ConcatIndex DEF Ch
<1>5. /\ x2 = x \/ (x2 = m.seq /\ m.type \in Changes)
      /\ b2 => b \/ m.type = "subscribed"
      /\ m.type \in Notices => ~b2
  BY DEF ReadEffect, CursorAfter, Changes, HandshakeEffect
<1> HIDE DEF g, a, s, x, r, b, x2, r2, b2
<1>6. Behind(c)'
  BY <1>1, <1>3, TailKeeps, <1>5, TailOrdered DEF Behind, a, x, s, x2
<1>7. ASSUME Flows(c) PROVE Flows(c)'
  <2>1. Paused(a) /\ NoneOf(a, {"snapshotRejected"}) /\ AnswersConfirmed(a, x, r) /\ Ordered(a, x)
    BY <1>7 DEF Flows, Behind, a, x, r
  <2>2. Paused(s) /\ NoneOf(s, {"snapshotRejected"}) /\ (Recovered(a) => Recovered(s))
    BY <1>1, <1>3, <2>1, TailKeeps DEF s, a
  <2>3. ASSUME Streams(c)' PROVE Recovered(s)
    BY <1>7, <2>2, <2>3 DEF Flows, a
  <2>4. ASSUME Streams(c)', c \in subscribers' PROVE Replayed(s, x2) = sequence
    BY <1>7, <2>4, <1>3, <1>1, ReplayTail DEF Flows, SameMembers, a, x, ReadEffect, x2, s
  <2>5. ASSUME c \notin subscribers' PROVE Told(s, b2)
    BY <1>7, <2>5, <1>1, <1>3, <1>5, TailTold DEF Flows, SameMembers, a, b, s
  <2>6. ASSUME writer'[c].lagged PROVE LagSaid(Tail(g), b2)
    <3> DEFINE t == Tail(g)
    <3>0. /\ t \in Seq(Frames) /\ Len(t) = Len(g) - 1 /\ Len(t) \in Nat /\ Len(g) \in Nat
          /\ \A i \in 1..Len(t) : t[i] = g[i + 1]
      BY <1>1, <1>3, <1>4, TailIndex
    <3> SUFFICES LagSaid(t, b2)
      OBVIOUS
    <3> HIDE DEF t
    <3>1. g[Len(g)].type = "lagged"
      BY <1>3, <1>7, <2>6 DEF Flows, LagSaid, g
    <3>2. CASE Len(g) = 1
      BY <1>3, <3>1, <3>2, <3>0, <1>5 DEF Notices, LagSaid
    <3>3. CASE Len(g) # 1
      BY <1>4, <3>0, <3>3, <3>1 DEF LagSaid
    <3> QED
      BY <3>2, <3>3
  <2>7. CASE ReadEffect(client[c], m, client'[c])
    <3>1. ReadOf(a[1], x, r, x2, r2)
      BY <1>3, <2>7 DEF ReadEffect, ReadOf, x, r, x2, r2
    <3>2. AnswersConfirmed(Tail(a), x2, r2)
      BY <1>1, <1>2, <1>3, <2>1, <3>1, TailAnswers
    <3>3. ASSUME Owed(c)' PROVE Confirmed(s, Reach(c)', x2, r2, layout'[c].seq)
      <4>1. Reach(c)' = Reach(c) - 1 /\ Reach(c) \in 1..Len(a)
        BY <1>3, <1>4 DEF g, Reach, a
      <4>2. Confirmed(a, Reach(c), x, r, layout[c].seq)
        BY <1>7, <3>3 DEF Flows, a, x, r
      <4>3. Confirmed(Tail(a), Reach(c) - 1, x2, r2, layout[c].seq)
        BY SMTT(30), <1>1, <1>2, <1>3, <2>1, <3>1, <4>1, <4>2, TailConfirmed
      <4> QED
        BY <4>1, <4>3 DEF s, a
    <3> QED
      BY <1>3, <2>2, <2>3, <2>4, <2>5, <2>6, <3>2, <3>3 DEF Flows, s, a, x2, r2, b2, g
  <2>8. CASE layout[c].stage = "none" /\ NoneOf(Ch(c), Answered)
    <3>1. ~Owed(c)'
      BY <2>8 DEF Owed
    <3>2. NoneOf(s, Answered)
      BY <1>1, <1>3, <2>8, TailKeeps DEF s, a
    <3>3. AnswersConfirmed(s, x2, r2)
      BY <3>2 DEF NoneOf, Answered, AnswersConfirmed
    <3> QED
      BY <1>3, <2>2, <2>3, <2>4, <2>5, <2>6, <3>1, <3>3 DEF Flows, x2, r2, b2, g
  <2> QED
    BY <2>7, <2>8
<1> QED
  BY <1>6, <1>7 DEF Moves

(* The Client asks for a Bootstrap by itself.                              *)
LEMMA GapChain ==
    ASSUME TypeOK, TypeOK', NEW c \in Clients, Behind(c), SameMembers(c),
           client'[c].cursor = client[c].cursor, client'[c].subscribed = client[c].subscribed,
           client'[c].resync, Ch(c)' = Ch(c), Gone(c)' = Gone(c), sequence' = sequence,
           layout'[c] = layout[c], writer'[c] = writer[c],
           Streams(c)' => Streams(c), Owed(c)' => Owed(c), Reach(c)' = Reach(c)
    PROVE  Moves(c)
BY DEF Confirmed, AnswersConfirmed, Behind, Flows, SameMembers, Moves

(* The connection is failing, and nothing is added to what is on its way.  *)
LEMMA LessChain ==
    ASSUME TypeOK, TypeOK', NEW c \in Clients, Behind(c), SameView(c), sequence' = sequence,
           NEW s \in Seq(Frames), Ch(c)' = s, Begins(s, Ch(c))
    PROVE  Behind(c)'
BY ChainTypes, BeginningKeeps DEF Behind, SameView

(* A connection that begins or is gone has nothing on its way.             *)
LEMMA NoneChain ==
    ASSUME TypeOK, TypeOK', NEW c \in Clients, Gone(c)' = <<>>, Due(c)' = <<>>,
           c \notin subscribers', ~client'[c].subscribed, layout'[c].stage = "none"
    PROVE  Behind(c)' /\ Flows(c)'
<1>1. Ch(c)' = <<>>
  BY DEF Ch
<1>2. Behind(c)'
  BY <1>1, EmptyChain DEF Behind
<1>3. ~Owed(c)'
  BY DEF Owed
<1>4. client'[c].subscribed = FALSE
  BY DEF TypeOK, ClientStates
<1>5. Told(<<>>, FALSE) /\ LagSaid(<<>>, FALSE)
  BY EmptyChain
<1>6. Told(<<>>, client'[c].subscribed) /\ LagSaid(<<>>, client'[c].subscribed)
  BY <1>4, <1>5
<1>7. Flows(c)'
  BY <1>1, <1>3, <1>6, EmptyChain DEF Flows
<1> QED
  BY <1>2, <1>7

-----------------------------------------------------------------------------
(* What the Server still has to send, before and after a step              *)

Quiet(c) == capture[c].stage = "none" /\ (sending.client # c \/ writer[c].lagged)

DuePieces(c) ==
    /\ sending.client # c => Due(c) = Captured(c)
    /\ sending.client = c => Due(c) = Looping(c)
    /\ Due(c) = <<>> => Ch(c) = Gone(c)
    /\ Quiet(c) => /\ Due(c) = <<>> /\ Reach(c) = Len(Gone(c))
                   /\ Streams(c) <=> ~writer[c].lagged

LEMMA DueIs == \A c \in Clients : TypeOK => DuePieces(c)
<1> SUFFICES ASSUME NEW c \in Clients, TypeOK PROVE DuePieces(c)
  OBVIOUS
<1>1. Looping(c) \in Seq(Frames) /\ Captured(c) \in Seq(Frames) /\ Gone(c) \in Seq(Frames)
  BY ChainTypes
<1>2. ASSUME sending.client # c PROVE Due(c) = Captured(c)
  BY <1>2, <1>1 DEF Looping, Due
<1>3. ASSUME sending.client = c PROVE Due(c) = Looping(c)
  BY <1>3, <1>1 DEF Captured, Due
<1>4. Due(c) = <<>> => Ch(c) = Gone(c)
  BY <1>1 DEF Ch
<1>5. ASSUME Quiet(c)
      PROVE  /\ Due(c) = <<>> /\ Reach(c) = Len(Gone(c))
             /\ Streams(c) <=> ~writer[c].lagged
  BY <1>5, <1>2, <1>3 DEF Quiet, Captured, Looping, Reach, Streams
<1> QED
  BY <1>2, <1>3, <1>4, <1>5 DEF DuePieces

LEMMA DueNext == (\A c \in Clients : TypeOK => DuePieces(c))'
BY DueIs, PTL

(* The invariant of c's chain after the step, but for its cursors.         *)
Led(c) == Behind(c)' /\ (~Failing(c)' => Flows(c)')

LEMMA MovesLead ==
    ASSUME NEW c \in Clients, Chain(c), Moves(c), Failing(c) => Failing(c)'
    PROVE  Led(c)
BY DEF Chain, Moves, Led

LEMMA SubscribeLed ==
    ASSUME Base, TypeOK', NEW c \in Clients, Chain(c), HandleSubscribe(c)
    PROVE  Led(c)
<1> DEFINE after == Head(client[c].out).seq
<1>1. TypeOK /\ History /\ c # NoClient /\ Behind(c) /\ Cursors(c) /\ Gone(c) \in Seq(Frames)
  BY StreamAssumption, ChainTypes DEF Base, Chain
<1>2. /\ Handling(c, "subscribe") /\ Handled(c) /\ sending = Idle
      /\ UNCHANGED <<sequence, events, capture, layout, open, writer, wire, spent>>
  BY DEF HandleSubscribe, Unlocked
<1>3. SameView(c)
  BY <1>2, HandlingIs DEF SameView
<1>4. sending.client # c /\ capture[c].stage = "none" /\ Quiet(c)
  BY <1>1, <1>2 DEF Quiet, Handling, Idle
<1>5. Due(c) = <<>> /\ Ch(c) = Gone(c) /\ Reach(c) = Len(Gone(c)) /\ (Streams(c) <=> ~writer[c].lagged)
  BY <1>1, <1>4, DueIs DEF DuePieces
<1>6. after <= client[c].cursor
  <2>1. client[c] \in ClientStates
    BY <1>1, TypeFacts
  <2>2. client[c].out \in Seq(Requests)
    BY <2>1, ClientIs DEF ClientFields
  <2>3. client[c].out # <<>> /\ Head(client[c].out).type = "subscribe"
    BY <1>2 DEF Handling
  <2>4. 1 \in 1..Len(client[c].out) /\ Head(client[c].out) = client[c].out[1]
    BY <2>2, <2>3
  <2> QED
    BY <1>1, <2>3, <2>4 DEF Cursors
<1>7. Failing(c) => Failing(c)'
  BY <1>2 DEF Failing
<1>8. Gone(c)' = Gone(c) /\ capture'[c] = capture[c] /\ layout'[c] = layout[c]
      /\ Reach(c)' = Len(Gone(c))
  BY <1>2, <1>4 DEF Gone, Reach
<1>9. sending'.client = c /\ Due(c)' = Looping(c)'
  BY <1>1, SubscribeSends, DueNext DEF DuePieces
<1>10. Owed(c)' => Owed(c)
  BY <1>2, <1>4 DEF Owed, Streams
<1>11. CASE writer[c].lagged
  <2>1. Due(c)' = <<>> /\ ~Streams(c)'
    BY <1>2, <1>4, <1>9, <1>11 DEF Looping, Streams
  <2>2. Moves(c)
    BY <1>1, <1>2, <1>3, <1>8, <1>11, <2>1, LagChain
  <2> QED
    BY <1>7, <2>2, MovesLead
<1>12. CASE ~writer[c].lagged
  <2>1. Streams(c) /\ ~writer'[c].lagged /\ Due(c)' = sending'.items
    BY <1>2, <1>5, <1>9, <1>12 DEF Looping
  <2>2. CASE /\ RemoveSubscriber(c) /\ sending' = [client |-> c, items |-> <<Rejected>>]
    <3>1. Due(c)' = <<Rejected>> /\ c \notin subscribers'
      BY <2>1, <2>2 DEF RemoveSubscriber
    <3>2. Ch(c)' = Append(Ch(c), Rejected)
      BY <1>1, <1>5, <1>8, <3>1 DEF Ch
    <3>3. Moves(c)
      BY <1>1, <1>2, <1>3, <1>5, <1>8, <1>10, <2>1, <3>1, <3>2, RejectChain
    <3> QED
      BY <1>7, <3>3, MovesLead
  <2>3. CASE /\ after \in 0..sequence /\ ~CursorExpired(after)
             /\ subscribers' = subscribers \cup {c}
             /\ sending' = [client |-> c, items |-> SubscribeAnswer(after)]
    <3>1. EventsFrom(after, sequence - after) \in Seq(Messages)
      BY <1>1, <2>3, SubscribeItems
    <3>2. Ch(c)' = Ch(c) \o SubscribeAnswer(after)
      BY <1>5, <1>8, <2>1, <2>3 DEF Ch
    <3>3. c \in subscribers' /\ client[c].cursor <= sequence
      BY <1>1, <2>3 DEF Cursors
    <3>4. Moves(c)
      BY <1>1, <1>2, <1>3, <1>5, <1>6, <1>8, <1>10, <2>1, <2>3, <3>1, <3>2, <3>3, AnswerChain
    <3> QED
      BY <1>7, <3>4, MovesLead
  <2> QED
    BY <1>1, <2>2, <2>3, SubscribeSends
<1> QED
  BY <1>11, <1>12

LEMMA BeginLed ==
    ASSUME Base, TypeOK', NEW c \in Clients, Chain(c), BeginBootstrap(c)
    PROVE  Led(c)
<1> DEFINE b == <<Bootstrap(sequence)>>
<1>1. TypeOK /\ c # NoClient /\ Behind(c) /\ Cursors(c) /\ Gone(c) \in Seq(Frames)
  BY StreamAssumption, ChainTypes DEF Base, Chain
<1>2. /\ Handling(c, "snapshot") /\ Handled(c) /\ sending = Idle
      /\ capture' = [capture EXCEPT ![c] = [stage |-> "captured", seq |-> sequence]]
      /\ deferred' = [deferred EXCEPT ![c] = <<>>]
      /\ UNCHANGED <<sequence, events, subscribers, sending, layout, open, writer, wire, spent>>
  BY DEF BeginBootstrap, Unlocked
<1>3. SameView(c) /\ SameMembers(c) /\ (Failing(c) => Failing(c)')
  BY <1>2, HandlingIs DEF Handling, SameView, SameMembers, Failing
<1>4. capture[c].stage = "none" /\ sending.client # c /\ Quiet(c)
  BY <1>1, <1>2 DEF Quiet, Handling, Idle
<1>5. Ch(c) = Gone(c)
  BY <1>1, <1>4, DueIs DEF DuePieces
<1>6. capture'[c] = [stage |-> "captured", seq |-> sequence] /\ deferred'[c] = <<>>
  BY <1>1, <1>2 DEF TypeOK
<1>7. Captured(c)' = b
  <2>1. Captured(c)' = b \o <<>>
    <3>1. capture'[c].stage \in {"captured", "reopened"} /\ capture'[c].seq = sequence
          /\ sending'.client # c /\ deferred'[c] = <<>>
      BY <1>2, <1>4, <1>6
    <3>2. Captured(c)' = <<Bootstrap(capture'[c].seq)>> \o deferred'[c]
      BY <3>1 DEF Captured
    <3> QED
      BY <3>1, <3>2
  <2>2. Bootstrap(sequence) \in Frames
    BY <1>1, MessageTypes, MessagesAreFrames, TypeFacts
  <2> QED
    BY <2>1, <2>2
<1>8. Due(c)' = b
  BY <1>1, <1>2, <1>4, <1>7, DueNext DEF DuePieces
<1>9. Gone(c)' = Gone(c)
  BY <1>2 DEF Gone
<1>10. Ch(c)' = Append(Ch(c), Bootstrap(sequence))
  BY <1>1, <1>5, <1>8, <1>9 DEF Ch
<1>11. Reach(c)' = Len(Ch(c)) + 1
  BY <1>6, <1>1, <1>5, <1>10 DEF Reach
<1>12. Moves(c)
  BY <1>1, <1>2, <1>3, <1>9, <1>10, <1>11, OfferChain
<1> QED
  BY <1>3, <1>12, MovesLead

(* The Bootstrap and what was deferred behind it, as they are about to be  *)
(* sent, and after the writer was reopened.                                *)
LEMMA ReopenLed ==
    ASSUME Base, TypeOK', NEW c \in Clients, Chain(c), FinishFenced(c) \/ Reopen(c)
    PROVE  Led(c)
<1>1. TypeOK /\ Locks(c) /\ c # NoClient /\ Behind(c) /\ Cursors(c) /\ Gone(c) \in Seq(Frames)
  BY StreamAssumption, ChainTypes DEF Base, Chain
<1>2. /\ writer' = [writer EXCEPT ![c] = Resumed(@)]
      /\ UNCHANGED <<sequence, events, subscribers, fenced, layout, open, wire, client, spent>>
  BY DEF FinishFenced, Reopen
<1>3. SameView(c) /\ SameMembers(c) /\ sequence' = sequence /\ layout'[c] = layout[c]
  BY <1>2 DEF SameView, SameMembers
<1>4. ~writer'[c].lagged /\ Gone(c)' = Gone(c)
  BY <1>1, <1>2, TypeFacts, ResumeIs DEF TypeOK, Gone
<1>5. sending.client # c
  BY <1>1 DEF FinishFenced, Reopen, Unlocked, Idle, Locks, LoopOk, FenceOk
<1>6. Due(c) = Captured(c)
  BY <1>1, <1>5, DueIs DEF DuePieces
<1>7. CASE capture[c].stage = "captured"
  <2>1. Due(c)' = Due(c)
    <3>1. Captured(c) = <<Bootstrap(capture[c].seq)>> \o deferred[c]
      BY <1>5, <1>7 DEF Captured
    <3>2. CASE FinishFenced(c)
      BY <3>2, <1>1, DueNext, <1>4, <1>6, <3>1 DEF FinishFenced, DuePieces, Looping
    <3>3. CASE Reopen(c)
      <4>1. UNCHANGED <<sending, deferred>>
            /\ capture' = [capture EXCEPT ![c].stage =
                             IF capture[c].stage = "captured" THEN "reopened" ELSE "rejecting"]
        BY <3>3 DEF Reopen
      <4>2. capture'[c].stage = "reopened" /\ capture'[c].seq = capture[c].seq
        BY <1>1, <1>7, <4>1 DEF TypeOK
      <4>3. Due(c)' = Captured(c)'
        BY <1>1, <1>5, <4>1, DueNext DEF DuePieces
      <4> QED
        BY <1>5, <1>6, <3>1, <4>1, <4>2, <4>3 DEF Captured
    <3> QED
      BY <3>2, <3>3
  <2>2. Ch(c)' = Ch(c)
    BY <1>4, <2>1 DEF Ch
  <2>3. Streams(c)
    BY <1>5, <1>7 DEF Streams
  <2>4. capture'[c].stage # "none"
    <3>1. CASE FinishFenced(c)
      BY <1>7, <3>1 DEF FinishFenced
    <3>2. CASE Reopen(c)
      BY <1>1, <1>7, <3>2 DEF Reopen, TypeOK
    <3> QED
      BY <3>1, <3>2
  <2>5. Reach(c)' = Reach(c)
    BY <1>7, <2>2, <2>4 DEF Reach
  <2>6. ASSUME Owed(c)', Flows(c)
        PROVE Confirmed(Ch(c), Reach(c)', client[c].cursor, client[c].resync, layout'[c].seq)
    BY <1>3, <2>3, <2>6, <2>5 DEF Owed, Flows
  <2>7. Moves(c)
    BY <1>1, <1>3, <1>4, <2>2, <2>3, <2>6, StillChain
  <2>8. Failing(c) => Failing(c)'
    BY <1>2, <1>7 DEF Failing
  <2> QED
    BY <2>7, <2>8, MovesLead DEF Chain
<1>8. CASE capture[c].stage = "aborted"
  <2>1. Reopen(c)
    BY <1>8 DEF FinishFenced
  <2>2. UNCHANGED <<sending, deferred>> /\ capture'[c].stage = "rejecting"
    BY <1>1, <1>8, <2>1 DEF Reopen, TypeOK
  <2>3. Failing(c)'
    BY <2>2 DEF Failing
  <2>4. Due(c)' = <<>>
    BY <2>2, <1>1, <1>5, DueNext DEF Captured, DuePieces
  <2>5. Ch(c)' = Gone(c)
    BY <1>4, <2>4, DueNext DEF DuePieces
  <2>6. Behind(c)'
    BY <1>1, <1>3, <2>5, ChainTypes, LessChain
  <2> QED
    BY <2>3, <2>6 DEF Led
<1> QED
  BY <1>7, <1>8 DEF FinishFenced, Reopen

LEMMA FinishLed ==
    ASSUME Base, TypeOK', NEW c \in Clients, Chain(c), FinishUnfenced(c)
    PROVE  Led(c)
<1> DEFINE m == Bootstrap(capture[c].seq)
           q == writer[c]
<1>1. TypeOK /\ Locks(c) /\ Behind(c) /\ Cursors(c) /\ Gone(c) \in Seq(Frames) /\ q \in StreamQueues
      /\ m \in Messages /\ wire[c] \in Seq(Frames) /\ q.reliable \in Seq(Frames) /\ m \in Frames
  BY TypeFacts, MessageTypes, ChainTypes, MessagesAreFrames DEF Base, Chain
<1>2. /\ capture[c].stage = "reopened" /\ writer' = [writer EXCEPT ![c] = Sent(@, m)]
      /\ capture' = [capture EXCEPT ![c] = NoCapture]
      /\ UNCHANGED <<sequence, events, subscribers, fenced, deferred, sending, layout, open, wire,
                     client, spent>>
  BY DEF FinishUnfenced
<1>3. /\ SameView(c) /\ SameMembers(c) /\ sequence' = sequence /\ layout'[c] = layout[c]
      /\ capture'[c].stage = "none" /\ (Failing(c) => Failing(c)')
  BY <1>1, <1>2 DEF SameView, SameMembers, Failing, TypeOK, NoCapture
<1>4. sending.client # c /\ deferred[c] = <<>> /\ sending'.client # c
  BY <1>1, <1>2 DEF Locks, LoopOk, FenceOk
<1>5. Due(c) = <<m>> /\ Ch(c) = Append(Gone(c), m) /\ Reach(c) = Len(Ch(c))
  <2>1. Captured(c) = <<m>> \o <<>>
    BY <1>2, <1>4 DEF Captured
  <2>2. <<m>> \o <<>> = <<m>>
    BY <1>1
  <2>3. Due(c) = <<m>>
    BY <1>1, <1>4, <2>1, <2>2, DueIs DEF DuePieces
  <2>4. Ch(c) = Append(Gone(c), m)
    BY <1>1, <2>3 DEF Ch
  <2> QED
    BY <1>2, <2>3, <2>4 DEF Reach
<1>6. Due(c)' = <<>>
  BY <1>3, <1>4, DueNext DEF Quiet, DuePieces
<1>7. writer'[c] = Sent(q, m) /\ SendEffect(q, m, Sent(q, m))
  BY SMTT(30), <1>1, <1>2, SendIs DEF TypeOK
<1> HIDE DEF m, q
<1>8. CASE SentOk(q, m)
  <2>1. ~writer'[c].lagged /\ writer'[c].reliable = Append(q.reliable, m) /\ ~q.lagged
    BY <1>7, <1>8 DEF SendEffect
  <2>2. Gone(c)' = Append(Gone(c), m)
    <3>1. Gone(c)' = wire[c] \o Append(q.reliable, m)
      BY <1>1, <1>2, <2>1 DEF Gone
    <3>2. wire[c] \o Append(q.reliable, m) = Append(wire[c] \o q.reliable, m)
      BY <1>1, ConcatAppend DEF q
    <3> QED
      BY <3>1, <3>2 DEF Gone, q
  <2>3. Ch(c)' = Ch(c)
    BY <1>5, <1>6, <2>2, DueNext DEF DuePieces
  <2>4. Streams(c) /\ Reach(c)' = Reach(c)
    BY <1>3, <1>5, <2>1, <2>2 DEF Streams, Reach, q
  <2>5. ASSUME Owed(c)', Flows(c)
        PROVE Confirmed(Ch(c), Reach(c)', client[c].cursor, client[c].resync, layout'[c].seq)
    BY <1>3, <2>4, <2>5 DEF Owed, Flows
  <2>6. Moves(c)
    BY <1>1, <1>3, <2>1, <2>3, <2>4, <2>5, StillChain
  <2> QED
    BY <1>3, <2>6, MovesLead
<1>9. CASE ~SentOk(q, m)
  <2>1. \/ writer'[c] = q /\ q.lagged
        \/ writer'[c].lagged /\ writer'[c].reliable = <<LagNotice>>
    BY <1>2, PhaseFacts, <1>7, <1>9 DEF q, SendEffect
  <2>2. writer'[c].lagged /\ ~Streams(c)'
    BY <1>3, <2>1 DEF Streams
  <2>3. CASE writer'[c] = q /\ q.lagged
    BY <1>2, <2>3, <1>1, <1>3, <1>6, <2>2, LagChain, MovesLead DEF Gone, q
  <2>4. CASE writer'[c].reliable = <<LagNotice>>
    BY <1>2, <2>4, <1>1, <1>3, <1>6, <2>2, CutChain, MovesLead DEF Gone
  <2> QED
    BY <2>1, <2>3, <2>4
<1> QED
  BY <1>8, <1>9

LEMMA FailLed ==
    ASSUME Base, TypeOK', NEW c \in Clients, Chain(c), AbortBootstrap(c) \/ CloseConnection(c)
    PROVE  Led(c)
<1>1. /\ TypeOK /\ Locks(c) /\ c # NoClient /\ Behind(c) /\ Gone(c) \in Seq(Frames)
      /\ Begins(Gone(c), Ch(c)) /\ Captured(c) \in Seq(Frames) /\ Ch(c) \in Seq(Frames)
      /\ deferred[c] \in Seq(Frames)
  BY TypeFacts, ChainsAreFrames, StreamAssumption, ChainTypes DEF Base, Chain
<1>2. /\ sending = Idle /\ UNCHANGED <<sequence, events, sending, layout, open, writer, wire, client>>
      /\ deferred' = [deferred EXCEPT ![c] = <<>>]
  BY DEF AbortBootstrap, CloseConnection, Unlocked, RemoveSubscriber
<1>3. SameView(c) /\ Gone(c)' = Gone(c) /\ deferred'[c] = <<>> /\ sending.client # c /\ sending'.client # c
  BY <1>1, <1>2 DEF SameView, Gone, TypeOK, Idle
<1>4. Failing(c)'
  BY <1>1 DEF AbortBootstrap, TypeOK, Failing, CloseConnection
<1>5. Due(c)' = Captured(c)' /\ Due(c) = Captured(c)
  BY <1>1, <1>3, DueIs, DueNext DEF DuePieces
<1>6. CASE Captured(c)' = <<>>
  BY <1>3, <1>5, <1>6, DueNext, <1>1, <1>2, LessChain, <1>4 DEF DuePieces, Led
<1>7. CASE Captured(c)' # <<>>
  <2> DEFINE b == <<Bootstrap(capture[c].seq)>>
             s == Gone(c) \o b
  <2>1. CloseConnection(c)
    <3>1. AbortBootstrap(c) => capture'[c].stage = "aborted"
      BY <1>1 DEF AbortBootstrap, TypeOK
    <3> QED
      BY <1>7, <3>1 DEF Captured
  <2>2. capture' = capture /\ capture[c].stage \in {"captured", "reopened"}
    BY <1>7, <2>1 DEF CloseConnection, Captured
  <2>3. b \in Seq(Frames) /\ b \o <<>> = b
    BY <1>1, TypeFacts, MessageTypes, MessagesAreFrames
  <2>4. Captured(c)' = b
    BY <1>3, <2>2, <2>3 DEF Captured
  <2>5. Captured(c) = b \o deferred[c]
    BY <1>3, <2>2 DEF Captured
  <2>6. Ch(c)' = s
    BY <1>3, <1>5, <2>4 DEF Ch
  <2> HIDE DEF b
  <2>7. Ch(c) = s \o deferred[c]
    <3>1. Ch(c) = Gone(c) \o (b \o deferred[c])
      BY <1>5, <2>5 DEF Ch
    <3>2. (Gone(c) \o b) \o deferred[c] = Gone(c) \o (b \o deferred[c])
      BY <1>1, <2>3, ConcatAssoc
    <3> QED
      BY <3>1, <3>2
  <2>8. s \in Seq(Frames)
    BY <1>1, <2>3
  <2> HIDE DEF s
  <2>9. Begins(s, Ch(c))
    BY <1>1, <2>7, <2>8, BeginningConcat
  <2>10. Behind(c)'
    BY <1>1, <1>2, <1>3, <2>6, <2>8, <2>9, LessChain
  <2> QED
    BY <1>4, <2>10 DEF Led
<1> QED
  BY <1>6, <1>7

(* What a send does to what the Server is done with.                       *)
LEMMA SendOutcome ==
    ASSUME TypeOK, NEW c \in Clients, NEW m \in Messages, writer'[c] = Sent(writer[c], m),
           wire'[c] = wire[c], writer[c].alive
    PROVE  \/ /\ SentOk(writer[c], m) /\ ~writer[c].lagged /\ ~writer'[c].lagged
              /\ Gone(c)' = Append(Gone(c), m)
           \/ /\ ~SentOk(writer[c], m) /\ writer[c].lagged /\ writer'[c].lagged
              /\ Gone(c)' = Gone(c)
           \/ /\ ~SentOk(writer[c], m) /\ ~writer[c].lagged /\ writer'[c].lagged
              /\ Gone(c)' = wire[c] \o <<LagNotice>>
<1> DEFINE q == writer[c]
<1>1. wire[c] \in Seq(Frames) /\ q.reliable \in Seq(Frames) /\ m \in Frames
  BY ChainTypes, MessagesAreFrames
<1>2. SendEffect(q, m, writer'[c])
  BY TypeFacts, SendIs
<1> HIDE DEF q
<1>3. ASSUME SentOk(q, m), ~q.lagged, ~writer'[c].lagged,
             writer'[c].reliable = Append(q.reliable, m)
      PROVE  Gone(c)' = Append(Gone(c), m)
  <2>1. wire[c] \o Append(q.reliable, m) = Append(wire[c] \o q.reliable, m)
    BY <1>1, ConcatAppend
  <2>2. Gone(c)' = wire[c] \o Append(q.reliable, m) /\ Gone(c) = wire[c] \o q.reliable
    BY <1>3 DEF Gone, q
  <2> QED
    BY <2>1, <2>2
<1>4. ASSUME writer'[c] = q PROVE Gone(c)' = Gone(c)
  BY <1>4 DEF Gone, q
<1>5. ASSUME writer'[c].reliable = <<LagNotice>> PROVE Gone(c)' = wire[c] \o <<LagNotice>>
  BY <1>5 DEF Gone
<1> QED
  BY <1>2, <1>3, <1>4, <1>5 DEF SendEffect, q

LEMMA AnswerLed ==
    ASSUME Base, TypeOK', NEW c \in Clients, Chain(c), NEW m \in Messages, m.type \in Answered,
           m.seq <= sequence, m.type = "layoutApplied" =>
             m.seq = layout[c].seq /\ layout[c].stage \in {"answering", "committed"},
           capture[c].stage = "none", client[c].phase # "down",
           writer'[c] = Sent(writer[c], m), SameView(c), layout'[c] \in {layout[c], NoLayout},
           UNCHANGED <<sequence, subscribers, deferred, capture, sending, open, wire>>
    PROVE  Led(c)
<1>1. TypeOK /\ Behind(c) /\ Cursors(c) /\ Gone(c) \in Seq(Frames) /\ writer[c].alive
  BY ChainTypes, PhaseFacts DEF Base, Chain
<1>2. SameMembers(c) /\ (Failing(c) => Failing(c)')
  BY DEF SameMembers, Failing
<1>3. Reach(c) = Len(Gone(c)) /\ Reach(c)' = Len(Gone(c)')
  BY DEF Reach
<1>4. CASE ~writer[c].lagged /\ ~writer'[c].lagged /\ Gone(c)' = Append(Gone(c), m)
  <2>1. Due(c)' = Due(c)
    BY <1>4 DEF Due, Looping, Captured
  <2>2. Streams(c) /\ (m.type = "layoutApplied" => Owed(c))
    BY <1>4 DEF Streams, Owed
  <2>3. Reach(c)' = Len(Gone(c)) + 1
    BY <1>1, <1>3, <1>4
  <2>4. Owed(c)' => Owed(c) /\ layout'[c].seq = layout[c].seq
    BY <2>2 DEF Owed, NoLayout
  <2>5. Moves(c)
    BY <1>1, <1>2, <1>3, <1>4, <2>1, <2>2, <2>3, <2>4, InsertChain
  <2> QED
    BY <1>2, <2>5, MovesLead
<1>5. CASE writer'[c].lagged
  BY <1>5, DueNext, <1>1, LagChain, <1>2, MovesLead, CutChain, SendOutcome DEF Quiet, Streams,
     DuePieces
<1> QED
  BY <1>1, <1>4, <1>5, SendOutcome

LEMMA LayoutLed ==
    ASSUME Base, TypeOK', NEW c \in Clients, Chain(c),
           \/ AnswerLocalLayout(c) \/ RefuseLayout(c) \/ StartExternalLayout(c)
           \/ AnswerExternalLayout(c)
    PROVE  Led(c)
<1>1. TypeOK /\ Locks(c) /\ Behind(c) /\ Cursors(c) /\ layout[c].seq \in 0..Last
      /\ sequence \in Nat
  BY TypeFacts DEF Base, Chain
<1>2. /\ LayoutApplied(layout[c].seq) \in Messages /\ LayoutRejected \in Messages
      /\ LayoutApplied(layout[c].seq).type = "layoutApplied"
      /\ LayoutApplied(layout[c].seq).seq = layout[c].seq
      /\ LayoutRejected.type = "layoutRejected" /\ LayoutRejected.seq = 0
      /\ {"layoutApplied", "layoutRejected"} = Answered
  BY <1>1, MessageTypes, MessageFields DEF Answered
<1>3. layout[c].seq <= sequence /\ 0 <= sequence
  BY <1>1 DEF Cursors
<1>4. CASE AnswerLocalLayout(c) \/ AnswerExternalLayout(c)
  <2>1. /\ layout[c].stage # "none" /\ layout' = [layout EXCEPT ![c] = NoLayout]
        /\ UNCHANGED <<sequence, subscribers, deferred, capture, sending, open, wire, client>>
    BY <1>4 DEF AnswerLocalLayout, AnswerExternalLayout
  <2>2. capture[c].stage = "none" /\ client[c].phase # "down"
    BY <1>4, <2>1, PhaseFacts DEF AnswerLocalLayout, AnswerExternalLayout, FenceFree
  <2>3. SameView(c) /\ layout'[c] = NoLayout
    BY <1>1, <2>1 DEF SameView, TypeOK
  <2>4. \/ /\ layout[c].stage \in {"answering", "committed"}
           /\ writer'[c] = Sent(writer[c], LayoutApplied(layout[c].seq))
        \/ writer'[c] = Sent(writer[c], LayoutRejected)
    BY <1>1, <1>4 DEF AnswerLocalLayout, AnswerExternalLayout, TypeOK
  <2>5. CASE /\ layout[c].stage \in {"answering", "committed"}
             /\ writer'[c] = Sent(writer[c], LayoutApplied(layout[c].seq))
    BY <1>2, <1>3, <2>1, <2>2, <2>3, <2>5, AnswerLed
  <2>6. CASE writer'[c] = Sent(writer[c], LayoutRejected)
    BY <1>2, <1>3, <2>1, <2>2, <2>3, <2>6, AnswerLed
  <2> QED
    BY <2>4, <2>5, <2>6
<1>5. CASE RefuseLayout(c)
  <2>1. /\ Handling(c, "layout") /\ Handled(c) /\ writer'[c] = Sent(writer[c], LayoutRejected)
        /\ UNCHANGED <<sequence, subscribers, deferred, capture, sending, open, wire, layout>>
    BY <1>1, <1>5 DEF RefuseLayout, TypeOK
  <2>2. SameView(c) /\ client[c].phase # "down" /\ capture[c].stage = "none"
    BY <2>1, HandlingIs DEF SameView, Handling
  <2>3. LayoutRejected.type # "layoutApplied" /\ layout'[c] = layout[c]
    BY <1>2, <2>1
  <2> QED
    BY <1>2, <1>3, <2>1, <2>2, <2>3, AnswerLed
<1>6. CASE StartExternalLayout(c)
  <2>1. /\ Handling(c, "layout") /\ Handled(c)
        /\ layout' = [layout EXCEPT ![c] = [stage |-> "running", seq |-> 0]]
        /\ UNCHANGED <<sequence, subscribers, deferred, capture, sending, open, wire, writer>>
    BY <1>6 DEF StartExternalLayout
  <2>2. SameView(c) /\ SameMembers(c) /\ (Failing(c) => Failing(c)')
    BY <2>1, HandlingIs DEF SameView, SameMembers, Failing
  <2>3. Ch(c)' = Ch(c) /\ Gone(c)' = Gone(c) /\ (Streams(c)' => Streams(c))
    BY <2>1 DEF Ch, Gone, Due, Looping, Captured, Streams
  <2>4. ~Owed(c)'
    BY <1>1, <2>1 DEF Owed, TypeOK
  <2>5. Moves(c)
    BY <1>1, <2>1, <2>2, <2>3, <2>4, StillChain
  <2> QED
    BY <2>2, <2>5, MovesLead
<1> QED
  BY <1>4, <1>5, <1>6

LEMMA RejectLed ==
    ASSUME Base, TypeOK', NEW c \in Clients, Chain(c), RejectBootstrap(c)
    PROVE  Led(c)
<1> DEFINE m == SnapshotRejected
<1>1. /\ TypeOK /\ Locks(c) /\ Behind(c) /\ Gone(c) \in Seq(Frames) /\ Begins(Gone(c), Ch(c))
      /\ m \in Messages /\ m.type = "snapshotRejected" /\ m.seq = 0 /\ sequence \in Nat
  BY ChainTypes, MessageTypes, MessageFields DEF Base, Chain
<1>2. /\ capture[c].stage = "rejecting" /\ writer'[c] = Sent(writer[c], m)
      /\ capture'[c].stage = "none" /\ open'[c] = FALSE
      /\ UNCHANGED <<sequence, subscribers, deferred, sending, layout, wire, client>>
  BY <1>1 DEF RejectBootstrap, TypeOK, NoCapture
<1>3. Failing(c)' /\ SameView(c) /\ writer[c].alive
  BY <1>2, PhaseFacts DEF Failing, SameView
<1>4. sending.client # c /\ sending'.client # c
  BY <1>1, <1>2 DEF Locks, LoopOk
<1>5. Ch(c) = Gone(c) /\ Ch(c)' = Gone(c)' /\ Due(c)' = <<>>
  BY <1>2, <1>4, <1>1, DueIs, DueNext DEF Captured, Quiet, DuePieces
<1>6. CASE Gone(c)' = Append(Gone(c), m)
  <2>1. m \in Frames /\ m.seq <= sequence /\ m.type \notin Changes /\ Len(Gone(c)) \in Nat
    BY <1>1, MessagesAreFrames DEF Changes
  <2> HIDE DEF m
  <2>2. Inserted(Append(Gone(c), m), Gone(c), Len(Gone(c)), m)
    BY <1>1, <2>1, InsertedAppend
  <2>3. Bounded(Gone(c), sequence) /\ Ordered(Gone(c), client[c].cursor)
    BY <1>5 DEF Behind, Chain
  <2>4. Bounded(Append(Gone(c), m), sequence)
    BY <2>1, <2>2, <2>3, InsertBounded
  <2>5. Ordered(Append(Gone(c), m), client[c].cursor)
    BY <2>1, <2>2, <2>3, InsertOrdered
  <2>6. Behind(c)'
    BY <1>2, <1>3, <1>5, <1>6, <2>4, <2>5 DEF Behind, SameView
  <2> QED
    BY <1>3, <2>6 DEF Led
<1>7. CASE Gone(c)' = Gone(c)
  BY <1>1, <1>2, <1>3, <1>5, <1>7, LessChain DEF Led
<1>8. CASE writer'[c].lagged /\ Gone(c)' = wire[c] \o <<LagNotice>>
  BY <1>2, <1>8, <1>1, <1>3, <1>5, CutChain DEF Streams, Led, Moves
<1> QED
  BY <1>1, <1>2, <1>3, <1>6, <1>7, <1>8, SendOutcome

(* The loop under the state lock sends its next item.                      *)
LEMMA SendNextLed ==
    ASSUME Base, TypeOK', NEW c \in Clients, Chain(c), SendNext, sending.client = c
    PROVE  Led(c)
<1> DEFINE items == sending.items
           m == Head(items)
           t == Tail(items)
           ok == SentOk(writer[c], m)
           last == ~ok \/ Len(items) = 1
           g == Gone(c)
<1>1. /\ TypeOK /\ Locks(c) /\ c # NoClient /\ Behind(c) /\ g \in Seq(Frames) /\ Ch(c) \in Seq(Frames)
      /\ writer[c].alive /\ capture[c].stage \in {"none", "captured"}
  BY StreamAssumption, ChainTypes DEF Base, Chain, Locks, LoopOk
<1>2. /\ sending # Idle /\ items \in Seq(Messages) /\ items # <<>> /\ m \in Messages
      /\ t \in Seq(Messages) /\ m \in Frames /\ t \in Seq(Frames) /\ items \in Seq(Frames)
  BY <1>1, TypeFacts, SenderIs, MessagesAreFrames, ChainsAreFrames DEF Idle
<1>3. /\ writer'[c] = Sent(writer[c], m)
      /\ sending' = IF last THEN Idle ELSE [sending EXCEPT !.items = t]
      /\ capture'[c] = IF last THEN NoCapture ELSE capture[c]
      /\ ok => SameMembers(c)
      /\ UNCHANGED <<sequence, layout, open, wire, client>>
  BY <1>1, <1>2 DEF SendNext, TypeOK, SameMembers
<1>4. SameView(c) /\ (Failing(c) => Failing(c)')
  BY <1>1, <1>3 DEF SameView, Failing, NoCapture
<1>5. Due(c) = Looping(c) /\ (~writer[c].lagged => Ch(c) = g \o items)
  BY <1>1, DueIs DEF DuePieces, Looping, Ch
<1> HIDE DEF items, m, t, ok, last, g
<1>6. CASE ok /\ ~writer[c].lagged /\ ~writer'[c].lagged /\ Gone(c)' = Append(g, m)
  <2>1. Ch(c) = Append(g, m) \o t
    <3>1. items = <<m>> \o t
      BY <1>2 DEF m, t
    <3>2. <<m>> \in Seq(Frames) /\ g \o <<m>> = Append(g, m)
      BY <1>1, <1>2
    <3>3. (g \o <<m>>) \o t = g \o (<<m>> \o t)
      BY <1>1, <1>2, <3>2, ConcatAssoc
    <3> QED
      BY <1>5, <1>6, <3>1, <3>2, <3>3
  <2>2. ASSUME last
        PROVE  Ch(c)' = Ch(c) /\ capture'[c].stage = "none" /\ Reach(c)' = Len(Gone(c)') /\ Gone(c)' = Ch(c)
    <3>1. Len(items) = 1
      BY <1>6, <2>2 DEF last
    <3>2. t = <<>>
      <4>1. Len(t) = 0
        BY <1>2, <3>1 DEF t
      <4> QED
        BY <1>2, <4>1
    <3>3. Quiet(c)' /\ capture'[c].stage = "none"
      BY <1>1, <1>3, <2>2 DEF Quiet, Idle, NoCapture
    <3>4. Ch(c)' = Gone(c)' /\ Reach(c)' = Len(Gone(c)')
      BY <3>3, DueNext DEF DuePieces
    <3>5. Ch(c) = Append(g, m)
      BY <1>1, <1>2, <2>1, <3>2
    <3> QED
      BY <1>6, <3>3, <3>4, <3>5
  <2>3. ASSUME ~last PROVE Ch(c)' = Ch(c) /\ capture'[c] = capture[c]
    BY <1>1, TypeFacts, <1>3, <2>3, <1>6, DueNext, <2>1 DEF DuePieces, Looping, Ch
  <2>4. Ch(c)' = Ch(c) /\ Streams(c)
    BY <1>6, <2>2, <2>3 DEF Streams
  <2>5. ASSUME Owed(c)', Flows(c)
        PROVE Confirmed(Ch(c), Reach(c)', client[c].cursor, client[c].resync, layout'[c].seq)
    <3>1. Owed(c) /\ layout'[c].seq = layout[c].seq
      BY <1>3, <2>4, <2>5 DEF Owed
    <3>2. Confirmed(Ch(c), Reach(c), client[c].cursor, client[c].resync, layout[c].seq)
      BY <2>5, <3>1 DEF Flows
    <3>3. CASE capture[c].stage = "captured"
      BY <2>2, <2>3, <2>4, <3>3, <3>1, <3>2 DEF Reach
    <3>4. CASE capture[c].stage = "none"
      <4>1. Reach(c) = Len(g) /\ Reach(c)' = Len(Gone(c)')
        BY <2>2, <2>3, <3>4 DEF Reach, g
      <4>2. Len(Gone(c)') = Len(g) + 1 /\ Len(g) \in Nat
        BY <1>1, <1>2, <1>6
      <4>3. Ch(c)[Len(g) + 1] = m
        BY <1>1, <1>2, ConcatIndex, <2>1
      <4>4. m.type # "bootstrap"
        BY <1>2, <1>1, <3>4 DEF m, Locks, LoopOk, items
      <4>5. Confirmed(Ch(c), Len(g) + 1, client[c].cursor, client[c].resync, layout[c].seq)
        BY <4>2, <4>3, <4>4, <3>2, <4>1 DEF Confirmed
      <4> QED
        BY <3>1, <4>1, <4>2, <4>5
    <3> QED
      BY <1>1, <3>3, <3>4
  <2>6. Moves(c)
    BY <1>1, <1>3, <1>4, <1>6, <2>4, <2>5, StillChain
  <2> QED
    BY <1>4, <2>6, MovesLead
<1>7. CASE ~ok /\ writer'[c].lagged
  <2>1. Quiet(c)' /\ ~Streams(c)'
    BY <1>1, <1>3, <1>7 DEF Quiet, Streams, NoCapture, last
  <2>2. Due(c)' = <<>>
    BY <2>1, DueNext DEF DuePieces
  <2>3. CASE writer[c].lagged /\ Gone(c)' = g
    BY <1>1, <1>3, <1>4, <2>1, <2>2, <2>3, LagChain, MovesLead DEF g
  <2>4. CASE Gone(c)' = wire[c] \o <<LagNotice>>
    BY <1>1, <1>3, <1>4, <2>1, <2>2, <2>4, CutChain, MovesLead
  <2> QED
    BY <1>1, <1>2, <1>3, <1>7, <2>3, <2>4, SendOutcome DEF ok, g
<1> QED
  BY <1>1, <1>2, <1>3, <1>6, <1>7, SendOutcome DEF ok, g

(* An event is published, by c's own connection or another's.              *)
LEMMA PublishLed ==
    ASSUME Base, TypeOK', NEW c \in Clients, Chain(c), NEW origin, PublishEvent(origin),
           sending = Idle, UNCHANGED <<capture, sending, open, wire>>, SameView(c),
           c = origin => capture[c].stage = "none" /\ layout'[c].seq = sequence'
                         /\ client[c].phase # "down",
           c # origin => layout'[c] = layout[c]
    PROVE  Led(c)
<1> DEFINE m == Event(sequence + 1)
           g == Gone(c)
           d == Due(c)
<1>1. /\ TypeOK /\ Locks(c) /\ c # NoClient /\ Behind(c) /\ Cursors(c) /\ g \in Seq(Frames)
      /\ Ch(c) \in Seq(Frames) /\ d \in Seq(Frames) /\ sequence \in Nat
      /\ sending.client # c /\ deferred[c] \in Seq(Frames)
  BY StreamAssumption, TypeFacts, ChainsAreFrames, ChainTypes DEF Base, Chain, Idle
<1>2. /\ sequence' = sequence + 1 /\ sequence' \in {sequence, sequence + 1}
      /\ Holds(c) \/ Sends(c) \/ (Skips(c) /\ c # origin)
      /\ c = origin => Sends(c)
  BY <1>1, PublishIs DEF Locks
<1>3. Failing(c) => Failing(c)'
  BY DEF Failing
<1>4. m \in Messages /\ m \in Frames
  <2>1. sequence + 1 \in 0..Last
    BY <1>1, LastIsNumber DEF PublishEvent, Last
  <2> QED
    BY <1>1, <2>1, MessageTypes, MessagesAreFrames
<1>5. Due(c) = Captured(c) /\ Due(c)' = Captured(c)'
  BY <1>1, DueIs, DueNext DEF DuePieces
<1> HIDE DEF m, g, d
<1>6. CASE Holds(c)
  <2>1. /\ capture[c].stage = "captured" /\ c # origin /\ SameMembers(c)
        /\ deferred'[c] = Append(deferred[c], m) /\ writer'[c] = writer[c]
    BY <1>1, <1>6 DEF Holds, Locks, FenceOk, SameMembers, m
  <2> DEFINE b == <<Bootstrap(capture[c].seq)>>
  <2>2. b \in Seq(Frames)
    BY <1>1, TypeFacts, MessageTypes, MessagesAreFrames
  <2>3. d = b \o deferred[c] /\ Due(c)' = b \o Append(deferred[c], m)
    BY <1>1, <1>5, <2>1 DEF Captured, d
  <2> HIDE DEF b
  <2>4. Due(c)' = Append(d, m)
    BY <1>1, <1>4, <2>2, <2>3, ConcatAppend
  <2>5. Gone(c)' = g
    BY <2>1 DEF Gone, g
  <2>6. Ch(c)' = Append(Ch(c), m)
    BY <1>1, <1>4, ConcatAppend, <2>4, <2>5 DEF Ch, g, d
  <2>7. Streams(c)
    BY <1>1, <2>1 DEF Streams
  <2>8. ASSUME Owed(c)'
        PROVE  Reach(c)' = Len(Ch(c)) + 1 /\ layout'[c].seq = layout[c].seq /\ Owed(c) /\ Reach(c) = Len(Ch(c))
    BY <2>1, <2>7, <2>8, <1>1, <1>4, <2>6 DEF Owed, Reach
  <2>9. Moves(c)
    BY <1>1, <1>2, <2>1, <2>5, <2>6, <2>7, <2>8, AppendChain DEF m, g
  <2> QED
    BY <1>3, <2>9, MovesLead
<1>7. CASE Sends(c) /\ (c \in subscribers \/ c = origin)
  <2>1. capture[c].stage \notin {"captured", "reopened"}
    BY <1>1, <1>7 DEF Sends, Locks, FenceOk
  <2>2. Due(c) = <<>> /\ Due(c)' = <<>> /\ Ch(c) = g /\ Ch(c)' = Gone(c)'
    BY <1>1, <1>5, <2>1, DueIs, DueNext DEF DuePieces, Captured, g
  <2>3. writer[c].alive /\ writer'[c] = Sent(writer[c], m) /\ wire'[c] = wire[c]
    BY <1>7, PhaseFacts DEF Sends, m
  <2>4. Reach(c) = Len(Ch(c)) /\ Reach(c)' = Len(Ch(c)')
    BY <2>2 DEF Reach, g
  <2>5. CASE SentOk(writer[c], m) /\ ~writer[c].lagged /\ ~writer'[c].lagged /\ Gone(c)' = Append(g, m)
    <3>1. SameMembers(c) /\ Streams(c)
      BY <1>7, <2>5 DEF Sends, SameMembers, Streams, m
    <3>2. ASSUME Owed(c)'
          PROVE /\ Reach(c)' = Len(Ch(c)) + 1
                /\ \/ layout'[c].seq = sequence'
                   \/ layout'[c].seq = layout[c].seq /\ Owed(c) /\ Reach(c) = Len(Ch(c))
      BY <1>1, <1>4, <2>2, <2>5, <2>4, <3>1, <3>2 DEF Owed
    <3>3. Moves(c)
      BY <1>1, <1>2, <2>2, <2>5, <3>1, <3>2, AppendChain DEF m
    <3> QED
      BY <1>3, <3>3, MovesLead
  <2>6. CASE writer'[c].lagged
    <3>1. ~Streams(c)'
      BY <2>1, <2>6 DEF Streams
    <3>2. CASE writer[c].lagged /\ Gone(c)' = g
      BY <1>1, <1>2, <2>2, <3>1, <3>2, LagChain, <1>3, MovesLead DEF g
    <3>3. CASE Gone(c)' = wire[c] \o <<LagNotice>>
      BY <1>1, <1>2, <2>2, <3>1, <3>3, CutChain, <1>3, MovesLead
    <3> QED
      BY <1>1, <1>4, <2>3, <2>6, <3>2, <3>3, SendOutcome DEF g
  <2> QED
    BY <1>1, <1>4, <2>3, <2>5, <2>6, SendOutcome DEF g
<1>8. CASE c \notin subscribers /\ c # origin /\ (Skips(c) \/ Sends(c))
  <2>1. /\ writer'[c] = writer[c] /\ deferred'[c] = deferred[c] /\ SameMembers(c)
        /\ layout'[c] = layout[c]
    BY <1>1, <1>8 DEF Skips, Sends, SameMembers, PublishEvent
  <2>2. /\ Gone(c)' = g /\ Ch(c)' = Ch(c) /\ (Streams(c)' => Streams(c)) /\ (Owed(c)' => Owed(c))
        /\ Reach(c)' = Reach(c)
    BY <2>1 DEF Gone, Ch, Due, Looping, Captured, Streams, Owed, Reach, g
  <2>3. ASSUME Owed(c)', Flows(c)
        PROVE Confirmed(Ch(c), Reach(c)', client[c].cursor, client[c].resync, layout'[c].seq)
    BY <2>1, <2>2, <2>3 DEF Flows
  <2>4. Moves(c)
    BY <1>1, <1>2, <1>8, <2>1, <2>2, <2>3, StillChain DEF g
  <2> QED
    BY <1>3, <2>4, MovesLead
<1> QED
  BY <1>2, <1>6, <1>7, <1>8 DEF Skips

(* A step that moves nothing of c's.                                       *)
LEMMA SameLed ==
    ASSUME TypeOK, TypeOK', NEW c \in Clients, Chain(c), Gone(c)' = Gone(c), Due(c)' = Due(c),
           writer'[c].lagged = writer[c].lagged, SameView(c), SameMembers(c), sequence' = sequence,
           capture'[c] = capture[c], (sending'.client = c) <=> (sending.client = c),
           layout'[c] = layout[c], open'[c] = open[c]
    PROVE  Led(c)
BY StillChain, MovesLead DEF Ch, Streams, Owed, Reach, Failing, Flows, Chain

LEMMA UntouchedLed ==
    ASSUME Base, TypeOK', NEW c \in Clients, Chain(c), Untouched(c), sequence' = sequence
    PROVE  Led(c)
BY SameLed DEF Untouched, SameView, SameMembers, Gone, Due, Looping, Captured, Base

LEMMA WriterLed ==
    ASSUME Base, TypeOK', NEW c \in Clients, Chain(c), WriterSend(c)
    PROVE  Led(c)
<1> DEFINE w == wire[c]
           r == writer[c].reliable
           h == Head(r)
           t == Tail(r)
<1>1. /\ TypeOK /\ w \in Seq(Frames) /\ r \in Seq(Frames) /\ writer[c] \in StreamQueues
  BY TypeFacts, ChainTypes DEF Base
<1>2. /\ HasItem(writer[c]) /\ wire' = [wire EXCEPT ![c] = Append(@, Received(writer[c]))]
      /\ writer' = [writer EXCEPT ![c] = AfterReceive(@)]
      /\ UNCHANGED <<sequence, subscribers, deferred, capture, sending, layout, open, client>>
  BY DEF WriterSend, serverVars
<1>3. r # <<>> /\ Received(writer[c]) = h /\ AfterReceive(writer[c]).reliable = t
      /\ AfterReceive(writer[c]).lagged = writer[c].lagged
  BY <1>1, <1>2, ReceiveIs
<1>4. wire'[c] = Append(w, h) /\ writer'[c].reliable = t /\ writer'[c].lagged = writer[c].lagged
  BY <1>1, <1>2, <1>3 DEF TypeOK
<1>5. h \in Frames /\ t \in Seq(Frames) /\ r = <<h>> \o t
  BY <1>1, <1>3
<1> HIDE DEF w, r, h, t
<1>6. Gone(c)' = Gone(c)
  <2>1. Append(w, h) = w \o <<h>> /\ <<h>> \in Seq(Frames)
    BY <1>1, <1>5
  <2>2. (w \o <<h>>) \o t = w \o (<<h>> \o t)
    BY <1>1, <1>5, <2>1, ConcatAssoc
  <2>3. Gone(c)' = Append(w, h) \o t
    BY <1>4 DEF Gone
  <2>4. Gone(c) = w \o r
    BY DEF Gone, w, r
  <2> QED
    BY <1>5, <2>1, <2>2, <2>3, <2>4
<1>7. Due(c)' = Due(c) /\ SameView(c) /\ SameMembers(c)
  BY <1>2, <1>4 DEF Due, Looping, Captured, SameView, SameMembers
<1> QED
  BY <1>1, <1>2, <1>4, <1>6, <1>7, SameLed

LEMMA ReceiveLed ==
    ASSUME Base, TypeOK', NEW c \in Clients, Chain(c), ClientReceive(c)
    PROVE  Led(c)
<1> DEFINE m == Head(wire[c])
           k == client[c]
<1>1. /\ TypeOK /\ Locks(c) /\ Behind(c) /\ wire[c] \in Seq(Frames) /\ writer[c].reliable \in Seq(Frames)
      /\ k \in ClientStates /\ Gone(c) \in Seq(Frames) /\ Looping(c) \in Seq(Frames)
      /\ Captured(c) \in Seq(Frames) /\ Due(c) \in Seq(Frames)
  BY TypeFacts, ChainTypes DEF Base, Chain
<1>2. /\ wire[c] # <<>> /\ wire' = [wire EXCEPT ![c] = Tail(@)]
      /\ client' = [client EXCEPT ![c] = On(c, @, m)]
      /\ UNCHANGED <<sequence, subscribers, deferred, capture, sending, layout, open, writer>>
  BY DEF ClientReceive, serverVars
<1>3. k.phase # "down" /\ m \in Messages /\ (c \notin Guis => m.type \notin Answered)
  BY <1>2, ReaderIs
<1>4. /\ client'[c] = On(c, k, m) /\ wire'[c] = Tail(wire[c])
  BY <1>1, <1>2 DEF TypeOK
<1>5. /\ k.phase = "connecting" => HandshakeEffect(k, m, client'[c])
      /\ k.phase = "up" => ReadEffect(k, m, client'[c])
  BY <1>1, <1>3, <1>4, ReadIs
<1>6. Gone(c)' = Tail(Gone(c))
  <2>1. Tail(wire[c] \o writer[c].reliable) = Tail(wire[c]) \o writer[c].reliable
    BY <1>1, <1>2, TailConcat
  <2>2. Gone(c)' = Tail(wire[c]) \o writer[c].reliable /\ Gone(c) = wire[c] \o writer[c].reliable
    BY <1>2, <1>4 DEF Gone
  <2> QED
    BY <2>1, <2>2
<1>7. /\ Due(c)' = Due(c) /\ SameMembers(c) /\ (Failing(c) => Failing(c)')
      /\ Streams(c)' => Streams(c)
      /\ Owed(c)' => Owed(c)
  BY <1>2 DEF Due, Looping, Captured, SameMembers, Failing, Streams, Owed
<1>8. CASE k.phase = "up"
  BY <1>1, <1>2, <1>5, <1>6, <1>7, <1>8, ReadChain, MovesLead
<1>9. CASE k.phase = "connecting"
  <2>1. /\ c \notin subscribers /\ ~k.subscribed /\ layout[c].stage = "none"
        /\ NoneOf(wire[c], Answered) /\ NoneOf(writer[c].reliable, Answered)
    BY <1>1, <1>9 DEF Locks, PhaseOk
  <2>2. NoneOf(Looping(c), Answered)
    BY EmptyChain, <1>1 DEF Locks, LoopOk, Changes, NoneOf, Answered, Looping
  <2>3. NoneOf(Captured(c), Answered)
    <3>1. CASE Captured(c) = <<>>
      BY <3>1, EmptyChain
    <3>2. CASE Captured(c) = <<Bootstrap(capture[c].seq)>> \o deferred[c]
      <4>1. /\ <<Bootstrap(capture[c].seq)>> \in Seq(Frames) /\ deferred[c] \in Seq(Frames)
            /\ Bootstrap(capture[c].seq).type = "bootstrap"
        BY <1>1, TypeFacts, MessageTypes, MessagesAreFrames, ChainsAreFrames, MessageFields
      <4>2. NoneOf(<<Bootstrap(capture[c].seq)>>, Answered)
        BY <4>1 DEF NoneOf, Answered
      <4>3. NoneOf(deferred[c], Answered)
        BY <1>1 DEF Locks, FenceOk, NoneOf, Answered
      <4> QED
        BY <3>2, <4>1, <4>2, <4>3, NoneConcat
    <3> QED
      BY <3>1, <3>2 DEF Captured
  <2>4. NoneOf(Gone(c), Answered)
    BY <1>1, <2>1, NoneConcat DEF Gone
  <2>5. NoneOf(Due(c), Answered)
    BY <1>1, <2>2, <2>3, NoneConcat DEF Due
  <2>6. NoneOf(Ch(c), Answered)
    BY <1>1, <2>4, <2>5, NoneConcat DEF Ch
  <2>7. Moves(c)
    BY <1>1, <1>2, <1>5, <1>6, <1>7, <1>9, <2>1, <2>6, ReadChain
  <2> QED
    BY <1>7, <2>7, MovesLead
<1> QED
  BY <1>1, <1>3, <1>8, <1>9, ClientIs DEF ClientFields

LEMMA ClientLed ==
    ASSUME Base, TypeOK', NEW c \in Clients, Chain(c),
           VisualGap(c) \/ SendLayout(c) \/ Connect(c) \/ EndConnection(c)
    PROVE  Led(c)
<1>1. TypeOK /\ Locks(c) /\ Behind(c) /\ client[c] \in ClientStates /\ writer[c] \in StreamQueues
      /\ c # NoClient
  BY TypeFacts, StreamAssumption DEF Base, Chain
<1>2. CASE VisualGap(c)
  <2>1. /\ client'[c] = RequestSnapshot(client[c])
        /\ UNCHANGED <<sequence, subscribers, deferred, capture, sending, layout, open, writer, wire>>
    BY <1>1, <1>2 DEF VisualGap, serverVars, TypeOK
  <2>2. /\ client'[c].cursor = client[c].cursor /\ client'[c].subscribed = client[c].subscribed
        /\ client'[c].resync
    BY <1>1, <2>1, RequestIs
  <2>3. /\ Ch(c)' = Ch(c) /\ Gone(c)' = Gone(c) /\ SameMembers(c) /\ Reach(c)' = Reach(c)
        /\ (Streams(c)' => Streams(c)) /\ (Owed(c)' => Owed(c)) /\ (Failing(c) => Failing(c)')
    BY <2>1 DEF Ch, Gone, Due, Looping, Captured, SameMembers, Reach, Streams, Owed, Failing
  <2>4. Moves(c)
    BY <1>1, <2>1, <2>2, <2>3, GapChain
  <2> QED
    BY <2>3, <2>4, MovesLead
<1>3. CASE SendLayout(c)
  BY <1>3, <1>1, SameLed DEF SendLayout, serverVars, TypeOK, SameView, ClientStates, SameMembers,
     Gone, Due, Looping, Captured
<1>4. CASE Connect(c)
  <2>1. /\ client' = [client EXCEPT ![c] = [client[c] EXCEPT !.phase = "connecting",
                                                            !.out = <<SnapshotRequest>>]]
        /\ writer' = [writer EXCEPT ![c] = NewQueue] /\ client[c].phase = "down"
        /\ UNCHANGED <<sequence, subscribers, deferred, capture, sending, layout, wire>>
    BY <1>4 DEF Connect
  <2>2. /\ wire[c] = <<>> /\ capture[c].stage = "none" /\ c \notin subscribers
        /\ ~client[c].subscribed /\ layout[c].stage = "none" /\ sending.client # c
    BY <1>1, <2>1 DEF Locks, PhaseOk, LoopOk
  <2>3. writer'[c] = NewQueue /\ ~client'[c].subscribed
    BY <1>1, <2>1, <2>2 DEF TypeOK, ClientStates
  <2>4. Gone(c)' = <<>>
    BY <2>1, <2>2, <2>3, NewIs DEF Gone
  <2>5. Quiet(c)'
    BY <2>1, <2>2 DEF Quiet
  <2>6. Due(c)' = <<>>
    BY <2>5, DueNext DEF DuePieces
  <2>7. Behind(c)' /\ Flows(c)'
    BY <1>1, <2>1, <2>2, <2>3, <2>4, <2>6, NoneChain
  <2> QED
    BY <2>7 DEF Led
<1>5. CASE EndConnection(c)
  <2>1. /\ client' = [client EXCEPT ![c] = Offline(client[c])]
        /\ writer' = [writer EXCEPT ![c] = Closed(writer[c])]
        /\ wire' = [wire EXCEPT ![c] = <<>>] /\ capture' = [capture EXCEPT ![c] = NoCapture]
        /\ sending' = IF sending.client = c THEN Idle ELSE sending
        /\ layout' = [layout EXCEPT ![c] = NoLayout]
        /\ subscribers' = subscribers \ {c}
    BY <1>5 DEF EndConnection, RemoveSubscriber
  <2>2. /\ wire'[c] = <<>> /\ capture'[c].stage = "none" /\ c \notin subscribers'
        /\ layout'[c].stage = "none" /\ sending'.client # c /\ writer'[c] = Closed(writer[c])
        /\ client'[c] = Offline(client[c])
    BY <1>1, <2>1 DEF TypeOK, NoCapture, NoLayout, Idle
  <2>3. ~client'[c].subscribed
    BY <1>1, <2>2 DEF Offline, ClientStates
  <2>4. Gone(c)' = <<>>
    BY <1>1, <2>2, ResumeIs DEF Gone
  <2>5. Quiet(c)'
    BY <2>2 DEF Quiet
  <2>6. Due(c)' = <<>>
    BY <2>5, DueNext DEF DuePieces
  <2>7. Behind(c)' /\ Flows(c)'
    BY <1>1, <2>2, <2>3, <2>4, <2>6, NoneChain
  <2> QED
    BY <2>7 DEF Led
<1> QED
  BY <1>2, <1>3, <1>4, <1>5

-----------------------------------------------------------------------------
(* The cursors                                                             *)

(* Every request c has not sent yet it had not sent before, or is no       *)
(* Subscribe.                                                              *)
SameRequests(c) ==
    \A i \in 1..Len(client'[c].out) :
      client'[c].out[i].type = "subscribe" =>
        \E j \in 1..Len(client[c].out) : client'[c].out[i] = client[c].out[j]

LEMMA CursorsKeep ==
    ASSUME TypeOK, TypeOK', NEW c \in Clients, Cursors(c), sequence' >= sequence,
           client'[c].cursor = client[c].cursor, SameRequests(c),
           layout'[c].seq \in {layout[c].seq, 0, sequence'}
    PROVE  Cursors(c)'
<1>1. sequence \in Nat /\ sequence' \in Nat /\ client[c].cursor \in Nat /\ layout[c].seq \in Nat
  <2>1. sequence' \in 0..Last'
    BY DEF TypeOK
  <2> QED
    BY <2>1, ChainTypes
<1>2. client'[c].cursor <= sequence' /\ layout'[c].seq <= sequence'
  BY <1>1 DEF Cursors
<1>3. ASSUME NEW i \in 1..Len(client'[c].out), client'[c].out[i].type = "subscribe"
      PROVE  client'[c].out[i].seq <= client'[c].cursor
  BY <1>3 DEF SameRequests, Cursors
<1> QED
  BY <1>2, <1>3 DEF Cursors

LEMMA TailRequests ==
    ASSUME TypeOK, NEW c \in Clients, client[c].out # <<>>, client'[c].out = Tail(client[c].out)
    PROVE  SameRequests(c)
BY TypeFacts, ClientIs DEF ClientFields, SameRequests

LEMMA HandledCursors ==
    ASSUME Base, TypeOK', NEW c \in Clients, Cursors(c), sequence' >= sequence,
           NEW type, Handling(c, type), Handled(c),
           layout'[c].seq \in {layout[c].seq, 0, sequence'}
    PROVE  Cursors(c)'
BY HandlingIs, TailRequests, CursorsKeep DEF Base, Handling

LEMMA SameCursors ==
    ASSUME Base, TypeOK', NEW c \in Clients, Cursors(c), sequence' >= sequence,
           client'[c] = client[c], layout'[c].seq \in {layout[c].seq, 0, sequence'}
    PROVE  Cursors(c)'
BY CursorsKeep DEF SameRequests, Base

LEMMA ConnectionCursors ==
    ASSUME Base, TypeOK', NEW c \in Clients, Cursors(c), ConnectionStep(c)
    PROVE  Cursors(c)'
<1>1. TypeOK /\ sequence \in Nat
  BY TypeFacts DEF Base
<1>2. sequence' \in {sequence, sequence + 1} /\ sequence' >= sequence
  <2>1. sequence' \in {sequence, sequence + 1}
    BY DEF ConnectionStep, HandleSubscribe, BeginBootstrap, FinishFenced, FinishUnfenced, Reopen,
           AbortBootstrap, RejectBootstrap, CloseConnection, HandleLocalLayout, AnswerLocalLayout,
           RefuseLayout, StartExternalLayout, CommitExternalLayout, AnswerExternalLayout, WriterSend,
           PublishEvent, serverVars
  <2> QED
    BY <1>1, <2>1
<1>3. CASE HandleSubscribe(c) \/ BeginBootstrap(c) \/ RefuseLayout(c)
  BY <1>3, <1>2, HandledCursors DEF HandleSubscribe, BeginBootstrap, RefuseLayout
<1>4. CASE HandleLocalLayout(c)
  BY <1>1, <1>4, <1>2, HandledCursors DEF HandleLocalLayout, TypeOK
<1>5. CASE StartExternalLayout(c)
  BY <1>1, <1>5, <1>2, HandledCursors DEF StartExternalLayout, TypeOK
<1>6. CASE CommitExternalLayout(c)
  BY <1>1, <1>6, <1>2, SameCursors DEF CommitExternalLayout, TypeOK
<1>7. CASE AnswerLocalLayout(c) \/ AnswerExternalLayout(c)
  BY <1>1, <1>7, <1>2, SameCursors DEF AnswerLocalLayout, AnswerExternalLayout, TypeOK, NoLayout
<1>8. CASE \/ FinishFenced(c) \/ FinishUnfenced(c) \/ Reopen(c) \/ AbortBootstrap(c)
           \/ RejectBootstrap(c) \/ CloseConnection(c) \/ WriterSend(c)
  BY <1>8, <1>2, SameCursors DEF FinishFenced, FinishUnfenced, Reopen, AbortBootstrap,
     RejectBootstrap, CloseConnection, WriterSend, serverVars
<1> QED
  BY <1>3, <1>4, <1>5, <1>6, <1>7, <1>8 DEF ConnectionStep

(* What c reads is no newer than the Session, and never takes it back.     *)
LEMMA ReceiveCursors ==
    ASSUME Base, TypeOK', NEW c \in Clients, Chain(c), ClientReceive(c)
    PROVE  Cursors(c)'
<1> DEFINE m == Head(wire[c])
           k == client[c]
           k2 == client'[c]
<1>1. /\ TypeOK /\ Locks(c) /\ Behind(c) /\ Cursors(c) /\ wire[c] \in Seq(Frames)
      /\ k \in ClientStates /\ Ch(c) \in Seq(Frames) /\ k.cursor \in Nat /\ sequence \in Nat
      /\ Begins(wire[c], Gone(c)) /\ Begins(Gone(c), Ch(c)) /\ Gone(c) \in Seq(Frames)
  BY TypeFacts, ChainTypes DEF Base, Chain
<1>2. /\ wire[c] # <<>> /\ k2 = On(c, k, m) /\ UNCHANGED <<sequence, layout>>
  BY <1>1 DEF ClientReceive, serverVars, TypeOK
<1>3. k.phase # "down" /\ m \in Messages /\ (c \notin Guis => m.type \notin Answered)
  BY <1>2, ReaderIs
<1>4. /\ k.phase = "connecting" => HandshakeEffect(k, m, k2)
      /\ k.phase = "up" => ReadEffect(k, m, k2)
  BY <1>1, <1>2, <1>3, ReadIs
<1>5. m.seq \in Nat /\ m.seq <= sequence /\ (m.type = "bootstrap" => k.cursor <= m.seq)
  <2>1. m = wire[c][1] /\ 1 \in 1..Len(wire[c])
    BY <1>1, <1>2
  <2>2. Begins(wire[c], Ch(c))
    BY <1>1, BeginsTransitive
  <2>3. 1 \in 1..Len(Ch(c)) /\ Ch(c)[1] = m
    BY <2>1, <2>2, <1>1 DEF Begins
  <2>4. m.seq <= sequence /\ (m.type = "bootstrap" => k.cursor <= m.seq)
    BY <1>1, <2>3 DEF Behind, Bounded, Ordered
  <2>5. m.seq \in Nat
    BY <1>1, <1>3, MessagesAreFrames DEF Frames
  <2> QED
    BY <2>4, <2>5
<1>6. \/ k2 = k
      \/ /\ k2.cursor \in Nat /\ k2.cursor <= sequence /\ k.cursor <= k2.cursor
         /\ Asks(k.out, k2.out, k2.cursor)
  BY <1>1, <1>5, <1>3, <1>4, ClientIs DEF ReadEffect, CursorAfter, Cursors, HandshakeEffect,
     ClientFields
<1>7. CASE k2 = k
  BY <1>1, <1>2, <1>7, SameCursors
<1>8. CASE /\ k2.cursor \in Nat /\ k2.cursor <= sequence /\ k.cursor <= k2.cursor
           /\ Asks(k.out, k2.out, k2.cursor)
  <2>1. ASSUME NEW i \in 1..Len(k2.out), k2.out[i].type = "subscribe"
        PROVE  k2.out[i].seq <= k2.cursor
    <3>1. \/ i \in 1..Len(k.out) /\ k2.out[i] = k.out[i]
          \/ k2.out[i] = SnapshotRequest
          \/ k2.out[i] = Subscribe(k2.cursor)
      BY <1>1, <1>8, AskedOut
    <3>2. CASE i \in 1..Len(k.out) /\ k2.out[i] = k.out[i]
      <4>1. k.out[i].seq <= k.cursor
        BY <1>1, <2>1, <3>2 DEF Cursors
      <4>2. k.out[i].type = "subscribe" /\ k.out[i] \in Requests
        BY <1>1, <2>1, <3>2, ClientIs DEF ClientFields
      <4>3. k.out[i].seq \in 0..Last /\ Last \in Nat
        BY SMTT(30), <1>1, <4>2, LastIsNumber, MessageFields DEF Requests, Subscribe
      <4> QED
        BY SMTT(30), <1>1, <1>8, <3>2, <4>1, <4>3
    <3>3. CASE k2.out[i] = Subscribe(k2.cursor)
      BY <1>8, <3>3, MessageFields
    <3> QED
      BY <2>1, <3>1, <3>2, <3>3, MessageFields
  <2>2. layout'[c].seq <= sequence'
    BY <1>1, <1>2 DEF Cursors
  <2> QED
    BY <1>2, <1>8, <2>1, <2>2 DEF Cursors
<1> QED
  BY <1>6, <1>7, <1>8

LEMMA ClientCursors ==
    ASSUME Base, TypeOK', NEW c \in Clients, Cursors(c),
           VisualGap(c) \/ SendLayout(c) \/ Connect(c) \/ EndConnection(c)
    PROVE  Cursors(c)'
<1> DEFINE k == client[c]
           k2 == client'[c]
<1>1. TypeOK /\ k \in ClientStates /\ k.out \in Seq(Requests) /\ sequence \in Nat
  BY TypeFacts, ClientIs DEF Base, ClientFields
<1>2. /\ sequence' = sequence /\ sequence' >= sequence
      /\ layout'[c].seq \in {layout[c].seq, 0, sequence'}
  <2>1. sequence' = sequence
    BY DEF VisualGap, SendLayout, Connect, EndConnection, serverVars
  <2>2. layout'[c] = layout[c] \/ layout'[c] = NoLayout
    BY <1>1 DEF VisualGap, SendLayout, Connect, EndConnection, serverVars, TypeOK
  <2> QED
    BY <1>1, <2>1, <2>2 DEF NoLayout
<1>3. /\ k2.cursor = k.cursor
      /\ \/ k2.out \in {k.out, Append(k.out, SnapshotRequest), Append(k.out, Layout)}
         \/ k2.out = <<>>
         \/ k2.out = <<SnapshotRequest>>
  <2>1. CASE VisualGap(c)
    BY <1>1, <2>1, RequestIs DEF VisualGap, TypeOK
  <2>2. CASE SendLayout(c)
    BY <2>2, <1>1 DEF SendLayout, TypeOK, ClientStates
  <2>3. CASE Connect(c)
    BY <2>3, <1>1 DEF Connect, TypeOK, ClientStates
  <2>4. CASE EndConnection(c)
    BY <1>1, <2>4 DEF EndConnection, TypeOK, Offline, ClientStates
  <2> QED
    BY <2>1, <2>2, <2>3, <2>4
<1>4. SameRequests(c)
  <2>1. SnapshotRequest.type # "subscribe" /\ Layout.type # "subscribe"
    BY MessageFields
  <2>2. CASE k2.out \in {k.out, Append(k.out, SnapshotRequest), Append(k.out, Layout)}
    <3>1. ASSUME NEW i \in 1..Len(k2.out)
          PROVE  \/ i \in 1..Len(k.out) /\ k2.out[i] = k.out[i]
                 \/ k2.out[i] \in {SnapshotRequest, Layout}
      <4> DEFINE s == k.out
      <4>1. s \in Seq(Requests)
        BY <1>1
      <4> HIDE DEF s
      <4>2. ASSUME NEW m, k2.out = Append(s, m)
            PROVE  (i \in 1..Len(s) /\ k2.out[i] = s[i]) \/ k2.out[i] = m
        BY <4>1, <4>2
      <4> QED
        BY <2>2, <4>2 DEF s
    <3> QED
      BY <2>1, <3>1 DEF SameRequests
  <2>3. CASE k2.out = <<>>
    BY <2>3 DEF SameRequests
  <2>4. CASE k2.out = <<SnapshotRequest>>
    BY <2>1, <2>4 DEF SameRequests
  <2> QED
    BY <1>3, <2>2, <2>3, <2>4
<1> QED
  BY <1>1, <1>2, <1>3, <1>4, CursorsKeep

-----------------------------------------------------------------------------
(* Every step keeps the invariant                                          *)

LEMMA ChainLed ==
    ASSUME NEW c \in Clients, Led(c), Cursors(c)'
    PROVE  Chain(c)'
BY DEF Led, Chain

LEMMA OwnChain ==
    ASSUME Base, TypeOK', NEW c \in Clients, Chain(c), ConnectionStep(c) \/ ClientStep(c)
    PROVE  Chain(c)'
<1>1. CASE ConnectionStep(c)
  <2>1. Cursors(c)'
    BY <1>1, ConnectionCursors DEF Chain
  <2>2. CASE HandleLocalLayout(c)
    <3>1. /\ PublishEvent(c) /\ Handling(c, "layout") /\ Handled(c) /\ sending = Idle
          /\ UNCHANGED <<capture, sending, open, wire>> /\ layout'[c].seq = sequence'
      BY <2>2 DEF HandleLocalLayout, Unlocked, Base, TypeOK
    <3>2. SameView(c) /\ client[c].phase # "down" /\ capture[c].stage = "none"
      BY <3>1, HandlingIs DEF SameView, Handling
    <3>3. Led(c)
      BY <3>1, <3>2, PublishLed
    <3> QED
      BY <2>1, <3>3, ChainLed
  <2>3. CASE CommitExternalLayout(c)
    <3>1. /\ PublishEvent(c) /\ sending = Idle /\ layout[c].stage = "running"
          /\ UNCHANGED <<capture, sending, open, wire, client>> /\ layout'[c].seq = sequence'
          /\ capture[c].stage = "none"
      BY <2>3 DEF CommitExternalLayout, Unlocked, Base, TypeOK, FenceFree
    <3>2. SameView(c) /\ client[c].phase # "down"
      BY <3>1, PhaseFacts DEF SameView
    <3>3. Led(c)
      BY <3>1, <3>2, PublishLed
    <3> QED
      BY <2>1, <3>3, ChainLed
  <2>4. CASE ~HandleLocalLayout(c) /\ ~CommitExternalLayout(c)
    <3>1. Led(c)
      BY <1>1, <2>4, SubscribeLed, BeginLed, ReopenLed, FinishLed, FailLed, RejectLed, LayoutLed,
         WriterLed DEF ConnectionStep
    <3> QED
      BY <2>1, <3>1, ChainLed
  <2> QED
    BY <2>2, <2>3, <2>4
<1>2. CASE ClientReceive(c)
  BY <1>2, ReceiveLed, ReceiveCursors, ChainLed
<1>3. CASE VisualGap(c) \/ SendLayout(c) \/ Connect(c) \/ EndConnection(c)
  BY <1>3, ClientLed, ClientCursors, ChainLed DEF Chain
<1> QED
  BY <1>1, <1>2, <1>3 DEF ClientStep, LoseConnection, ReadEnd

LEMMA OthersChain ==
    ASSUME Base, TypeOK', NEW c \in Clients, Chain(c), NEW origin, origin # c,
           PublishEvent(origin), sending = Idle, UNCHANGED <<capture, sending, open, wire>>,
           client'[c] = client[c], layout'[c] = layout[c]
    PROVE  Chain(c)'
<1>1. SameView(c)
  BY DEF SameView
<1>2. Led(c)
  BY <1>1, PublishLed
<1>3. sequence' >= sequence
  BY TypeFacts DEF Base, PublishEvent
<1>4. Cursors(c)'
  BY <1>3, SameCursors DEF Chain
<1> QED
  BY <1>2, <1>4, ChainLed

LEMMA UntouchedChain ==
    ASSUME Base, TypeOK', NEW c \in Clients, Chain(c), Untouched(c), sequence' = sequence
    PROVE  Chain(c)'
BY UntouchedLed, TypeFacts, SameCursors, ChainLed DEF Base, Untouched, Chain

LEMMA ChainStep ==
    ASSUME Base, TypeOK', [Next]_vars, NEW c \in Clients, Chain(c)
    PROVE  Chain(c)'
<1>1. TypeOK /\ c # NoClient
  BY StreamAssumption DEF Base
<1>2. CASE ConnectionStep(c) \/ ClientStep(c)
  BY <1>2, OwnChain
<1>3. ASSUME NEW d \in Clients, d # c, ConnectionStep(d) \/ ClientStep(d) PROVE Chain(c)'
  <2>1. CASE HandleLocalLayout(d) \/ CommitExternalLayout(d)
    BY <1>1, <1>3, <2>1, OthersChain DEF HandleLocalLayout, CommitExternalLayout, Unlocked,
       Handled, TypeOK
  <2>2. CASE sequence' = sequence
    BY <1>1, <1>3, <2>2, Apart, UntouchedChain
  <2>3. ConnectionStep(d) => HandleLocalLayout(d) \/ CommitExternalLayout(d) \/ sequence' = sequence
    BY DEF ConnectionStep, HandleSubscribe, BeginBootstrap, FinishFenced, FinishUnfenced, Reopen,
           AbortBootstrap, RejectBootstrap, CloseConnection, AnswerLocalLayout, RefuseLayout,
           StartExternalLayout, AnswerExternalLayout, WriterSend, serverVars
  <2>4. ClientStep(d) => sequence' = sequence
    BY DEF ClientStep, ClientReceive, VisualGap, SendLayout, Connect, LoseConnection, ReadEnd,
           EndConnection, serverVars
  <2> QED
    BY <1>3, <2>1, <2>2, <2>3, <2>4
<1>4. CASE SendNext
  BY <1>4, SendNextLed, <1>1, TypeFacts, SameCursors, ChainLed, SendNextApart, UntouchedChain DEF
     SendNext, Chain
<1>5. CASE PublishBackground
  BY <1>5, <1>1, OthersChain DEF PublishBackground, Unlocked
<1>6. CASE UNCHANGED vars
  BY <1>6, UntouchedChain DEF vars, serverVars, Untouched
<1> QED
  BY <1>2, <1>3, <1>4, <1>5, <1>6 DEF Next

(* Before anything happens nothing is on its way.                          *)
LEMMA StreamInit == Init => StreamInv
<1> SUFFICES ASSUME Init PROVE StreamInv
  OBVIOUS
<1>1. Base
  BY BaseInit
<1>2. ASSUME NEW c \in Clients PROVE Chain(c)
  <2>1. /\ wire[c] = <<>> /\ writer[c].reliable = <<>> /\ ~writer[c].lagged
        /\ sending = Idle /\ capture[c] = NoCapture /\ layout[c] = NoLayout
        /\ sequence = 0 /\ subscribers = {} /\ client[c].cursor = 0 /\ client[c].out = <<>>
        /\ client[c].subscribed = FALSE /\ client[c].resync = FALSE
    BY DEF Init, Closed, NewQueue
  <2>2. Gone(c) = <<>> /\ c # NoClient
    BY <2>1, StreamAssumption DEF Gone
  <2>3. Looping(c) = <<>> /\ Captured(c) = <<>>
    BY <2>1, <2>2 DEF Looping, Captured, Idle, NoCapture
  <2>4. Ch(c) = <<>>
    BY <2>2, <2>3 DEF Ch, Due
  <2>5. Len(Ch(c)) = 0 /\ Ch(c) \in Seq(Frames)
    BY <2>4
  <2>6. Replayed(Ch(c), client[c].cursor) = sequence
    BY <2>1, <2>4, ReplayEmpty
  <2>7. Behind(c)
    BY <2>5 DEF Behind, Bounded, Ordered
  <2>8. Cursors(c)
    BY <2>1 DEF Cursors, NoLayout
  <2>9. ~Owed(c) /\ Streams(c)
    BY <2>1 DEF Owed, Streams, NoLayout
  <2>10. /\ Paused(Ch(c)) /\ NoneOf(Ch(c), {"snapshotRejected"}) /\ Recovered(Ch(c))
         /\ Told(Ch(c), client[c].subscribed)
         /\ AnswersConfirmed(Ch(c), client[c].cursor, client[c].resync)
    BY <2>1, <2>5 DEF Paused, NoneOf, Recovered, Told, AnswersConfirmed
  <2>11. Flows(c)
    BY <2>1, <2>6, <2>9, <2>10 DEF Flows
  <2> QED
    BY <2>7, <2>8, <2>11 DEF Chain
<1> QED
  BY <1>1, <1>2 DEF StreamInv

LEMMA StreamStep == StreamInv /\ [Next]_vars => StreamInv'
BY BaseStep, ChainStep DEF StreamInv, Base

-----------------------------------------------------------------------------
(* What the properties say follows.                                        *)

LEMMA ChainReaches == StreamInv => StreamReachesSequence
BY InFlightIs DEF StreamReachesSequence, StreamInv, Base, Chain, Flows, Streams

LEMMA ChainTells == StreamInv => NeverSilentlyStale
<1> SUFFICES ASSUME StreamInv, NEW c \in Clients,
                    client[c].subscribed /\ c \notin subscribers /\ ~Failing(c)
             PROVE  InFlightTypes(c) \cap {"lagged", "rejected", "snapshotRejected"} # {}
  BY DEF NeverSilentlyStale
<1>1. InFlight(c) = Ch(c) /\ Flows(c) /\ Ch(c) \in Seq(Frames)
  BY InFlightIs, ChainTypes DEF StreamInv, Base, Chain
<1>2. PICK i \in 1..Len(Ch(c)) : Ch(c)[i].type \in Notices
  BY <1>1 DEF Flows, Told
<1>3. i \in DOMAIN InFlight(c)
  BY <1>1
<1>4. InFlight(c)[i].type \in InFlightTypes(c)
  BY <1>3 DEF InFlightTypes
<1> QED
  BY <1>1, <1>2, <1>4 DEF Notices

LEMMA ChainConfirms == StreamInv => AppliedAfterItsEvent
<1> SUFFICES ASSUME StreamInv, NEW c \in Clients, NEW i \in DOMAIN InFlight(c),
                    InFlight(c)[i].type = "layoutApplied" /\ ~Failing(c)
             PROVE  \/ client[c].cursor >= InFlight(c)[i].seq
                    \/ client[c].resync
                    \/ \E j \in 1..i-1 : /\ InFlight(c)[j].type \in {"event", "bootstrap"}
                                         /\ InFlight(c)[j].seq >= InFlight(c)[i].seq
  BY DEF AppliedAfterItsEvent
<1>1. InFlight(c) = Ch(c) /\ Flows(c) /\ Ch(c) \in Seq(Frames)
  BY InFlightIs, ChainTypes DEF StreamInv, Base, Chain
<1>2. i \in 1..Len(Ch(c)) /\ Ch(c)[i].type = "layoutApplied"
  BY <1>1
<1>3. Confirmed(Ch(c), i - 1, client[c].cursor, client[c].resync, Ch(c)[i].seq)
  BY <1>1, <1>2 DEF Flows, AnswersConfirmed
<1> QED
  BY <1>1, <1>3 DEF Confirmed, Changes

LEMMA ChainPauses == StreamInv => NoticeThenBootstrap
<1> SUFFICES ASSUME StreamInv, NEW c \in Clients, NEW i \in DOMAIN InFlight(c),
                    NEW j \in i+1..Len(InFlight(c)),
                    InFlight(c)[i].type = "lagged" /\ InFlight(c)[j].type = "event" /\ ~Failing(c)
             PROVE  \E k \in i+1..j-1 : InFlight(c)[k].type = "bootstrap"
  BY DEF NoticeThenBootstrap
<1>1. InFlight(c) = Ch(c) /\ Flows(c) /\ Ch(c) \in Seq(Frames)
  BY InFlightIs, ChainTypes DEF StreamInv, Base, Chain
<1>2. i \in 1..Len(Ch(c)) /\ j \in i + 1..Len(Ch(c))
  BY <1>1
<1> QED
  BY <1>1, <1>2 DEF Flows, Paused

(* StreamInv holds in every state: together with the locks, the fences and *)
(* the history (Base), every Client's chain leads to the Server's Session. *)
THEOREM StreamInvHolds == Spec => []StreamInv
BY StreamInit, StreamStep, PTL DEF Spec

(* Whatever order the sends, the fences, the lost frames and the lost      *)
(* connections take, what is on its way to a subscriber leads it to the    *)
(* Server's sequence, a Layout response never overtakes its event, no      *)
(* event slips between a lag notice and its Bootstrap, and a Client the    *)
(* Server dropped is told so (subscriptions.rs, bootstrap.rs).             *)
THEOREM StreamStaysSound == Spec => []StreamIsSound
<1>1. StreamInv => StreamIsSound
  BY ChainReaches, ChainTells, ChainConfirms, ChainPauses
  DEF StreamIsSound, StreamIsInOrder, StreamInv, Base
<1> QED
  BY <1>1, StreamInvHolds, PTL

-----------------------------------------------------------------------------
(* The Bootstraps in a chain                                               *)

(* By the Session they hold.                                               *)
Offers(s) == {s[i].seq : i \in {j \in 1..Len(s) : s[j].type = "bootstrap"}}

LEMMA OffersConcat ==
    ASSUME NEW a \in Seq(Frames), NEW b \in Seq(Frames)
    PROVE  Offers(a \o b) = Offers(a) \cup Offers(b)
<1> DEFINE s == a \o b
<1>1. /\ Len(s) = Len(a) + Len(b) /\ Len(a) \in Nat /\ Len(b) \in Nat
      /\ \A i \in 1..Len(a) : s[i] = a[i]
      /\ \A i \in 1..Len(b) : s[Len(a) + i] = b[i]
  BY ConcatIndex
<1> HIDE DEF s
<1>2. ASSUME NEW i \in 1..Len(s), s[i].type = "bootstrap" PROVE s[i].seq \in Offers(a) \cup Offers(b)
  <2>1. CASE i \in 1..Len(a)
    BY <1>1, <1>2, <2>1 DEF Offers
  <2>2. CASE i \notin 1..Len(a)
    <3>1. i - Len(a) \in 1..Len(b) /\ Len(a) + (i - Len(a)) = i
      BY <1>1, <2>2
    <3>2. s[i] = b[i - Len(a)]
      BY <1>1, <3>1
    <3> QED
      BY <1>2, <3>1, <3>2 DEF Offers
  <2> QED
    BY <2>1, <2>2
<1>3. ASSUME NEW i \in 1..Len(a), a[i].type = "bootstrap" PROVE a[i].seq \in Offers(s)
  BY <1>1, <1>3 DEF Offers
<1>4. ASSUME NEW i \in 1..Len(b), b[i].type = "bootstrap" PROVE b[i].seq \in Offers(s)
  BY <1>1, <1>4 DEF Offers
<1>5. Offers(s) \subseteq Offers(a) \cup Offers(b)
  BY <1>2 DEF Offers
<1>6. Offers(a) \subseteq Offers(s) /\ Offers(b) \subseteq Offers(s)
  BY <1>3, <1>4 DEF Offers
<1> QED
  BY <1>5, <1>6 DEF s

LEMMA OffersOne ==
    ASSUME NEW m \in Frames
    PROVE  /\ <<m>> \in Seq(Frames)
           /\ m.type = "bootstrap" => Offers(<<m>>) = {m.seq}
           /\ m.type # "bootstrap" => Offers(<<m>>) = {}
BY DEF Offers

LEMMA OffersNone ==
    ASSUME NEW s, \A i \in 1..Len(s) : s[i].type # "bootstrap"
    PROVE  Offers(s) = {}
BY DEF Offers

LEMMA OffersEmpty == Offers(<<>>) = {}
BY OffersNone

LEMMA OffersAppend ==
    ASSUME NEW s \in Seq(Frames), NEW m \in Frames
    PROVE  Offers(Append(s, m)) = Offers(s) \cup Offers(<<m>>)
<1>1. Append(s, m) = s \o <<m>> /\ <<m>> \in Seq(Frames)
  OBVIOUS
<1>2. Offers(s \o <<m>>) = Offers(s) \cup Offers(<<m>>)
  BY <1>1, OffersConcat
<1> QED
  BY <1>1, <1>2

LEMMA OffersHead ==
    ASSUME NEW s \in Seq(Frames), s # <<>>
    PROVE  /\ Head(s) \in Frames /\ Tail(s) \in Seq(Frames)
           /\ Offers(s) = Offers(<<Head(s)>>) \cup Offers(Tail(s))
<1>1. s = <<Head(s)>> \o Tail(s) /\ <<Head(s)>> \in Seq(Frames) /\ Tail(s) \in Seq(Frames) /\ Head(s) \in Frames
  OBVIOUS
<1>2. Offers(<<Head(s)>> \o Tail(s)) = Offers(<<Head(s)>>) \cup Offers(Tail(s))
  BY <1>1, OffersConcat
<1> QED
  BY <1>1, <1>2

-----------------------------------------------------------------------------
(* The Bootstraps on their way to a Client, piece by piece                 *)

Sooner(c) == Offers(wire[c]) \cup Offers(writer[c].reliable)
Looped(c) == IF sending.client = c /\ ~writer[c].lagged THEN Offers(sending.items) ELSE {}
Fenced(c) ==
    IF capture[c].stage \in {"captured", "reopened"} /\ sending.client # c
    THEN {capture[c].seq} \cup Offers(deferred[c]) ELSE {}
Coming(c) == Sooner(c) \cup Looped(c) \cup Fenced(c)

LEMMA OfferedIs == \A c \in Clients : TypeOK => Offered(c) = Coming(c)
<1> SUFFICES ASSUME NEW c \in Clients, TypeOK PROVE Offered(c) = Coming(c)
  OBVIOUS
<1>1. InFlight(c) = Ch(c) /\ Ch(c) \in Seq(Frames)
  BY InFlightIs, ChainTypes
<1>2. Offered(c) = Offers(Ch(c))
  BY <1>1 DEF Offered, Offers
<1>3. /\ wire[c] \in Seq(Frames) /\ writer[c].reliable \in Seq(Frames) /\ Gone(c) \in Seq(Frames)
      /\ Looping(c) \in Seq(Frames) /\ Captured(c) \in Seq(Frames) /\ Due(c) \in Seq(Frames)
  BY ChainTypes
<1>4. Offers(Ch(c)) = Offers(Gone(c)) \cup Offers(Due(c))
  BY <1>3, OffersConcat DEF Ch
<1>5. Offers(Gone(c)) = Offers(wire[c]) \cup Offers(writer[c].reliable)
  BY <1>3, OffersConcat DEF Gone
<1>6. Offers(Due(c)) = Offers(Looping(c)) \cup Offers(Captured(c))
  BY <1>3, OffersConcat DEF Due
<1>7. Offers(Looping(c)) = Looped(c)
  BY OffersEmpty DEF Looping, Looped
<1>8. Offers(Captured(c)) = Fenced(c)
  <2> DEFINE b == Bootstrap(capture[c].seq)
  <2>1. b \in Frames /\ deferred[c] \in Seq(Frames) /\ b.type = "bootstrap" /\ b.seq = capture[c].seq
    BY TypeFacts, MessageTypes, MessagesAreFrames, ChainsAreFrames, MessageFields
  <2> HIDE DEF b
  <2>2. <<b>> \in Seq(Frames) /\ Offers(<<b>>) = {capture[c].seq}
    BY <2>1, OffersOne
  <2>3. Offers(<<b>> \o deferred[c]) = {capture[c].seq} \cup Offers(deferred[c])
    BY <2>1, <2>2, OffersConcat
  <2> QED
    BY <2>3, OffersEmpty DEF Captured, Fenced, b
<1> QED
  BY <1>2, <1>4, <1>5, <1>6, <1>7, <1>8 DEF Coming, Sooner

LEMMA OfferedNext == (\A c \in Clients : TypeOK => Offered(c) = Coming(c))'
BY OfferedIs, PTL

(* Queueing a message adds its offer, or drops some.                       *)
LEMMA SendOffers ==
    ASSUME TypeOK, NEW c \in Clients, NEW m \in Messages, writer'[c] = Sent(writer[c], m),
           wire'[c] = wire[c]
    PROVE  /\ Sooner(c)' \subseteq Sooner(c) \cup (IF SentOk(writer[c], m) THEN Offers(<<m>>) ELSE {})
           /\ ~writer'[c].lagged => ~writer[c].lagged
           /\ SentOk(writer[c], m) => ~writer[c].lagged
           /\ m.type # "bootstrap" => Sooner(c)' \subseteq Sooner(c)
<1>1. /\ writer[c] \in StreamQueues /\ m \in Frames /\ LagNotice \in Frames
      /\ writer[c].reliable \in Seq(Frames) /\ LagNotice.type = "lagged"
  BY TypeFacts, ChainTypes, MessageTypes, MessagesAreFrames, MessageFields
<1>2. SendEffect(writer[c], m, writer'[c])
  BY <1>1, SendIs
<1>3. /\ Offers(Append(writer[c].reliable, m)) = Offers(writer[c].reliable) \cup Offers(<<m>>)
      /\ Offers(<<LagNotice>>) = {}
      /\ m.type # "bootstrap" => Offers(<<m>>) = {}
  BY <1>1, OffersAppend, OffersOne
<1>4. /\ Offers(writer'[c].reliable)
           \subseteq Offers(writer[c].reliable) \cup (IF SentOk(writer[c], m) THEN Offers(<<m>>) ELSE {})
      /\ ~writer'[c].lagged => ~writer[c].lagged
      /\ SentOk(writer[c], m) => ~writer[c].lagged
  BY <1>2, <1>3 DEF SendEffect
<1> QED
  BY <1>3, <1>4 DEF Sooner

-----------------------------------------------------------------------------
(* No step but BeginBootstrap puts one on its way                          *)

LEMMA AnswerOffers ==
    ASSUME TypeOK, NEW c \in Clients, NEW m \in Messages, writer'[c] = Sent(writer[c], m),
           m.type # "bootstrap", wire'[c] = wire[c], sending' = sending, deferred'[c] = deferred[c],
           capture'[c].stage \in {"captured", "reopened"} => capture'[c] = capture[c]
    PROVE  Coming(c)' \subseteq Coming(c)
BY SendOffers DEF Looped, Fenced, Coming

LEMMA PublishOffers ==
    ASSUME Base, TypeOK', NEW c \in Clients, NEW origin, PublishEvent(origin),
           c = origin => capture[c].stage = "none", sending = Idle,
           UNCHANGED <<wire, capture, sending>>
    PROVE  Coming(c)' \subseteq Coming(c)
<1> DEFINE m == Event(sequence + 1)
<1>1. TypeOK /\ FenceOk(c) /\ c # NoClient
  BY StreamAssumption DEF Base, Locks
<1>2. Holds(c) \/ Sends(c) \/ Skips(c)
  BY <1>1, PublishIs
<1>3. m \in Messages /\ m.type = "event" /\ m \in Frames
  BY <1>1, TypeFacts, MessageTypes, MessageFields, MessagesAreFrames DEF PublishEvent, Last
<1>4. deferred[c] \in Seq(Frames) /\ Offers(<<m>>) = {}
  BY <1>1, <1>3, TypeFacts, ChainsAreFrames, OffersOne
<1> HIDE DEF m
<1>5. Sooner(c)' \subseteq Sooner(c)
  BY <1>1, <1>3, SendOffers, <1>2 DEF Sooner, Holds, Sends, Skips, m
<1>6. Looped(c)' = {} /\ sending'.client # c
  BY <1>1 DEF Looped, Idle
<1>7. Offers(deferred'[c]) = Offers(deferred[c])
  BY <1>3, <1>4, OffersAppend, <1>2 DEF Holds, Sends, Skips, m
<1>8. Fenced(c)' = Fenced(c)
  BY <1>1, <1>6, <1>7 DEF Fenced, Idle
<1> QED
  BY <1>5, <1>6, <1>8 DEF Coming

LEMMA SendNextOffers ==
    ASSUME Base, TypeOK', NEW c \in Clients, SendNext, sending.client = c
    PROVE  Coming(c)' \subseteq Coming(c)
<1> DEFINE items == sending.items
           m == Head(items)
           t == Tail(items)
           ok == SentOk(writer[c], m)
           last == ~ok \/ Len(items) = 1
<1>1. TypeOK /\ c # NoClient
  BY StreamAssumption DEF Base
<1>2. /\ sending # Idle /\ items # <<>> /\ m \in Messages /\ items \in Seq(Frames)
      /\ sending \in [client : Clients \cup {NoClient}, items : Seq(Messages)]
  BY <1>1, TypeFacts, SenderIs, ChainsAreFrames DEF Idle
<1>3. /\ writer'[c] = Sent(writer[c], m) /\ wire'[c] = wire[c]
      /\ sending' = IF last THEN Idle ELSE [sending EXCEPT !.items = t]
      /\ capture'[c] = IF last THEN NoCapture ELSE capture[c]
  BY <1>1, <1>2 DEF SendNext, TypeOK
<1>4. Offers(items) = Offers(<<m>>) \cup Offers(t)
  BY <1>2, OffersHead
<1>5. /\ Sooner(c)' \subseteq Sooner(c) \cup (IF ok THEN Offers(<<m>>) ELSE {})
      /\ ~writer'[c].lagged => ~writer[c].lagged
      /\ ok => ~writer[c].lagged
  BY <1>1, <1>2, <1>3, SendOffers
<1>6. /\ last => sending'.client # c /\ capture'[c].stage = "none"
      /\ ~last => sending'.client = c /\ sending'.items = t /\ capture'[c] = capture[c]
  BY <1>1, <1>2, <1>3 DEF Idle, NoCapture
<1> HIDE DEF items, m, t, last, ok
<1>7. Looped(c)' \subseteq Looped(c)
  BY <1>4, <1>5, <1>6 DEF Looped, items
<1>8. Fenced(c)' = {}
  BY <1>6 DEF Fenced
<1>9. ok => Offers(<<m>>) \subseteq Looped(c)
  BY <1>4, <1>5 DEF Looped, items
<1> QED
  BY <1>5, <1>7, <1>8, <1>9 DEF Coming

LEMMA BootstrapOffers ==
    ASSUME Base, TypeOK', NEW c \in Clients,
           \/ FinishFenced(c) \/ FinishUnfenced(c) \/ Reopen(c) \/ AbortBootstrap(c)
           \/ RejectBootstrap(c) \/ CloseConnection(c)
    PROVE  Coming(c)' \subseteq Coming(c)
<1>1. /\ TypeOK /\ c # NoClient /\ Locks(c) /\ writer[c] \in StreamQueues
      /\ capture[c] \in [stage : {"none", "captured", "reopened", "aborted", "rejecting"}, seq : 0..Last]
      /\ deferred[c] \in Seq(Frames)
  BY StreamAssumption, TypeFacts, ChainsAreFrames DEF Base
<1>2. CASE FinishFenced(c)
  <2>1. /\ sending.client # c /\ wire'[c] = wire[c] /\ writer'[c] = Resumed(writer[c])
        /\ sending' = [client |-> c, items |-> <<Bootstrap(capture[c].seq)>> \o deferred[c]]
        /\ capture[c].stage = "captured"
    BY <1>1, <1>2 DEF FinishFenced, Unlocked, Idle, TypeOK
  <2>2. writer'[c].reliable = writer[c].reliable
    BY <1>1, <2>1, ResumeIs
  <2>3. Offers(sending'.items) = {capture[c].seq} \cup Offers(deferred[c])
    <3> DEFINE b == Bootstrap(capture[c].seq)
    <3>1. b \in Frames /\ b.type = "bootstrap" /\ b.seq = capture[c].seq
      BY <1>1, MessageTypes, MessagesAreFrames, MessageFields
    <3> HIDE DEF b
    <3>2. <<b>> \in Seq(Frames) /\ Offers(<<b>>) = {capture[c].seq}
      BY <3>1, OffersOne
    <3>3. Offers(<<b>> \o deferred[c]) = {capture[c].seq} \cup Offers(deferred[c])
      BY <1>1, <3>2, OffersConcat
    <3> QED
      BY <2>1, <3>3 DEF b
  <2>4. Looped(c)' \subseteq Fenced(c) /\ Fenced(c)' = {}
    BY <2>1, <2>3 DEF Looped, Fenced
  <2> QED
    BY <2>1, <2>2, <2>4 DEF Coming, Sooner
<1>3. CASE Reopen(c)
  <2>1. sending.client # c
    BY <1>1, <1>3 DEF Reopen, Locks, LoopOk
  <2>2. /\ writer'[c] = Resumed(writer[c]) /\ wire'[c] = wire[c] /\ sending' = sending
        /\ deferred'[c] = deferred[c] /\ capture'[c].seq = capture[c].seq
        /\ capture'[c].stage \in {"captured", "reopened"} => capture[c].stage = "captured"
    BY <1>1, <1>3 DEF Reopen, TypeOK
  <2>3. writer'[c].reliable = writer[c].reliable
    BY <1>1, <2>2, ResumeIs
  <2>4. Looped(c)' = {} /\ Fenced(c)' \subseteq Fenced(c)
    BY <2>1, <2>2 DEF Looped, Fenced
  <2> QED
    BY <2>2, <2>3, <2>4 DEF Coming, Sooner
<1>4. CASE FinishUnfenced(c)
  <2> DEFINE b == Bootstrap(capture[c].seq)
  <2>1. sending.client # c
    BY <1>1, <1>4 DEF FinishUnfenced, Locks, LoopOk
  <2>2. /\ writer'[c] = Sent(writer[c], b) /\ wire'[c] = wire[c] /\ sending' = sending
        /\ capture'[c].stage = "none" /\ capture[c].stage = "reopened"
    BY <1>1, <1>4 DEF FinishUnfenced, NoCapture, TypeOK
  <2>3. b \in Messages /\ b \in Frames /\ b.type = "bootstrap" /\ b.seq = capture[c].seq
    BY <1>1, MessageTypes, MessagesAreFrames, MessageFields
  <2> HIDE DEF b
  <2>4. Offers(<<b>>) = {capture[c].seq}
    BY <2>3, OffersOne
  <2>5. Sooner(c)' \subseteq Sooner(c) \cup {capture[c].seq}
    BY <1>1, <2>2, <2>3, <2>4, SendOffers
  <2>6. Looped(c)' = {} /\ Fenced(c)' = {} /\ capture[c].seq \in Fenced(c)
    BY <2>1, <2>2 DEF Looped, Fenced
  <2> QED
    BY <2>5, <2>6 DEF Coming
<1>5. CASE AbortBootstrap(c)
  BY <1>1, <1>5 DEF AbortBootstrap, TypeOK, Looped, Fenced, Sooner, Coming
<1>6. CASE RejectBootstrap(c)
  <2>1. /\ writer'[c] = Sent(writer[c], SnapshotRejected) /\ wire'[c] = wire[c] /\ sending' = sending
        /\ deferred'[c] = deferred[c] /\ capture'[c].stage = "none"
    BY <1>1, <1>6 DEF RejectBootstrap, TypeOK, NoCapture
  <2>2. SnapshotRejected \in Messages /\ SnapshotRejected.type # "bootstrap"
    BY MessageTypes, MessageFields
  <2> QED
    BY <1>1, <2>1, <2>2, AnswerOffers
<1>7. CASE CloseConnection(c)
  BY <1>1, <1>7, OffersEmpty DEF CloseConnection, RemoveSubscriber, TypeOK, Looped, Fenced,
     Sooner, Coming
<1> QED
  BY <1>2, <1>3, <1>4, <1>5, <1>6, <1>7

LEMMA ConnectionOffers ==
    ASSUME Base, TypeOK', NEW c \in Clients, ConnectionStep(c), ~BeginBootstrap(c)
    PROVE  Coming(c)' \subseteq Coming(c)
<1>1. /\ TypeOK /\ c # NoClient /\ Locks(c) /\ writer[c] \in StreamQueues
      /\ wire[c] \in Seq(Frames) /\ writer[c].reliable \in Seq(Frames)
      /\ layout[c].seq \in 0..Last
  BY SMTT(30), StreamAssumption, TypeFacts, ChainTypes DEF Base
<1>2. CASE HandleSubscribe(c)
  <2>1. /\ wire' = wire /\ writer' = writer /\ capture' = capture /\ sending = Idle
        /\ capture[c].stage = "none"
    BY <1>2 DEF HandleSubscribe, Handling, Unlocked
  <2>2. LoopOk(c)' /\ sending'.client = c
    <3>1. Locks(c)'
      BY <1>2, SubscribeLocks
    <3> QED
      BY <1>2, <3>1 DEF Locks, HandleSubscribe
  <2>3. \A i \in 1..Len(sending'.items) : sending'.items[i].type # "bootstrap"
    BY <2>1, <2>2 DEF LoopOk
  <2>4. Looped(c)' = {} /\ Fenced(c)' = {} /\ Sooner(c)' = Sooner(c)
    BY <2>1, <2>3, OffersNone DEF Looped, Fenced, Sooner
  <2> QED
    BY <2>4 DEF Coming
<1>3. CASE HandleLocalLayout(c) \/ CommitExternalLayout(c)
  BY <1>3, PublishOffers DEF HandleLocalLayout, CommitExternalLayout, Handling, Unlocked,
     FenceFree
<1>4. CASE AnswerLocalLayout(c) \/ AnswerExternalLayout(c) \/ RefuseLayout(c)
  <2>1. PICK m \in {LayoutApplied(layout[c].seq), LayoutRejected} : writer'[c] = Sent(writer[c], m)
    BY <1>1, <1>4 DEF AnswerLocalLayout, AnswerExternalLayout, RefuseLayout, TypeOK
  <2>2. m \in Messages /\ m.type # "bootstrap"
    BY <1>1, MessageTypes, MessageFields
  <2>3. UNCHANGED <<wire, sending, deferred, capture>>
    BY <1>4 DEF AnswerLocalLayout, AnswerExternalLayout, RefuseLayout
  <2> QED
    BY <1>1, <2>1, <2>2, <2>3, AnswerOffers
<1>5. CASE StartExternalLayout(c)
  BY <1>5 DEF StartExternalLayout, Coming, Sooner, Looped, Fenced
<1>6. CASE WriterSend(c)
  <2> DEFINE m == Head(writer[c].reliable)
  <2>1. /\ writer[c].reliable # <<>> /\ wire'[c] = Append(wire[c], m)
        /\ writer'[c].reliable = Tail(writer[c].reliable) /\ writer'[c].lagged = writer[c].lagged
        /\ UNCHANGED <<sending, deferred, capture>>
    BY <1>1, <1>6, ReceiveIs DEF WriterSend, serverVars, TypeOK
  <2>2. m \in Frames /\ Offers(writer[c].reliable) = Offers(<<m>>) \cup Offers(Tail(writer[c].reliable))
    BY <1>1, <2>1, OffersHead
  <2> HIDE DEF m
  <2>3. Offers(Append(wire[c], m)) = Offers(wire[c]) \cup Offers(<<m>>)
    BY <1>1, <2>2, OffersAppend
  <2>4. Sooner(c)' \subseteq Sooner(c)
    BY <2>1, <2>2, <2>3 DEF Sooner
  <2>5. Looped(c)' = Looped(c) /\ Fenced(c)' = Fenced(c)
    BY <2>1 DEF Looped, Fenced
  <2> QED
    BY <2>4, <2>5 DEF Coming
<1> QED
  BY <1>2, <1>3, <1>4, <1>5, <1>6, BootstrapOffers DEF ConnectionStep

LEMMA ClientOffers ==
    ASSUME Base, TypeOK', NEW c \in Clients, ClientStep(c)
    PROVE  Coming(c)' \subseteq Coming(c)
<1>1. /\ TypeOK /\ c # NoClient /\ Locks(c) /\ writer[c] \in StreamQueues
      /\ wire[c] \in Seq(Frames)
  BY SMTT(30), StreamAssumption, TypeFacts, ChainTypes DEF Base
<1>2. CASE ClientReceive(c)
  <2>1. /\ wire[c] # <<>> /\ wire'[c] = Tail(wire[c])
        /\ UNCHANGED <<writer, sending, deferred, capture>>
    BY <1>1, <1>2 DEF ClientReceive, serverVars, TypeOK
  <2>2. Offers(wire'[c]) \subseteq Offers(wire[c])
    BY <1>1, <2>1, OffersHead
  <2> QED
    BY <2>1, <2>2 DEF Coming, Sooner, Looped, Fenced
<1>3. CASE VisualGap(c) \/ SendLayout(c)
  BY <1>3 DEF VisualGap, SendLayout, serverVars, Coming, Sooner, Looped, Fenced
<1>4. CASE Connect(c)
  BY <1>1, <1>4, NewIs, OffersEmpty DEF Connect, TypeOK, Locks, LoopOk, PhaseOk, Looped, Fenced,
     Sooner, Coming
<1>5. CASE EndConnection(c)
  <2>1. /\ writer'[c] = Closed(writer[c]) /\ wire'[c] = <<>> /\ capture'[c].stage = "none"
        /\ sending'.client # c
    BY <1>1, <1>5 DEF EndConnection, NoCapture, Idle, TypeOK
  <2>2. writer'[c].reliable = <<>>
    BY <1>1, <2>1, ResumeIs
  <2> QED
    BY <2>1, <2>2, OffersEmpty DEF Coming, Sooner, Looped, Fenced
<1> QED
  BY <1>2, <1>3, <1>4, <1>5 DEF ClientStep, LoseConnection, ReadEnd

LEMMA UntouchedOffers ==
    ASSUME NEW c \in Clients, Untouched(c)
    PROVE  Coming(c)' = Coming(c)
BY DEF Untouched, Coming, Sooner, Looped, Fenced

(* A Bootstrap of c is captured: it is on its way, and nothing else is.    *)
LEMMA BeginOffers ==
    ASSUME Base, TypeOK', NEW c \in Clients, BeginBootstrap(c)
    PROVE  Coming(c)' = Coming(c) \cup {sequence}
BY StreamAssumption, OffersEmpty DEF Base, BeginBootstrap, Unlocked, Handling, TypeOK, Idle,
   Looped, Sooner, Fenced, Coming

-----------------------------------------------------------------------------
(* Each step is one of the replica's, or nothing happens to it             *)

Fewer(c) == Offered(c)' \subseteq Offered(c)
Same(c) == client'[c].cursor = client[c].cursor

LEMMA FewerOffers ==
    ASSUME Base, TypeOK', [Next]_vars, NEW c \in Clients, ~BeginBootstrap(c)
    PROVE  Fewer(c)
<1>1. TypeOK /\ c # NoClient
  BY StreamAssumption DEF Base
<1>2. Offered(c) = Coming(c) /\ Offered(c)' = Coming(c)'
  BY <1>1, OfferedIs, OfferedNext
<1>3. CASE ConnectionStep(c) \/ ClientStep(c)
  BY <1>2, <1>3, ConnectionOffers, ClientOffers DEF Fewer
<1>4. ASSUME NEW d \in Clients, d # c, ConnectionStep(d) \/ ClientStep(d) PROVE Fewer(c)
  <2>1. CASE HandleLocalLayout(d) \/ CommitExternalLayout(d)
    BY <2>1, <1>2, <1>4, PublishOffers DEF HandleLocalLayout, CommitExternalLayout, Unlocked,
       Fewer
  <2>2. CASE sequence' = sequence
    BY <1>1, <1>4, <2>2, Apart, <1>2, UntouchedOffers DEF Fewer
  <2>3. ConnectionStep(d) => HandleLocalLayout(d) \/ CommitExternalLayout(d) \/ sequence' = sequence
    BY DEF ConnectionStep, HandleSubscribe, BeginBootstrap, FinishFenced, FinishUnfenced, Reopen,
           AbortBootstrap, RejectBootstrap, CloseConnection, AnswerLocalLayout, RefuseLayout,
           StartExternalLayout, AnswerExternalLayout, WriterSend, serverVars
  <2>4. ClientStep(d) => sequence' = sequence
    BY DEF ClientStep, ClientReceive, VisualGap, SendLayout, Connect, LoseConnection, ReadEnd,
           EndConnection, serverVars
  <2> QED
    BY <1>4, <2>1, <2>2, <2>3, <2>4
<1>5. CASE SendNext
  BY <1>2, <1>5, SendNextOffers, <1>1, SendNextApart, UntouchedOffers DEF Fewer
<1>6. CASE PublishBackground
  BY <1>6, <1>1, <1>2, PublishOffers DEF PublishBackground, Unlocked, Fewer
<1>7. CASE UNCHANGED vars
  BY <1>7, <1>2, UntouchedOffers DEF vars, serverVars, Untouched, Fewer
<1> QED
  BY <1>3, <1>4, <1>5, <1>6, <1>7 DEF Next

(* Only what a Client reads changes what it shows.                         *)
LEMMA SameViews ==
    ASSUME TypeOK, [Next]_vars, NEW c \in Clients, ~ClientReceive(c)
    PROVE  Same(c)
<1>1. client \in [Clients -> ClientStates]
  BY DEF TypeOK
<1>2. ASSUME NEW d \in Clients, Handled(d) PROVE Same(c)
  BY <1>1, <1>2 DEF Handled, Same, ClientStates
<1>3. ASSUME NEW d \in Clients, ClientStep(d) PROVE Same(c)
  <2>1. CASE ClientReceive(d)
    BY <1>1, <2>1 DEF ClientReceive, Same
  <2>2. CASE VisualGap(d)
    BY <2>2, <1>1 DEF VisualGap, RequestSnapshot, ClientStates, Same
  <2>3. CASE SendLayout(d)
    BY <1>1, <2>3 DEF SendLayout, Same, ClientStates
  <2>4. CASE Connect(d)
    BY <1>1, <2>4 DEF Connect, Same, ClientStates
  <2>5. CASE EndConnection(d)
    BY <2>5, <1>1 DEF EndConnection, Offline, ClientStates, Same
  <2> QED
    BY <1>3, <2>1, <2>2, <2>3, <2>4, <2>5 DEF ClientStep, LoseConnection, ReadEnd
<1>4. ASSUME NEW d \in Clients, ConnectionStep(d) PROVE Same(c)
  <2>1. Handled(d) \/ UNCHANGED client
    BY <1>4 DEF ConnectionStep, HandleSubscribe, BeginBootstrap, FinishFenced, FinishUnfenced, Reopen,
           AbortBootstrap, RejectBootstrap, CloseConnection, HandleLocalLayout, AnswerLocalLayout,
           RefuseLayout, StartExternalLayout, CommitExternalLayout, AnswerExternalLayout, WriterSend
  <2> QED
    BY <1>2, <2>1 DEF Same
<1>5. CASE PublishBackground \/ SendNext \/ UNCHANGED vars
  BY <1>5 DEF PublishBackground, SendNext, vars, Same
<1> QED
  BY <1>3, <1>4, <1>5 DEF Next

(* The next event, an older Session than which is not shown, or a          *)
(* Bootstrap that was on its way.                                          *)
LEMMA ReceiveView ==
    ASSUME StreamInv, NEW c \in Clients, ClientReceive(c)
    PROVE  \/ Same(c)
           \/ /\ client[c].cursor < sequence
              /\ client'[c].cursor = client[c].cursor + 1
           \/ client'[c].cursor \in Offered(c) /\ client'[c].cursor >= client[c].cursor
<1> DEFINE m == Head(wire[c])
           k == client[c]
<1>1. /\ TypeOK /\ Base /\ Behind(c) /\ wire[c] \in Seq(Frames) /\ Gone(c) \in Seq(Frames)
      /\ Ch(c) \in Seq(Frames) /\ Begins(wire[c], Gone(c)) /\ Begins(Gone(c), Ch(c))
      /\ k \in ClientStates /\ k.cursor \in Nat /\ sequence \in Nat
  BY TypeFacts, ChainTypes DEF StreamInv, Base, Chain
<1>2. wire[c] # <<>> /\ client'[c] = On(c, k, m)
  BY <1>1 DEF ClientReceive, TypeOK
<1>3. k.phase # "down" /\ m \in Messages /\ (c \notin Guis => m.type \notin Answered)
  BY <1>1, <1>2, ReaderIs
<1>4. /\ k.phase = "connecting" => HandshakeEffect(k, m, client'[c])
      /\ k.phase = "up" => ReadEffect(k, m, client'[c])
  BY <1>1, <1>2, <1>3, ReadIs
<1>5. k.phase \in {"connecting", "up"}
  BY <1>1, <1>3 DEF ClientStates
<1>6. \/ client'[c].cursor = k.cursor
      \/ m.type = "event" /\ m.seq = k.cursor + 1 /\ client'[c].cursor = m.seq
      \/ m.type = "bootstrap" /\ client'[c].cursor = m.seq
  BY <1>4, <1>5 DEF HandshakeEffect, ReadEffect, CursorAfter
<1>7. 1 \in 1..Len(Ch(c)) /\ Ch(c)[1] = m
  BY <1>1, <1>2, TailIndex DEF Begins
<1>8. m \in Frames /\ m.seq <= sequence
  BY <1>1, <1>7 DEF Behind, Bounded
<1>9. ASSUME m.type = "bootstrap" PROVE m.seq >= k.cursor /\ m.seq \in Offered(c)
  <2>1. m.seq >= k.cursor
    BY <1>1, <1>7, <1>8, <1>9 DEF Behind, Ordered, Frames
  <2>2. m.seq \in Offers(wire[c])
    <3>1. Offers(wire[c]) = Offers(<<m>>) \cup Offers(Tail(wire[c]))
      BY <1>1, <1>2, OffersHead
    <3>2. Offers(<<m>>) = {m.seq}
      BY <1>8, <1>9, OffersOne
    <3> QED
      BY <3>1, <3>2
  <2> QED
    BY <1>1, <2>1, <2>2, OfferedIs DEF Coming, Sooner
<1> QED
  BY SMTT(30), <1>1, <1>6, <1>8, <1>9 DEF Same, Frames

LEMMA ReplicaInit == Init => Replica!Init
<1> SUFFICES ASSUME Init PROVE Replica!Init
  OBVIOUS
<1>1. ASSUME NEW c \in Clients PROVE Offered(c) = {}
  BY OffersEmpty, StreamAssumption, BaseInit, OfferedIs DEF Init, Closed, NewQueue, Looped,
     Fenced, Sooner, Idle, NoCapture, Base, Coming
<1>2. [c \in Clients |-> client[c].cursor] = [c \in Clients |-> 0]
  BY DEF Init
<1>3. sequence = 0
  BY DEF Init
<1>4. [c \in Clients |-> Offered(c)] = [c \in Clients |-> {}]
  BY <1>1
<1> QED
  BY <1>2, <1>3, <1>4 DEF Replica!Init

LEMMA ReplicaStep == StreamInv /\ TypeOK' /\ [Next]_vars => [Replica!Next]_(Replica!vars)
<1> SUFFICES ASSUME StreamInv, TypeOK', [Next]_vars PROVE Replica!Next
  OBVIOUS
<1> DEFINE view == [c \in Clients |-> client[c].cursor]
           offered == [c \in Clients |-> Offered(c)]
<1>1. Base /\ TypeOK
  BY DEF StreamInv, Base
<1>2. ASSUME NEW c \in Clients, BeginBootstrap(c) PROVE Replica!Offer(c)
  <2>1. sequence' = sequence /\ Offered(c)' = Offered(c) \cup {sequence}
    BY <1>1, <1>2, BeginOffers, OfferedIs, OfferedNext DEF BeginBootstrap
  <2>2. ASSUME NEW d \in Clients, d # c PROVE Offered(d)' = Offered(d)
    BY <1>1, <1>2, <2>1, <2>2, Apart, UntouchedOffers, OfferedIs, OfferedNext DEF ConnectionStep
  <2>3. ASSUME NEW d \in Clients PROVE Same(d)
    BY <1>1, <1>2, <2>3 DEF BeginBootstrap, Handled, Same, TypeOK, ClientStates
  <2>4. offered' = [offered EXCEPT ![c] = @ \cup {sequence}]
    BY <2>1, <2>2
  <2>5. view' = view
    BY <2>3 DEF Same
  <2> QED
    BY <2>1, <2>4, <2>5 DEF Replica!Offer
<1>3. ASSUME ~\E c \in Clients : BeginBootstrap(c) PROVE Replica!NoNewOffer
  BY <1>1, <1>3, FewerOffers DEF Fewer, Replica!NoNewOffer
<1>4. ASSUME Replica!NoNewOffer, NEW c \in Clients, ClientReceive(c)
      PROVE  Replica!Next
  <2>1. sequence' = sequence /\ \A d \in Clients \ {c} : client'[d] = client[d]
    BY <1>1, <1>4 DEF ClientReceive, serverVars, TypeOK
  <2>2. view' = [view EXCEPT ![c] = client'[c].cursor]
    BY <2>1
  <2>3. CASE Same(c)
    BY <2>1, <2>3, <1>4 DEF Same, Replica!Next, Replica!Lose
  <2>4. CASE client[c].cursor < sequence /\ client'[c].cursor = client[c].cursor + 1
    BY <1>4, <2>1, <2>2, <2>4 DEF Replica!ApplyNext, Replica!Next
  <2>5. CASE client'[c].cursor \in Offered(c) /\ client'[c].cursor >= client[c].cursor
    BY <1>4, <2>1, <2>2, <2>5 DEF Replica!Replace, Replica!Next
  <2> QED
    BY <1>4, <2>3, <2>4, <2>5, ReceiveView
<1>5. ASSUME Replica!NoNewOffer, ~\E c \in Clients : ClientReceive(c) PROVE Replica!Next
  <2>1. view' = view
    BY <1>1, <1>5, SameViews DEF Same
  <2>2. sequence' = sequence \/ sequence' = sequence + 1
    <3>1. ASSUME NEW c \in Clients, ConnectionStep(c)
          PROVE sequence' = sequence \/ sequence' = sequence + 1
      BY <3>1 DEF ConnectionStep, HandleSubscribe, BeginBootstrap, FinishFenced, FinishUnfenced,
             Reopen, AbortBootstrap, RejectBootstrap, CloseConnection, HandleLocalLayout,
             AnswerLocalLayout, RefuseLayout, StartExternalLayout, CommitExternalLayout,
             AnswerExternalLayout, WriterSend, serverVars, PublishEvent
    <3>2. ASSUME NEW c \in Clients, ClientStep(c) PROVE sequence' = sequence
      BY <3>2 DEF ClientStep, ClientReceive, VisualGap, SendLayout, Connect, LoseConnection, ReadEnd,
             EndConnection, serverVars
    <3> QED
      BY <3>1, <3>2 DEF Next, PublishBackground, PublishEvent, SendNext, vars, serverVars
  <2>3. CASE sequence' = sequence
    BY <1>5, <2>1, <2>3 DEF Replica!Next, Replica!Lose
  <2>4. CASE sequence' = sequence + 1
    BY <1>5, <2>1, <2>4 DEF Replica!Next, Replica!Publish
  <2> QED
    BY <2>2, <2>3, <2>4
<1> QED
  BY <1>2, <1>3, <1>4, <1>5 DEF Replica!Next

(* The stream implements ReplicatedSession: over any number of connections *)
(* lost, fences, overflows and histories cut short, a Client never shows   *)
(* an older Session than before, and skips changes only by a Bootstrap     *)
(* captured for it (companion.rs, events.rs, bootstrap.rs).                *)
THEOREM StreamReplicates == Spec => ReplicatesSession
<1>1. StreamInv' => TypeOK'
  BY DEF StreamInv, Base
<1>2. StreamInv /\ StreamInv' /\ [Next]_vars => [Replica!Next]_(Replica!vars)
  BY <1>1, ReplicaStep
<1> QED
  BY <1>2, ReplicaInit, StreamInvHolds, PTL DEF Spec, ReplicatesSession, Replica!Spec
=============================================================================
