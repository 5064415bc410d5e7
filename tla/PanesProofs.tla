----------------------------- MODULE PanesProofs -----------------------------
(***************************************************************************)
(* That a terminal's input is safe for any number of writing threads and   *)
(* any limits: permits are exactly those of the inputs there are, whoever  *)
(* has one finds room, replies keep their order, and a submission is       *)
(* written whole.                                                          *)
(* That what Clients ask of the Server about its Panes is kept consistent, *)
(* for any connections: focus, sizing and mouse, the images they paste,    *)
(* the settings, and the stop of the Server.                               *)
(***************************************************************************)
EXTENDS InputQueue, ClientRequests, Induction, FiniteSetTheorems, SequenceTheorems

-----------------------------------------------------------------------------
(* Sums of natural numbers, as the size of a set: f[x] cells for every x   *)
Cells(f) == UNION {{x} \X (1..f[x]) : x \in DOMAIN f}
Size(f) == Cardinality(Cells(f))

(* A cell is one of some x, and one of its f[x].                           *)
LEMMA CellOf ==
    ASSUME NEW f, NEW c
    PROVE  c \in Cells(f) <=> \E x \in DOMAIN f : \E b \in 1..f[x] : c = <<x, b>>
  BY DEF Cells

(* The cells of one x are as many as its number.                           *)
LEMMA ColumnSize ==
    ASSUME NEW x, NEW n \in Nat
    PROVE  IsFiniteSet({x} \X (1..n)) /\ Cardinality({x} \X (1..n)) = n
<1> DEFINE X == {x}
           N == 1..n
<1>1. IsFiniteSet(X) /\ Cardinality(X) = 1
  BY FS_Singleton
<1>2. IsFiniteSet(N) /\ Cardinality(N) = n
  BY FS_Interval
<1> HIDE DEF X, N
<1>3. IsFiniteSet(X \X N) /\ Cardinality(X \X N) = Cardinality(X) * Cardinality(N)
  BY <1>1, <1>2, FS_Product
<1> QED
  BY <1>1, <1>2, <1>3 DEF X, N

(* Cells of an x that had none are added.                                  *)
LEMMA AddColumn ==
    ASSUME NEW C, IsFiniteSet(C), NEW x, NEW n \in Nat, \A b : <<x, b>> \notin C
    PROVE  IsFiniteSet(C \cup ({x} \X (1..n))) /\ Cardinality(C \cup ({x} \X (1..n))) = Cardinality(C) + n
<1> DEFINE D == {x} \X (1..n)
<1>1. IsFiniteSet(D) /\ Cardinality(D) = n
  BY ColumnSize
<1>2. C \cap D = {}
  OBVIOUS
<1> HIDE DEF D
<1>3. IsFiniteSet(C \cup D) /\ Cardinality(C \cup D) = Cardinality(C) + Cardinality(D) - Cardinality(C \cap D)
  BY <1>1, FS_Union
<1>4. Cardinality(C \cap D) = 0
  BY <1>2, FS_EmptySet
<1>5. Cardinality(C) \in Nat
  BY FS_CardinalityType
<1> QED
  BY <1>1, <1>3, <1>4, <1>5 DEF D

(* A number changes, and the sum with it.                                  *)
LEMMA SizeChange ==
    ASSUME NEW S, NEW f \in [S -> Nat], NEW g \in [S -> Nat], NEW x \in S, IsFiniteSet(Cells(f)),
           \A y \in S : y # x => g[y] = f[y]
    PROVE  /\ IsFiniteSet(Cells(g)) /\ Size(g) = (Size(f) - f[x]) + g[x]
           /\ Size(f) \in Nat /\ f[x] <= Size(f)
<1> DEFINE Rest == {c \in Cells(f) : c[1] # x}
<1>1. Cells(f) = Rest \cup ({x} \X (1..f[x]))
  BY CellOf
<1>2. Cells(g) = Rest \cup ({x} \X (1..g[x]))
  BY CellOf
<1>3. IsFiniteSet(Rest) /\ \A b : <<x, b>> \notin Rest
  BY FS_Subset
<1> HIDE DEF Rest
<1>4. f[x] \in Nat /\ g[x] \in Nat
  OBVIOUS
<1>5. Cardinality(Rest \cup ({x} \X (1..f[x]))) = Cardinality(Rest) + f[x]
  BY <1>3, <1>4, AddColumn
<1>6. /\ IsFiniteSet(Rest \cup ({x} \X (1..g[x])))
      /\ Cardinality(Rest \cup ({x} \X (1..g[x]))) = Cardinality(Rest) + g[x]
  BY <1>3, <1>4, AddColumn
<1>7. Cardinality(Rest) \in Nat
  BY <1>3, FS_CardinalityType
<1> QED
  BY <1>1, <1>2, <1>4, <1>5, <1>6, <1>7 DEF Size

(* Nothing sums up to 0.                                                   *)
LEMMA SizeZero ==
    ASSUME NEW f, \A x \in DOMAIN f : f[x] = 0
    PROVE  IsFiniteSet(Cells(f)) /\ Size(f) = 0
BY CellOf, FS_EmptySet DEF Size

(* A number is appended.                                                   *)
LEMMA SizeAppend ==
    ASSUME NEW s \in Seq(Nat), NEW n \in Nat, IsFiniteSet(Cells(s))
    PROVE  IsFiniteSet(Cells(Append(s, n))) /\ Size(Append(s, n)) = Size(s) + n
<1> DEFINE t == Append(s, n)
           k == Len(s) + 1
<1>1. DOMAIN t = 1..k /\ DOMAIN s = 1..Len(s) /\ t[k] = n /\ \A i \in 1..Len(s) : t[i] = s[i]
  OBVIOUS
<1>2. Cells(t) = Cells(s) \cup ({k} \X (1..n))
  <2> HIDE DEF t
  <2>1. ASSUME NEW c PROVE c \in Cells(t) <=> c \in Cells(s) \cup ({k} \X (1..n))
    <3>1. ASSUME NEW i \in 1..k, NEW b \in 1..t[i], c = <<i, b>>
          PROVE  c \in Cells(s) \cup ({k} \X (1..n))
      <4>1. CASE i = k
        BY <1>1, <3>1, <4>1
      <4>2. CASE i # k
        <5>1. i \in DOMAIN s /\ t[i] = s[i]
          BY <1>1, <4>2
        <5>2. c \in Cells(s)
          BY <3>1, <5>1, CellOf
        <5> QED
          BY <5>2
      <4> QED
        BY <4>1, <4>2
    <3>2. ASSUME c \in Cells(s) PROVE c \in Cells(t)
      <4>1. PICK i \in DOMAIN s : \E b \in 1..s[i] : c = <<i, b>>
        BY <3>2, CellOf
      <4>2. i \in DOMAIN t /\ t[i] = s[i]
        BY <1>1
      <4> QED
        BY <4>1, <4>2, CellOf
    <3>3. ASSUME c \in {k} \X (1..n) PROVE c \in Cells(t)
      BY <1>1, <3>3, CellOf
    <3> QED
      BY <1>1, <3>1, <3>2, <3>3, CellOf
  <2> QED
    BY <2>1
<1>3. \A b : <<k, b>> \notin Cells(s)
  BY <1>1, CellOf
<1> HIDE DEF t, k
<1>4. /\ IsFiniteSet(Cells(s) \cup ({k} \X (1..n)))
      /\ Cardinality(Cells(s) \cup ({k} \X (1..n))) = Cardinality(Cells(s)) + n
  BY <1>3, AddColumn
<1> QED
  BY <1>2, <1>4 DEF Size, t

(* The sum less the head is the sum of the rest.                           *)
LEMMA SizeTail ==
    ASSUME NEW s \in Seq(Nat), s # <<>>, IsFiniteSet(Cells(s))
    PROVE  IsFiniteSet(Cells(Tail(s))) /\ Size(s) = Head(s) + Size(Tail(s)) /\ Size(Tail(s)) \in Nat
<1> DEFINE t == Tail(s)
           Rest == {c \in Cells(s) : c[1] # 1}
<1>1. /\ DOMAIN s = 1..Len(s) /\ Len(s) >= 1 /\ Head(s) = s[1] /\ s[1] \in Nat
      /\ DOMAIN t = 1..(Len(s) - 1) /\ \A i \in 1..(Len(s) - 1) : t[i] = s[i + 1]
  OBVIOUS
<1>2. Cells(s) = Rest \cup ({1} \X (1..s[1])) /\ \A b : <<1, b>> \notin Rest
  BY <1>1, CellOf
<1>3. IsFiniteSet(Rest)
  BY FS_Subset
<1>4. ASSUME NEW c PROVE c \in Rest <=> \E i \in DOMAIN t : \E b \in 1..t[i] : c = <<i + 1, b>>
  <2> HIDE DEF t
  <2>1. ASSUME c \in Rest PROVE \E i \in DOMAIN t : \E b \in 1..t[i] : c = <<i + 1, b>>
    <3>1. PICK j \in 1..Len(s) : \E b \in 1..s[j] : c = <<j, b>>
      BY <1>1, <2>1, CellOf
    <3>2. j # 1
      BY <2>1, <3>1
    <3>3. j - 1 \in DOMAIN t /\ t[j - 1] = s[j] /\ (j - 1) + 1 = j
      BY <1>1, <3>2
    <3> QED
      BY <3>1, <3>3
  <2>2. ASSUME NEW i \in DOMAIN t, NEW b \in 1..t[i], c = <<i + 1, b>> PROVE c \in Rest
    <3>1. i + 1 \in DOMAIN s /\ i + 1 # 1 /\ s[i + 1] = t[i]
      BY <1>1
    <3>2. c \in Cells(s)
      BY <2>2, <3>1, CellOf
    <3> QED
      BY <2>2, <3>1, <3>2
  <2> QED
    BY <2>1, <2>2
<1> DEFINE f == [c \in Rest |-> <<c[1] - 1, c[2]>>]
<1>5. f \in Bijection(Rest, Cells(t))
  <2> HIDE DEF t, Rest
  <2>1. ASSUME NEW c \in Rest PROVE f[c] \in Cells(t)
    <3>1. PICK i \in DOMAIN t : \E b \in 1..t[i] : c = <<i + 1, b>>
      BY <1>4
    <3>2. i \in Int
      BY <1>1
    <3>3. f[c] = <<i, c[2]>> /\ c[2] \in 1..t[i]
      BY <3>1, <3>2
    <3> QED
      BY <3>3, CellOf
  <2>2. ASSUME NEW c \in Rest, NEW d \in Rest, f[c] = f[d] PROVE c = d
    <3>1. PICK i \in DOMAIN t : \E b \in 1..t[i] : c = <<i + 1, b>>
      BY <1>4
    <3>2. PICK j \in DOMAIN t : \E b \in 1..t[j] : d = <<j + 1, b>>
      BY <1>4
    <3>3. i \in Int /\ j \in Int
      BY <1>1
    <3> QED
      BY <2>2, <3>1, <3>2, <3>3
  <2>3. ASSUME NEW e \in Cells(t) PROVE \E c \in Rest : f[c] = e
    <3>4. PICK i \in DOMAIN t : \E b \in 1..t[i] : e = <<i, b>>
      BY CellOf
    <3>1. PICK b \in 1..t[i] : e = <<i, b>>
      BY <3>4
    <3>2. i \in Int /\ <<i + 1, b>> \in Rest
      BY <1>1, <1>4, <3>1
    <3>3. f[<<i + 1, b>>] = e
      BY <3>1, <3>2
    <3> QED
      BY <3>2, <3>3
  <2>4. f \in [Rest -> Cells(t)]
    BY <2>1
  <2> HIDE DEF f
  <2> QED
    BY <2>2, <2>3, <2>4 DEF Bijection, Injection, IsInjective, Surjection
<1>6. IsFiniteSet(Cells(t)) /\ Cardinality(Cells(t)) = Cardinality(Rest)
  BY <1>5, <1>3, FS_Bijection DEF ExistsBijection
<1>7. Cardinality(Cells(s)) = Cardinality(Rest) + s[1] /\ Cardinality(Rest) \in Nat
  <2> HIDE DEF Rest
  <2>1. Cardinality(Rest \cup ({1} \X (1..s[1]))) = Cardinality(Rest) + s[1]
    BY <1>1, <1>2, <1>3, AddColumn
  <2>2. Cardinality(Rest) \in Nat
    BY <1>3, FS_CardinalityType
  <2> QED
    BY <1>2, <2>1, <2>2
<1> HIDE DEF t, Rest, f
<1> QED
  BY <1>1, <1>6, <1>7 DEF Size, t

-----------------------------------------------------------------------------
(* The inductive invariant                                                 *)
AllKinds == {"keys", "submission", "control", "reply"}
AllInputs == [kind : AllKinds, id : Nat, size : Nat]
HandPcs == {"free", "holding", "settling", "done", "closing", "cleared", "ended"}
Closed == {"closing", "cleared", "ended"}

Balances == [entries : Int, bytes : Int, controls : Int]

(* A thread that has its place holds an input that is no reply; the bytes  *)
(* of user input are taken after its place.                                *)
HoldsPlace(p) ==
    /\ p.at \in {"placed", "permitted", "sending"}
    /\ p.input \in AllInputs /\ p.input.kind # "reply"
    /\ p.at = "placed" => IsUser(p.input)

Types ==
    /\ channel \in Seq(AllInputs)
    /\ permits \in Balances
    /\ replies \in [pending : Seq(Nat), token_queued : BOOLEAN, accepted : Nat]
    /\ accepting \in BOOLEAN
    /\ producer \in [Writers -> [at : {"idle", "placed", "permitted", "sending"},
                                 input : AllInputs \cup {NoInput}]]
    /\ \A t \in Writers : producer[t] = Idle \/ HoldsPlace(producer[t])
    /\ hand \in [at : HandPcs, input : AllInputs \cup {NoInput}]
    /\ written \in Seq([kind : AllKinds, id : Nat, part : {"text", "enter"}])
    /\ inputSpent \in [setting : InputSettings, writes : Nat, replies : Nat, stopping : BOOLEAN]

(* What the writer thread has, and when nothing more is accepted.          *)
Hands ==
    /\ hand.at \in {"holding", "settling", "done"} => hand.input \in AllInputs
    /\ hand.at \in {"free", "ended"} => hand.input = NoInput
    /\ hand.at = "settling" => hand.input.kind = "submission"
    /\ hand.at \in Closed \/ inputSpent.stopping => ~accepting

(* What an input, and what a thread, takes of what is counted.             *)
Weight(x) ==
    [entries  |-> IF IsUser(x) THEN 1 ELSE 0,
     bytes    |-> IF IsUser(x) THEN x.size ELSE 0,
     controls |-> IF IsControl(x) THEN 1 ELSE 0,
     replies  |-> IF x.kind = "reply" THEN 1 ELSE 0]
Load(p) == [Weight(p.input) EXCEPT !.bytes = IF p.at = "placed" THEN 0 ELSE @]

Permits == {"entries", "bytes", "controls"}
Weights == Permits \cup {"replies"}
Threads(w) == [t \in Writers |-> Load(producer[t])[w]]
Along(s, w) == [i \in 1..Len(s) |-> Weight(s[i])[w]]

(* Every permit is that of an input there is, and every input in the       *)
(* channel is of one of three kinds.                                       *)
Counts ==
    /\ \A w \in Weights : IsFiniteSet(Cells(Threads(w))) /\ IsFiniteSet(Cells(Along(channel, w)))
    /\ \A w \in Permits :
         permits[w] = Size(Threads(w)) + Size(Along(channel, w)) + Weight(hand.input)[w]
    /\ Len(channel) = Size(Along(channel, "entries")) + Size(Along(channel, "controls"))
                        + Size(Along(channel, "replies"))

Limits ==
    permits.entries <= UserCapacity /\ permits.bytes <= InputBytes /\ permits.controls <= ControlReserve

(* The token stands for one reply in the channel or in hand.               *)
Token ==
    /\ Size(Along(channel, "replies")) <= 1
    /\ hand.at \notin Closed =>
         Size(Along(channel, "replies")) + Weight(hand.input).replies = IF replies.token_queued THEN 1 ELSE 0

(* The replies: written, then the token's, then those that wait.           *)
Turn == Answers(Len(written)) + (IF hand.at = "done" /\ hand.input.kind = "reply" THEN 0 ELSE 1)
Order ==
    /\ Answers(Len(written)) \in Nat
    /\ hand.at \notin Closed =>
         /\ ~replies.token_queued =>
              replies.pending = <<>> /\ replies.accepted = Answers(Len(written))
         /\ replies.token_queued =>
              /\ \A i \in 1..Len(channel) : channel[i].kind = "reply" => channel[i].id = Turn
              /\ hand.input.kind = "reply" => hand.input.id = Turn
              /\ \A i \in 1..Len(replies.pending) : replies.pending[i] = Turn + i
              /\ replies.accepted = Turn + Len(replies.pending)

(* The last thing written is a submission's text only if its Enter is next,*)
(* or nothing is.                                                          *)
HalfWritten == written # <<>> /\ written[Len(written)].kind = "submission"
                              /\ written[Len(written)].part = "text"
Last ==
    /\ hand.at = "settling" => written # <<>> /\ written[Len(written)] = Part(hand.input, "text")
    /\ HalfWritten =>
         \/ hand.at = "settling" \/ hand.at \in Closed
         \/ inputSpent.stopping /\ (hand.at = "free" \/ (hand.at = "done" /\ hand.input.kind = "submission"))

InputInv == Types /\ Hands /\ Counts /\ Limits /\ Token /\ Order /\ Last /\ WrittenWhole

-----------------------------------------------------------------------------
(* Types                                                                   *)
ThreadStates == [at : {"idle", "placed", "permitted", "sending"}, input : AllInputs \cup {NoInput}]

(* A thread's next state is one there may be.                              *)
LEMMA ThreadTypes ==
    ASSUME Types, NEW t \in Writers, NEW p \in ThreadStates, p = Idle \/ HoldsPlace(p),
           producer' = [producer EXCEPT ![t] = p]
    PROVE  /\ producer' \in [Writers -> ThreadStates]
           /\ \A u \in Writers : producer'[u] = Idle \/ HoldsPlace(producer'[u])
BY DEF Types, ThreadStates

(* An input is of its type, and so are the permits that it returns.        *)
LEMMA InputType ==
    ASSUME NEW kind \in AllKinds, NEW id \in Nat, NEW size \in Nat
    PROVE  Input(kind, id, size) \in AllInputs
  BY DEF Input, AllInputs

LEMMA BalanceParts ==
    ASSUME NEW b \in Balances
    PROVE  b.entries \in Int /\ b.bytes \in Int /\ b.controls \in Int
  BY DEF Balances

LEMMA BalanceChange ==
    ASSUME NEW b \in Balances, NEW n \in Int
    PROVE  /\ [b EXCEPT !.entries = n] \in Balances /\ [b EXCEPT !.bytes = n] \in Balances
           /\ [b EXCEPT !.controls = n] \in Balances
  BY DEF Balances

LEMMA ReturnedType ==
    ASSUME NEW from \in Balances, NEW x \in AllInputs \cup {NoInput}
    PROVE  Returned(from, x) \in Balances
<1> DEFINE user == IF IsUser(x) THEN 1 ELSE 0
           size == IF IsUser(x) THEN x.size ELSE 0
           control == IF IsControl(x) THEN 1 ELSE 0
<1>1. user \in Int /\ size \in Int /\ control \in Int
  BY DEF AllInputs, NoInput, IsUser
<1>2. Returned(from, x) =
        [from EXCEPT !.entries = @ - user, !.bytes = @ - size, !.controls = @ - control]
  BY DEF Returned
<1> HIDE DEF user, size, control
<1>3. from.entries \in Int /\ from.bytes \in Int /\ from.controls \in Int
  BY BalanceParts
<1>4. Returned(from, x) = [entries |-> from.entries - user, bytes |-> from.bytes - size,
                           controls |-> from.controls - control]
  BY <1>2 DEF Balances
<1>5. from.entries - user \in Int /\ from.bytes - size \in Int /\ from.controls - control \in Int
  BY <1>1, <1>3
<1> QED
  BY <1>4, <1>5 DEF Balances

LEMMA IdleType == Idle \in ThreadStates
  BY DEF Idle, ThreadStates

LEMMA TypesTakePlace ==
    ASSUME Types, NEW t \in Writers, NEW kind \in inputSpent.setting.kinds,
           NEW size \in inputSpent.setting.sizes, TakePlace(t, kind, size)
    PROVE  Types'
<1> DEFINE x == Input(kind, inputSpent.writes + 1, size)
<1>1. kind \in {"keys", "submission", "control"} /\ size \in Nat /\ inputSpent.writes + 1 \in Nat
  <2>1. inputSpent.setting \in InputSettings /\ inputSpent.writes \in Nat
    BY DEF Types
  <2>2. inputSpent.setting.kinds \in SUBSET {"keys", "submission", "control"}
        /\ inputSpent.setting.sizes \in SUBSET Nat
    BY <2>1 DEF InputSettings
  <2> QED
    BY <2>1, <2>2
<1>2. x \in AllInputs /\ x.kind = kind
  BY <1>1, InputType DEF AllKinds, Input
<1>3. inputSpent' \in [setting : InputSettings, writes : Nat, replies : Nat, stopping : BOOLEAN]
  BY <1>1 DEF Types, TakePlace
<1>4. UNCHANGED <<channel, replies, accepting, hand, written>>
  BY DEF TakePlace
<1> HIDE DEF x
<1>5. CASE /\ IsUser(x) /\ permits' = [permits EXCEPT !.entries = @ + 1]
           /\ producer' = [producer EXCEPT ![t] = [at |-> "placed", input |-> x]]
  <2> DEFINE p == [at |-> "placed", input |-> x]
  <2>1. p \in ThreadStates /\ HoldsPlace(p)
    BY <1>1, <1>2, <1>5 DEF ThreadStates, HoldsPlace
  <2>2. /\ producer' \in [Writers -> ThreadStates]
        /\ \A u \in Writers : producer'[u] = Idle \/ HoldsPlace(producer'[u])
    BY <1>5, <2>1, ThreadTypes DEF p
  <2>3. permits' \in Balances
    <3>1. permits \in Balances
      BY DEF Types
    <3>2. permits.entries + 1 \in Int
      BY <3>1, BalanceParts
    <3> QED
      BY <1>5, <3>1, <3>2, BalanceChange
  <2> QED
    BY <1>3, <1>4, <2>2, <2>3 DEF Types, ThreadStates
<1>6. CASE /\ IsControl(x) /\ permits' = [permits EXCEPT !.controls = @ + 1]
           /\ producer' = [producer EXCEPT ![t] = [at |-> "permitted", input |-> x]]
  <2> DEFINE p == [at |-> "permitted", input |-> x]
  <2>1. p \in ThreadStates /\ HoldsPlace(p)
    BY <1>1, <1>2, <1>6 DEF ThreadStates, HoldsPlace
  <2>2. /\ producer' \in [Writers -> ThreadStates]
        /\ \A u \in Writers : producer'[u] = Idle \/ HoldsPlace(producer'[u])
    BY <1>6, <2>1, ThreadTypes DEF p
  <2>3. permits' \in Balances
    <3>1. permits \in Balances
      BY DEF Types
    <3>2. permits.controls + 1 \in Int
      BY <3>1, BalanceParts
    <3> QED
      BY <1>6, <3>1, <3>2, BalanceChange
  <2> QED
    BY <1>3, <1>4, <2>2, <2>3 DEF Types, ThreadStates
<1>7. CASE UNCHANGED <<permits, producer>>
  BY <1>3, <1>4, <1>7 DEF Types
<1> QED
  BY <1>5, <1>6, <1>7 DEF TakePlace, x

LEMMA TypesProduces ==
    ASSUME Types, NEW t \in Writers, Produces(t)
    PROVE  Types'
<1>1. producer[t] # Idle => HoldsPlace(producer[t]) /\ producer[t] \in ThreadStates
  BY DEF Types, ThreadStates
<1>2. producer[t] # Idle
  BY DEF Produces, TakeBytes, LookAgain, TrySend, Idle
<1> DEFINE x == producer[t].input
<1>3. x \in AllInputs
  BY <1>1, <1>2 DEF HoldsPlace
<1>4. permits \in Balances
  BY DEF Types
<1>5. Returned(permits, x) \in Balances
  BY <1>3, <1>4, ReturnedType
<1>6. \A a \in {"permitted", "sending"} :
        [producer[t] EXCEPT !.at = a] \in ThreadStates /\ HoldsPlace([producer[t] EXCEPT !.at = a])
  BY <1>1, <1>2 DEF ThreadStates, HoldsPlace
<1>7. /\ producer' \in [Writers -> ThreadStates]
      /\ \A u \in Writers : producer'[u] = Idle \/ HoldsPlace(producer'[u])
  BY <1>6, ThreadTypes, IdleType DEF Produces, TakeBytes, LookAgain, TrySend
<1>8. permits' \in Balances
  <2>1. CASE TakeBytes(t)
    <3>1. x.size \in Int
      BY <1>3 DEF AllInputs
    <3> HIDE DEF x
    <3>2. \/ permits' = [permits EXCEPT !.bytes = @ + x.size]
          \/ permits' = [permits EXCEPT !.entries = @ - 1]
      BY <2>1 DEF TakeBytes, x
    <3>3. permits.bytes + x.size \in Int /\ permits.entries - 1 \in Int
      BY <1>4, BalanceParts, <3>1
    <3> QED
      BY <1>4, <3>2, <3>3, BalanceChange
  <2>2. CASE LookAgain(t) \/ TrySend(t)
    BY <1>4, <1>5, <2>2 DEF LookAgain, TrySend
  <2> QED
    BY <2>1, <2>2 DEF Produces
<1>9. channel' \in Seq(AllInputs)
  <2>1. channel \in Seq(AllInputs)
    BY DEF Types
  <2>2. channel' = channel \/ channel' = Append(channel, x)
    BY DEF Produces, TakeBytes, LookAgain, TrySend
  <2> QED
    BY <1>3, <2>1, <2>2
<1>10. UNCHANGED <<replies, accepting, hand, written, inputSpent>>
  BY DEF Produces, TakeBytes, LookAgain, TrySend
<1> QED
  BY <1>7, <1>8, <1>9, <1>10 DEF Types, ThreadStates

-----------------------------------------------------------------------------
(* What is counted                                                         *)

(* Weights and loads are numbers.                                          *)
LEMMA WeightType ==
    ASSUME NEW x \in AllInputs \cup {NoInput}, NEW w \in Weights
    PROVE  Weight(x)[w] \in Nat
BY DEF AllInputs, NoInput, IsUser, Weight, Weights, Permits

LEMMA LoadType ==
    ASSUME NEW p \in ThreadStates, NEW w \in Weights
    PROVE  Load(p)[w] \in Nat
BY WeightType DEF ThreadStates, Load, Weight, Weights, Permits

(* What a thread or an input takes, spelled out.                           *)
LEMMA IdleLoad == \A w \in Weights : Load(Idle)[w] = 0
  BY DEF Load, Idle, NoInput, Weight, Weights, Permits, IsUser, IsControl

LEMMA NoWeight == \A w \in Weights : Weight(NoInput)[w] = 0
  BY DEF NoInput, Weight, Weights, Permits, IsUser, IsControl

LEMMA FullLoad ==
    ASSUME NEW p, p.at # "placed"
    PROVE  \A w \in Weights : Load(p)[w] = Weight(p.input)[w]
  BY DEF Load, Weight, Weights, Permits

LEMMA OfOneKind ==
    ASSUME NEW x \in AllInputs
    PROVE  Weight(x)["entries"] + Weight(x)["controls"] + Weight(x)["replies"] = 1
  BY DEF Weight, AllInputs, AllKinds, IsUser, IsControl

(* A dropped input gives back what it took.                                *)
LEMMA ReturnedIs ==
    ASSUME NEW from \in Balances, NEW x \in AllInputs \cup {NoInput}, NEW w \in Permits
    PROVE  Returned(from, x)[w] = from[w] - Weight(x)[w]
<1> DEFINE user == IF IsUser(x) THEN 1 ELSE 0
           size == IF IsUser(x) THEN x.size ELSE 0
           control == IF IsControl(x) THEN 1 ELSE 0
<1>1. Returned(from, x) =
        [from EXCEPT !.entries = @ - user, !.bytes = @ - size, !.controls = @ - control]
  BY DEF Returned
<1>2. Weight(x)["entries"] = user /\ Weight(x)["bytes"] = size /\ Weight(x)["controls"] = control
  BY DEF Weight
<1> HIDE DEF user, size, control
<1>3. Returned(from, x) = [entries |-> from.entries - user, bytes |-> from.bytes - size,
                           controls |-> from.controls - control]
  BY <1>1 DEF Balances
<1> QED
  BY <1>2, <1>3 DEF Permits

(* The sum along the channel, as inputs come and go.                       *)
LEMMA AlongType ==
    ASSUME NEW s \in Seq(AllInputs), NEW w \in Weights
    PROVE  Along(s, w) \in Seq(Nat) /\ Len(Along(s, w)) = Len(s) /\ Along(s, w) \in [1..Len(s) -> Nat]
BY WeightType, SeqDef, LenProperties DEF Along

LEMMA AlongEmpty ==
    ASSUME NEW w \in Weights
    PROVE  IsFiniteSet(Cells(Along(<<>>, w))) /\ Size(Along(<<>>, w)) = 0
BY SizeZero DEF Along

LEMMA AlongAppend ==
    ASSUME NEW s \in Seq(AllInputs), NEW x \in AllInputs, NEW w \in Weights,
           IsFiniteSet(Cells(Along(s, w)))
    PROVE  /\ IsFiniteSet(Cells(Along(Append(s, x), w)))
           /\ Size(Along(Append(s, x), w)) = Size(Along(s, w)) + Weight(x)[w]
<1> DEFINE a == Along(s, w)
           n == Weight(x)[w]
<1>1. n \in Nat
  BY WeightType
<1>2. a \in Seq(Nat) /\ Len(a) = Len(s) /\ \A i \in 1..Len(s) : a[i] = Weight(s[i])[w]
  BY AlongType DEF Along
<1>3. Along(Append(s, x), w) = Append(a, n)
  <2> DEFINE t == Append(s, x)
  <2>1. t \in Seq(AllInputs) /\ Len(t) = Len(s) + 1 /\ t[Len(s) + 1] = x
        /\ \A i \in 1..Len(s) : t[i] = s[i]
    OBVIOUS
  <2> HIDE DEF t
  <2>2. Along(t, w) \in Seq(Nat) /\ Len(Along(t, w)) = Len(t)
        /\ \A i \in 1..Len(t) : Along(t, w)[i] = Weight(t[i])[w]
    BY <2>1, AlongType DEF Along
  <2> HIDE DEF a
  <2>3. Append(a, n) \in Seq(Nat) /\ Len(Append(a, n)) = Len(t)
        /\ \A i \in 1..Len(t) : Append(a, n)[i] = IF i = Len(t) THEN n ELSE a[i]
    BY <1>1, <1>2, <2>1
  <2>4. ASSUME NEW i \in 1..Len(t) PROVE Along(t, w)[i] = Append(a, n)[i]
    <3>1. CASE i = Len(t)
      BY <2>1, <3>1, <2>3, <2>2
    <3>2. CASE i # Len(t)
      <4>1. i \in 1..Len(s) /\ t[i] = s[i]
        BY <2>1, <3>2
      <4>2. Append(a, n)[i] = a[i]
        BY <2>3, <3>2
      <4> QED
        BY <1>2, <2>2, <4>1, <4>2
    <3> QED
      BY <3>1, <3>2
  <2> HIDE DEF n
  <2>5. Along(t, w) = Append(a, n)
    BY <2>2, <2>3, <2>4, SeqEqual
  <2> QED
    BY <2>5 DEF t
<1> HIDE DEF a, n
<1>4. IsFiniteSet(Cells(Append(a, n))) /\ Size(Append(a, n)) = Size(a) + n
  BY <1>1, <1>2, SizeAppend DEF a
<1> QED
  BY <1>3, <1>4 DEF a, n

LEMMA AlongTail ==
    ASSUME NEW s \in Seq(AllInputs), s # <<>>, NEW w \in Weights, IsFiniteSet(Cells(Along(s, w)))
    PROVE  /\ IsFiniteSet(Cells(Along(Tail(s), w)))
           /\ Size(Along(s, w)) = Weight(Head(s))[w] + Size(Along(Tail(s), w))
           /\ Size(Along(Tail(s), w)) \in Nat
<1> DEFINE a == Along(s, w)
<1>1. /\ a \in Seq(Nat) /\ Len(a) = Len(s) /\ \A i \in 1..Len(s) : a[i] = Weight(s[i])[w]
      /\ Len(s) >= 1 /\ Head(s) = s[1]
  BY AlongType DEF Along
<1>2. Along(Tail(s), w) = Tail(a)
  <2> DEFINE t == Tail(s)
  <2>1. t \in Seq(AllInputs) /\ Len(t) = Len(s) - 1 /\ \A i \in 1..Len(t) : t[i] = s[i + 1]
    OBVIOUS
  <2> HIDE DEF t
  <2>2. Along(t, w) \in Seq(Nat) /\ Len(Along(t, w)) = Len(t)
        /\ \A i \in 1..Len(t) : Along(t, w)[i] = Weight(t[i])[w]
    BY <2>1, AlongType DEF Along
  <2> HIDE DEF a
  <2>3. Tail(a) \in Seq(Nat) /\ Len(Tail(a)) = Len(t) /\ \A i \in 1..Len(t) : Tail(a)[i] = a[i + 1]
    BY <1>1, <2>1
  <2>4. ASSUME NEW i \in 1..Len(t) PROVE Along(t, w)[i] = Tail(a)[i]
    <3>1. i + 1 \in 1..Len(s) /\ t[i] = s[i + 1]
      BY <2>1
    <3>2. a[i + 1] = Weight(s[i + 1])[w]
      BY <1>1, <3>1
    <3> QED
      BY <2>2, <2>3, <3>1, <3>2
  <2>5. Along(t, w) = Tail(a)
    BY <2>2, <2>3, <2>4, SeqEqual
  <2> QED
    BY <2>5 DEF t
<1>3. a # <<>> /\ Head(a) = Weight(Head(s))[w]
  BY <1>1
<1> HIDE DEF a
<1>4. IsFiniteSet(Cells(Tail(a))) /\ Size(a) = Head(a) + Size(Tail(a)) /\ Size(Tail(a)) \in Nat
  BY <1>1, <1>3, SizeTail DEF a
<1> QED
  BY <1>2, <1>3, <1>4 DEF a

(* No input takes more than all of them.                                   *)
LEMMA AlongMember ==
    ASSUME NEW s \in Seq(AllInputs), NEW w \in Weights, IsFiniteSet(Cells(Along(s, w)))
    PROVE  /\ Size(Along(s, w)) \in Nat
           /\ \A i \in 1..Len(s) : Weight(s[i])[w] <= Size(Along(s, w))
BY AlongType, FS_CardinalityType, SizeChange DEF Along, Size

(* The permits of threads, as one of them goes on.                         *)
LEMMA ThreadsChange ==
    ASSUME Types, Counts, NEW t \in Writers, NEW p \in ThreadStates, NEW w \in Weights,
           producer' = [producer EXCEPT ![t] = p]
    PROVE  /\ IsFiniteSet(Cells(Threads(w)'))
           /\ Size(Threads(w)') = (Size(Threads(w)) - Load(producer[t])[w]) + Load(p)[w]
           /\ Size(Threads(w)) \in Nat /\ Load(producer[t])[w] <= Size(Threads(w))
           /\ Load(producer[t])[w] \in Nat /\ Load(p)[w] \in Nat
<1> DEFINE f == Threads(w)
           g == [u \in Writers |-> Load(producer'[u])[w]]
<1>1. producer \in [Writers -> ThreadStates]
  BY DEF Types, ThreadStates
<1>2. \A u \in Writers : producer'[u] = IF u = t THEN p ELSE producer[u]
  BY <1>1
<1>3. f \in [Writers -> Nat] /\ f[t] = Load(producer[t])[w]
  BY <1>1, LoadType DEF Threads
<1>4. g \in [Writers -> Nat] /\ g[t] = Load(p)[w] /\ \A u \in Writers : u # t => g[u] = f[u]
  BY <1>1, <1>2, LoadType DEF Threads
<1>5. IsFiniteSet(Cells(f))
  BY DEF Counts
<1>6. Threads(w)' = g
  BY DEF Threads
<1> HIDE DEF f, g
<1>7. IsFiniteSet(Cells(g)) /\ Size(g) = (Size(f) - f[t]) + g[t] /\ Size(f) \in Nat /\ f[t] <= Size(f)
  BY <1>3, <1>4, <1>5, SizeChange
<1>8. f[t] \in Nat /\ g[t] \in Nat
  BY <1>3, <1>4
<1> QED
  BY <1>3, <1>4, <1>6, <1>7, <1>8 DEF f

-----------------------------------------------------------------------------
(* The channel is dropped: every input that is in it returns what it took  *)
Prefix(s, i) == SubSeq(s, 1, i)

LEMMA PrefixGrows ==
    ASSUME NEW s \in Seq(AllInputs), NEW i \in 1..Len(s)
    PROVE  /\ Prefix(s, i - 1) \in Seq(AllInputs) /\ Prefix(s, 0) = <<>> /\ Prefix(s, Len(s)) = s
           /\ Prefix(s, i) = Append(Prefix(s, i - 1), s[i]) /\ s[i] \in AllInputs
  BY DEF Prefix

LEMMA PrefixSums ==
    ASSUME NEW s \in Seq(AllInputs), NEW w \in Weights
    PROVE  \A i \in 0..Len(s) : /\ Prefix(s, i) \in Seq(AllInputs)
                                /\ IsFiniteSet(Cells(Along(Prefix(s, i), w)))
<1> DEFINE S == {i \in 0..Len(s) : /\ Prefix(s, i) \in Seq(AllInputs)
                                   /\ IsFiniteSet(Cells(Along(Prefix(s, i), w)))}
<1>1. 0 \in S
  <2>1. Prefix(s, 0) = <<>> /\ 0 \in 0..Len(s)
    BY DEF Prefix
  <2>2. IsFiniteSet(Cells(Along(<<>>, w)))
    BY AlongEmpty
  <2>3. IsFiniteSet(Cells(Along(Prefix(s, 0), w)))
    BY <2>1, <2>2
  <2>5. <<>> \in Seq(AllInputs)
    OBVIOUS
  <2>4. Prefix(s, 0) \in Seq(AllInputs)
    BY <2>1, <2>5
  <2> QED
    BY <2>1, <2>3, <2>4
<1>2. ASSUME NEW i \in 1..Len(s), i - 1 \in S PROVE i \in S
  <2>1. /\ Prefix(s, i - 1) \in Seq(AllInputs) /\ IsFiniteSet(Cells(Along(Prefix(s, i - 1), w)))
        /\ Prefix(s, i) = Append(Prefix(s, i - 1), s[i]) /\ s[i] \in AllInputs
    BY <1>2, PrefixGrows
  <2>2. Prefix(s, i) \in Seq(AllInputs)
    BY <2>1
  <2>3. IsFiniteSet(Cells(Along(Append(Prefix(s, i - 1), s[i]), w)))
    BY <2>1, AlongAppend
  <2>4. IsFiniteSet(Cells(Along(Prefix(s, i), w)))
    BY <2>1, <2>3
  <2>5. i \in 0..Len(s)
    OBVIOUS
  <2> QED
    BY <2>2, <2>4, <2>5
<1>3. 0..Len(s) \subseteq S
  <2>1. Len(s) \in Nat
    OBVIOUS
  <2> HIDE DEF S
  <2> QED
    BY <1>1, <1>2, <2>1, InductionTo
<1> QED
  BY <1>3

LEMMA DroppedReturns ==
    ASSUME NEW s \in Seq(AllInputs), NEW from \in Balances,
           NEW x \in AllInputs \cup {NoInput}
    PROVE  LET after[i \in 0..Len(s)] == IF i = 0 THEN Returned(from, x) ELSE Returned(after[i - 1], s[i])
           IN  /\ after[Len(s)] \in Balances
               /\ \A w \in Permits :
                    after[Len(s)][w] = (from[w] - Weight(x)[w]) - Size(Along(s, w))
<1> DEFINE n == Len(s)
           Upto(f) == f = [i \in 0..n |-> IF i = 0 THEN Returned(from, x) ELSE Returned(f[i - 1], s[i])]
           step == [i \in 1..n |-> [v \in Balances |-> Returned(v, s[i])]]
           start == Returned(from, x)
<1>1. start \in Balances /\ n \in Nat /\ \A i \in 1..n : s[i] \in AllInputs
  BY ReturnedType DEF Balances
<1>2. IsStep(step, n, Balances) /\ \A i \in 1..n : \A v \in Balances : step[i][v] = Returned(v, s[i])
  BY <1>1, ReturnedType DEF IsStep, Balances
<1>3. PICK g : Recurses(g, n, Balances, start, step)
  BY <1>1, <1>2, RecursionDefines
<1> HIDE DEF step
<1>4. /\ g \in [0..n -> Balances] /\ g[0] = start
      /\ \A i \in 1..n : g[i] = Returned(g[i - 1], s[i])
  BY <1>3, <1>1, <1>2 DEF Recurses
<1>5. Upto(g)
  BY <1>4
<1> DEFINE after == CHOOSE f : Upto(f)
<1>6. Upto(after)
  BY <1>5
<1> HIDE DEF after
<1>7. after[n] = g[n]
  <2>1. \A i \in 0..n : after[i] = IF i = 0 THEN start ELSE Returned(after[i - 1], s[i])
    BY <1>6
  <2>2. AgreeStepwise(after, g, n)
    BY <1>1, <1>4, <2>1 DEF AgreeStepwise
  <2>3. Agree(after, g, n)
    BY <1>1, <2>2, RecursionsAgree
  <2> QED
    BY <1>1, <2>3 DEF Agree
<1>8. ASSUME NEW w \in Permits PROVE g[n][w] = start[w] - Size(Along(s, w))
  <2>0. w \in Weights
    BY DEF Weights
  <2> DEFINE h == [i \in 0..n |-> start[w] - Size(Along(Prefix(s, i), w))]
             gw == [i \in 0..n |-> g[i][w]]
  <2>1. \A i \in 0..n : /\ Prefix(s, i) \in Seq(AllInputs)
                        /\ IsFiniteSet(Cells(Along(Prefix(s, i), w)))
                        /\ Size(Along(Prefix(s, i), w)) \in Nat
    BY <2>0, PrefixSums, AlongMember
  <2>2. start[w] \in Int
    BY <1>1, BalanceParts DEF Permits
  <2>3. gw[0] = h[0]
    <3>1. Prefix(s, 0) = <<>>
      BY DEF Prefix
    <3>2. Size(Along(<<>>, w)) = 0
      BY <2>0, AlongEmpty
    <3>3. 0 \in 0..n
      BY <1>1
    <3>4. h[0] = start[w] - Size(Along(<<>>, w)) /\ gw[0] = start[w]
      BY <1>4, <3>1, <3>3
    <3> QED
      BY <2>2, <3>2, <3>4
  <2>4. ASSUME NEW i \in 1..n, gw[i - 1] = h[i - 1] PROVE gw[i] = h[i]
    <3>1. i - 1 \in 0..n /\ i \in 0..n /\ s[i] \in AllInputs
      BY <1>1
    <3>2. g[i - 1] \in Balances
      BY <1>4, <3>1
    <3>3. Returned(g[i - 1], s[i])[w] = g[i - 1][w] - Weight(s[i])[w]
      BY <3>1, <3>2, ReturnedIs
    <3>4. Prefix(s, i) = Append(Prefix(s, i - 1), s[i])
      BY PrefixGrows
    <3>5. Size(Along(Append(Prefix(s, i - 1), s[i]), w)) = Size(Along(Prefix(s, i - 1), w)) + Weight(s[i])[w]
      BY <2>0, <2>1, <3>1, AlongAppend
    <3>6. gw[i] = g[i][w] /\ gw[i - 1] = g[i - 1][w]
      BY <3>1
    <3>7. h[i] = start[w] - Size(Along(Prefix(s, i), w)) /\ h[i - 1] = start[w] - Size(Along(Prefix(s, i - 1), w))
      BY <3>1
    <3>8. g[i][w] = g[i - 1][w] - Weight(s[i])[w]
      BY <1>4, <3>3
    <3>9. Weight(s[i])[w] \in Nat /\ Size(Along(Prefix(s, i - 1), w)) \in Nat
      BY <2>0, <2>1, <3>1, WeightType
    <3>10. h[i] = h[i - 1] - Weight(s[i])[w]
      BY <3>4, <3>5, <2>2, <3>7, <3>9
    <3> HIDE DEF h, gw
    <3> QED
      BY <2>4, <3>6, <3>8, <3>10
  <2>5. gw[n] = h[n]
    <3>1. AgreeStepwise(gw, h, n)
      BY <2>3, <2>4 DEF AgreeStepwise
    <3>2. Agree(gw, h, n)
      BY <1>1, <3>1, RecursionsAgree
    <3> QED
      BY <1>1, <3>2 DEF Agree
  <2>6. Prefix(s, n) = s /\ n \in 0..n
    BY <1>1 DEF Prefix
  <2>7. gw[n] = g[n][w] /\ h[n] = start[w] - Size(Along(Prefix(s, n), w))
    BY <2>6
  <2> QED
    BY <2>5, <2>6, <2>7
<1>9. \A w \in Permits : start[w] = from[w] - Weight(x)[w]
  BY ReturnedIs
<1>10. after[n] \in Balances
  BY <1>1, <1>4, <1>7
<1>11. \A w \in Permits : after[n][w] = (from[w] - Weight(x)[w]) - Size(Along(s, w))
  BY <1>7, <1>8, <1>9
<1> QED
  BY <1>10, <1>11 DEF after

-----------------------------------------------------------------------------
(* The other steps keep the types.                                         *)
Writings == [kind : AllKinds, id : Nat, part : {"text", "enter"}]

LEMMA TypesReply ==
    ASSUME Types, WriteTerminalReply
    PROVE  Types'
<1> DEFINE reply == replies.accepted + 1
<1>1. replies \in [pending : Seq(Nat), token_queued : BOOLEAN, accepted : Nat] /\ channel \in Seq(AllInputs)
  BY DEF Types
<1>2. reply \in Nat /\ Input("reply", reply, 0) \in AllInputs
  BY <1>1, InputType DEF AllKinds
<1>3. channel' \in Seq(AllInputs)
  <2> DEFINE x == Input("reply", reply, 0)
  <2>1. channel' = channel \/ channel' = Append(channel, x)
    BY DEF WriteTerminalReply
  <2>2. x \in AllInputs
    BY <1>2
  <2> HIDE DEF x
  <2> QED
    BY <1>1, <2>1, <2>2
<1>4. replies' \in [pending : Seq(Nat), token_queued : BOOLEAN, accepted : Nat]
  <2>1. \/ replies' = replies
        \/ replies' = [replies EXCEPT !.pending = Append(@, reply), !.accepted = reply]
        \/ replies' = [replies EXCEPT !.token_queued = TRUE, !.accepted = reply]
    BY DEF WriteTerminalReply
  <2> HIDE DEF reply
  <2>2. replies.pending \in Seq(Nat)
    BY <1>1
  <2>3. Append(replies.pending, reply) \in Seq(Nat)
    BY <1>2, <2>2
  <2> QED
    BY <1>1, <1>2, <2>1, <2>3
<1>5. inputSpent' \in [setting : InputSettings, writes : Nat, replies : Nat, stopping : BOOLEAN]
  <2>1. inputSpent \in [setting : InputSettings, writes : Nat, replies : Nat, stopping : BOOLEAN]
    BY DEF Types
  <2>2. inputSpent' = [inputSpent EXCEPT !.replies = @ + 1]
    BY DEF WriteTerminalReply
  <2> QED
    BY <2>1, <2>2
<1>6. UNCHANGED <<permits, accepting, producer, hand, written>>
  BY DEF WriteTerminalReply
<1> QED
  BY <1>3, <1>4, <1>5, <1>6 DEF Types

LEMMA TypesTake ==
    ASSUME Types, Take
    PROVE  Types'
BY DEF Types, Take, HandPcs

(* What is written is of an input.                                         *)
LEMMA TypesWrite ==
    ASSUME Types, Hands, WriteText \/ WriteEnter
    PROVE  Types'
<1>1. hand \in [at : HandPcs, input : AllInputs \cup {NoInput}] /\ hand.input \in AllInputs
  BY DEF Types, Hands, WriteText, WriteEnter
<1>2. \A part \in {"text", "enter"} : Part(hand.input, part) \in Writings
  BY <1>1 DEF Part, AllInputs, Writings
<1>3. written' \in Seq(Writings)
  <2>1. written \in Seq(Writings)
    BY DEF Types, Writings
  <2>2. \/ written' = written \/ written' = Append(written, Part(hand.input, "text"))
        \/ written' = Append(written, Part(hand.input, "enter"))
    BY DEF WriteText, WriteEnter
  <2> QED
    BY <1>2, <2>1, <2>2
<1>4. hand' \in [at : HandPcs, input : AllInputs \cup {NoInput}]
  BY <1>1 DEF WriteText, WriteEnter, HandPcs
<1>5. UNCHANGED <<channel, permits, replies, accepting, producer, inputSpent>>
  BY DEF WriteText, WriteEnter
<1> QED
  BY <1>3, <1>4, <1>5 DEF Types, Writings

LEMMA TypesFinish ==
    ASSUME Types, Hands, Finish
    PROVE  Types'
<1>1. /\ hand \in [at : HandPcs, input : AllInputs \cup {NoInput}] /\ hand.input \in AllInputs
      /\ replies \in [pending : Seq(Nat), token_queued : BOOLEAN, accepted : Nat]
      /\ permits \in Balances
  BY DEF Types, Hands, Finish
<1>2. replies.pending \in Seq(Nat) /\ Returned(permits, hand.input) \in Balances
  BY <1>1, ReturnedType
<1>3. UNCHANGED <<channel, accepting, producer, written, inputSpent>>
  BY DEF Finish
<1>4. CASE hand.input.kind = "reply" /\ replies.pending # <<>>
  <2>1. Head(replies.pending) \in Nat /\ Tail(replies.pending) \in Seq(Nat)
    BY <1>2, <1>4
  <2>2. Input("reply", Head(replies.pending), 0) \in AllInputs
    BY <2>1, InputType DEF AllKinds
  <2>3. hand' \in [at : HandPcs, input : AllInputs \cup {NoInput}]
    BY <1>4, <2>2 DEF Finish, HandPcs
  <2>4. replies' \in [pending : Seq(Nat), token_queued : BOOLEAN, accepted : Nat]
    BY <1>1, <1>4, <2>1 DEF Finish
  <2> QED
    BY <1>3, <1>4, <2>3, <2>4 DEF Types, Finish
<1>5. CASE ~(hand.input.kind = "reply" /\ replies.pending # <<>>)
  <2>1. hand' = Free /\ permits' \in Balances
    BY <1>2, <1>5 DEF Finish
  <2>2. hand' \in [at : HandPcs, input : AllInputs \cup {NoInput}]
    BY <2>1 DEF Free, HandPcs
  <2>3. replies' = replies \/ replies' = [replies EXCEPT !.token_queued = FALSE]
    BY <1>5 DEF Finish
  <2>4. replies' \in [pending : Seq(Nat), token_queued : BOOLEAN, accepted : Nat]
    BY <1>1, <2>3
  <2> QED
    BY <1>3, <2>1, <2>2, <2>4 DEF Types
<1> QED
  BY <1>4, <1>5

LEMMA TypesEnds ==
    ASSUME Types, Ends
    PROVE  Types'
<1>1. /\ hand \in [at : HandPcs, input : AllInputs \cup {NoInput}] /\ permits \in Balances
      /\ replies \in [pending : Seq(Nat), token_queued : BOOLEAN, accepted : Nat]
      /\ channel \in Seq(AllInputs) /\ accepting \in BOOLEAN
  BY DEF Types
<1>2. hand' \in [at : HandPcs, input : AllInputs \cup {NoInput}]
  BY <1>1 DEF Ends, EndWriter, ClearReplies, DropChannel, HandPcs
<1>3. replies' \in [pending : Seq(Nat), token_queued : BOOLEAN, accepted : Nat]
  <2>1. replies' = replies \/ replies' = [replies EXCEPT !.pending = <<>>, !.token_queued = FALSE]
    BY DEF Ends, EndWriter, ClearReplies, DropChannel
  <2>2. <<>> \in Seq(Nat)
    OBVIOUS
  <2> QED
    BY <1>1, <2>1, <2>2
<1>4. channel' \in Seq(AllInputs) /\ accepting' \in BOOLEAN
  <2>1. channel' = channel \/ channel' = <<>>
    BY DEF Ends, EndWriter, ClearReplies, DropChannel
  <2>2. accepting' = accepting \/ accepting' = FALSE
    BY DEF Ends, EndWriter, ClearReplies, DropChannel
  <2>3. <<>> \in Seq(AllInputs)
    OBVIOUS
  <2> QED
    BY <1>1, <2>1, <2>2, <2>3
<1>5. permits' \in Balances
  <2>1. CASE DropChannel
    <3>1. hand.input \in AllInputs \cup {NoInput}
      BY <1>1
    <3> QED
      BY <1>1, <2>1, <3>1, DroppedReturns DEF DropChannel
  <2>2. CASE EndWriter \/ ClearReplies
    BY <1>1, <2>2 DEF EndWriter, ClearReplies
  <2> QED
    BY <2>1, <2>2 DEF Ends
<1>6. UNCHANGED <<producer, written, inputSpent>>
  BY DEF Ends, EndWriter, ClearReplies, DropChannel
<1> QED
  BY <1>2, <1>3, <1>4, <1>5, <1>6 DEF Types

LEMMA TypesStop ==
    ASSUME Types, RequestWriteStop
    PROVE  Types'
BY DEF Types, RequestWriteStop

LEMMA TypesStep ==
    ASSUME Types, Hands, [InputNext]_inputVars
    PROVE  Types'
BY TypesTakePlace, TypesProduces, TypesReply, TypesTake, TypesWrite, TypesFinish, TypesEnds,
   TypesStop DEF inputVars, Types, InputNext, WritesOut

(* What the writer thread has, and when nothing more is accepted.          *)
LEMMA HandsStep ==
    ASSUME Types, Hands, [InputNext]_inputVars
    PROVE  Hands'
<1>1. CASE UNCHANGED <<hand, accepting>> /\ inputSpent'.stopping = inputSpent.stopping
  BY <1>1 DEF Hands
<1>2. ASSUME NEW t \in Writers, NEW kind \in inputSpent.setting.kinds,
             NEW size \in inputSpent.setting.sizes, TakePlace(t, kind, size)
      PROVE  Hands'
  BY <1>2, <1>1 DEF TakePlace, Types
<1>3. CASE WriteTerminalReply
  BY <1>3, <1>1 DEF WriteTerminalReply, Types
<1>4. CASE Take
  BY <1>4 DEF Take, Types, Hands, Closed
<1>5. CASE WriteText
  BY <1>5 DEF Types, WriteText, Hands, Closed
<1>6. CASE WriteEnter
  BY <1>6 DEF Types, WriteEnter, Hands, Closed
<1>7. CASE Finish
  <2>1. CASE hand.input.kind = "reply" /\ replies.pending # <<>>
    <3>1. Head(replies.pending) \in Nat
      BY <2>1 DEF Types
    <3>2. Input("reply", Head(replies.pending), 0) \in AllInputs
      BY <3>1, InputType DEF AllKinds
    <3> QED
      BY <1>7, <2>1, <3>2 DEF Finish, Hands, Closed
  <2>2. CASE ~(hand.input.kind = "reply" /\ replies.pending # <<>>)
    BY <1>7, <2>2 DEF Finish, Hands, Closed, Free
  <2> QED
    BY <2>1, <2>2
<1>8. CASE EndWriter
  BY <1>8 DEF EndWriter, Types, Hands, Closed
<1>9. CASE ClearReplies
  BY <1>9 DEF ClearReplies, Types, Hands, Closed
<1>10. CASE DropChannel
  BY <1>10 DEF DropChannel, Hands, Closed
<1>11. CASE RequestWriteStop
  BY <1>11 DEF RequestWriteStop, Hands
<1>12. ASSUME NEW t \in Writers, Produces(t) PROVE Hands'
  BY <1>1, <1>12 DEF Produces, TakeBytes, LookAgain, TrySend
<1>13. CASE UNCHANGED inputVars
  BY <1>1, <1>13 DEF inputVars
<1> QED
  BY <1>2, <1>3, <1>4, <1>5, <1>6, <1>7, <1>8, <1>9, <1>10, <1>11, <1>12, <1>13
     DEF InputNext, WritesOut, Ends

-----------------------------------------------------------------------------
(* Every permit is that of an input there is                               *)

(* The numbers that Counts adds up.                                        *)
LEMMA CountTypes ==
    ASSUME Types, Counts, NEW w \in Weights
    PROVE  /\ Size(Threads(w)) \in Nat /\ Size(Along(channel, w)) \in Nat
           /\ Weight(hand.input)[w] \in Nat
           /\ IsFiniteSet(Cells(Threads(w))) /\ IsFiniteSet(Cells(Along(channel, w)))
BY FS_CardinalityType, WeightType DEF Counts, Size, Types

LEMMA PermitTypes ==
    ASSUME Types, Counts
    PROVE  \A w \in Permits : permits[w] \in Nat /\ w \in Weights
BY CountTypes DEF Weights, Counts

(* Permits stay exact when nothing that has one moves, ...                 *)
LEMMA CountsSame ==
    ASSUME Counts, UNCHANGED <<channel, permits, producer>>, hand'.input = hand.input
    PROVE  Counts'
  BY DEF Counts, Threads

(* ... when a thread takes some, or gives some back, ...                   *)
LEMMA CountsThread ==
    ASSUME Types, Counts, NEW t \in Writers, NEW p \in ThreadStates,
           producer' = [producer EXCEPT ![t] = p], UNCHANGED <<channel, hand>>,
           \A w \in Permits : permits'[w] = (permits[w] - Load(producer[t])[w]) + Load(p)[w]
    PROVE  Counts'
<1>1. ASSUME NEW w \in Weights
      PROVE  /\ IsFiniteSet(Cells(Threads(w)')) /\ IsFiniteSet(Cells(Along(channel', w)))
             /\ Size(Threads(w)') = (Size(Threads(w)) - Load(producer[t])[w]) + Load(p)[w]
             /\ Load(producer[t])[w] \in Nat /\ Load(p)[w] \in Nat
  BY CountTypes, ThreadsChange
<1>2. ASSUME NEW w \in Permits
      PROVE  permits'[w] = Size(Threads(w)') + Size(Along(channel', w)) + Weight(hand'.input)[w]
  <2>1. w \in Weights
    BY DEF Weights
  <2>2. Size(Threads(w)) \in Nat /\ Size(Along(channel, w)) \in Nat /\ Weight(hand.input)[w] \in Nat
    BY <2>1, CountTypes
  <2>3. permits[w] = Size(Threads(w)) + Size(Along(channel, w)) + Weight(hand.input)[w]
    BY DEF Counts
  <2> QED
    BY <1>1, <2>1, <2>2, <2>3
<1>3. Len(channel') = Size(Along(channel', "entries")) + Size(Along(channel', "controls"))
                        + Size(Along(channel', "replies"))
  BY DEF Counts
<1> QED
  BY <1>1, <1>2, <1>3 DEF Counts

(* ... and when an input joins the channel, whose sums grow by it.         *)
LEMMA ChannelGrows ==
    ASSUME Types, Counts, NEW x \in AllInputs, channel' = Append(channel, x)
    PROVE  /\ \A w \in Weights : /\ IsFiniteSet(Cells(Along(channel', w)))
                                 /\ Size(Along(channel', w)) = Size(Along(channel, w)) + Weight(x)[w]
                                 /\ Size(Along(channel, w)) \in Nat /\ Weight(x)[w] \in Nat
           /\ Len(channel') = Size(Along(channel', "entries")) + Size(Along(channel', "controls"))
                                + Size(Along(channel', "replies"))
<1>1. channel \in Seq(AllInputs)
  BY DEF Types
<1>2. ASSUME NEW w \in Weights
      PROVE  /\ IsFiniteSet(Cells(Along(channel', w)))
             /\ Size(Along(channel', w)) = Size(Along(channel, w)) + Weight(x)[w]
             /\ Size(Along(channel, w)) \in Nat /\ Weight(x)[w] \in Nat
  BY CountTypes, <1>1, AlongAppend, WeightType
<1>3. Len(channel') = Len(channel) + 1
  BY <1>1
<1>4. {"entries", "controls", "replies"} \subseteq Weights
  BY DEF Weights, Permits
<1>5. Weight(x)["entries"] + Weight(x)["controls"] + Weight(x)["replies"] = 1
  BY OfOneKind
<1>6. Len(channel) = Size(Along(channel, "entries")) + Size(Along(channel, "controls"))
                       + Size(Along(channel, "replies"))
  BY DEF Counts
<1>7. "entries" \in Weights /\ "controls" \in Weights /\ "replies" \in Weights
  BY <1>4
<1>8. /\ Size(Along(channel', "entries")) = Size(Along(channel, "entries")) + Weight(x)["entries"]
      /\ Size(Along(channel, "entries")) \in Nat /\ Weight(x)["entries"] \in Nat
  BY <1>2, <1>7
<1>9. /\ Size(Along(channel', "controls")) = Size(Along(channel, "controls")) + Weight(x)["controls"]
      /\ Size(Along(channel, "controls")) \in Nat /\ Weight(x)["controls"] \in Nat
  BY <1>2, <1>7
<1>10. /\ Size(Along(channel', "replies")) = Size(Along(channel, "replies")) + Weight(x)["replies"]
       /\ Size(Along(channel, "replies")) \in Nat /\ Weight(x)["replies"] \in Nat
  BY <1>2, <1>7
<1>11. Len(channel') = Size(Along(channel', "entries")) + Size(Along(channel', "controls"))
                        + Size(Along(channel', "replies"))
  <2> DEFINE e == Size(Along(channel, "entries"))
             c == Size(Along(channel, "controls"))
             r == Size(Along(channel, "replies"))
             we == Weight(x)["entries"]
             wc == Weight(x)["controls"]
             wr == Weight(x)["replies"]
  <2>1. e \in Nat /\ c \in Nat /\ r \in Nat /\ we \in Nat /\ wc \in Nat /\ wr \in Nat
    BY <1>8, <1>9, <1>10
  <2>2. we + wc + wr = 1 /\ Len(channel) = e + c + r
    BY <1>5, <1>6
  <2>3. /\ Size(Along(channel', "entries")) = e + we /\ Size(Along(channel', "controls")) = c + wc
        /\ Size(Along(channel', "replies")) = r + wr
    BY <1>8, <1>9, <1>10
  <2> HIDE DEF e, c, r, we, wc, wr
  <2>4. Len(channel') = e + c + r + 1
    BY <1>3, <2>2
  <2> QED
    BY <2>1, <2>2, <2>3, <2>4
<1> QED
  BY <1>2, <1>11

LEMMA CountsJoins ==
    ASSUME Types, Counts, NEW x \in AllInputs, channel' = Append(channel, x), hand'.input = hand.input,
           \A w \in Weights : IsFiniteSet(Cells(Threads(w)')),
           \A w \in Permits : /\ Size(Threads(w)') \in Nat
                              /\ permits'[w] = permits[w] + (Size(Threads(w)') - Size(Threads(w)))
                                                          + Weight(x)[w]
    PROVE  Counts'
<1>1. ASSUME NEW w \in Permits
      PROVE  permits'[w] = Size(Threads(w)') + Size(Along(channel', w)) + Weight(hand'.input)[w]
  <2>1. w \in Weights
    BY DEF Weights
  <2>2. Size(Threads(w)) \in Nat /\ Size(Along(channel, w)) \in Nat /\ Weight(hand.input)[w] \in Nat
    BY <2>1, CountTypes
  <2>3. permits[w] = Size(Threads(w)) + Size(Along(channel, w)) + Weight(hand.input)[w]
    BY DEF Counts
  <2>4. Size(Along(channel', w)) = Size(Along(channel, w)) + Weight(x)[w] /\ Weight(x)[w] \in Nat
    BY <2>1, ChannelGrows
  <2>5. Size(Threads(w)') \in Nat
    OBVIOUS
  <2> QED
    BY <2>2, <2>3, <2>4, <2>5
<1>2. /\ \A w \in Weights : IsFiniteSet(Cells(Along(channel', w)))
      /\ Len(channel') = Size(Along(channel', "entries")) + Size(Along(channel', "controls"))
                           + Size(Along(channel', "replies"))
  BY ChannelGrows
<1> QED
  BY <1>1, <1>2 DEF Counts

(* A thread's step: it takes a permit, or returns what it has.             *)
LEMMA CountsTakePlace ==
    ASSUME Types, Counts, NEW t \in Writers, NEW kind \in inputSpent.setting.kinds,
           NEW size \in inputSpent.setting.sizes, TakePlace(t, kind, size)
    PROVE  Counts'
<1> DEFINE x == Input(kind, inputSpent.writes + 1, size)
<1>1. kind \in {"keys", "submission", "control"} /\ size \in Nat /\ inputSpent.writes + 1 \in Nat
  <2>1. inputSpent.setting \in InputSettings /\ inputSpent.writes \in Nat
    BY DEF Types
  <2>2. inputSpent.setting.kinds \in SUBSET {"keys", "submission", "control"}
        /\ inputSpent.setting.sizes \in SUBSET Nat
    BY <2>1 DEF InputSettings
  <2> QED
    BY <2>1, <2>2
<1>2. x \in AllInputs
  BY <1>1, InputType DEF AllKinds
<1>3. UNCHANGED <<channel, hand>> /\ producer[t] = Idle /\ permits \in Balances
  BY DEF TakePlace, Types
<1>4. \A w \in Permits : Load(producer[t])[w] = 0 /\ permits[w] \in Nat /\ w \in Weights
  BY <1>3, IdleLoad, PermitTypes DEF Weights
<1> HIDE DEF x
<1>5. CASE /\ IsUser(x) /\ permits' = [permits EXCEPT !.entries = @ + 1]
           /\ producer' = [producer EXCEPT ![t] = [at |-> "placed", input |-> x]]
  <2> DEFINE p == [at |-> "placed", input |-> x]
  <2>1. p \in ThreadStates
    BY <1>2 DEF ThreadStates
  <2>2. Load(p)["entries"] = 1 /\ Load(p)["bytes"] = 0 /\ Load(p)["controls"] = 0
    BY <1>5 DEF Load, Weight, IsUser, IsControl
  <2>3. \A w \in Permits : permits'[w] = IF w = "entries" THEN permits[w] + 1 ELSE permits[w]
    BY <1>3, <1>5 DEF Balances, Permits
  <2> HIDE DEF p
  <2>4. \A w \in Permits : permits'[w] = (permits[w] - Load(producer[t])[w]) + Load(p)[w]
    BY <1>4, <2>2, <2>3 DEF Permits
  <2> QED
    BY <1>3, <1>5, <2>1, <2>4, CountsThread DEF p
<1>6. CASE /\ IsControl(x) /\ permits' = [permits EXCEPT !.controls = @ + 1]
           /\ producer' = [producer EXCEPT ![t] = [at |-> "permitted", input |-> x]]
  <2> DEFINE p == [at |-> "permitted", input |-> x]
  <2>1. p \in ThreadStates
    BY <1>2 DEF ThreadStates
  <2>2. Load(p)["entries"] = 0 /\ Load(p)["bytes"] = 0 /\ Load(p)["controls"] = 1
    BY <1>6 DEF Load, Weight, IsUser, IsControl
  <2>3. \A w \in Permits : permits'[w] = IF w = "controls" THEN permits[w] + 1 ELSE permits[w]
    BY <1>3, <1>6 DEF Balances, Permits
  <2> HIDE DEF p
  <2>4. \A w \in Permits : permits'[w] = (permits[w] - Load(producer[t])[w]) + Load(p)[w]
    BY <1>4, <2>2, <2>3 DEF Permits
  <2> QED
    BY <1>3, <1>6, <2>1, <2>4, CountsThread DEF p
<1>7. CASE UNCHANGED <<permits, producer>>
  BY <1>3, <1>7, CountsSame
<1> QED
  BY <1>5, <1>6, <1>7 DEF TakePlace, x

(* What a thread has that is past its place, and what that takes.          *)
LEMMA ProducerLoad ==
    ASSUME Types, NEW t \in Writers, producer[t] # Idle
    PROVE  /\ producer[t].input \in AllInputs /\ producer[t].input.kind # "reply"
           /\ producer[t].at # "idle" /\ producer[t] \in ThreadStates /\ HoldsPlace(producer[t])
  BY DEF Types, ThreadStates, HoldsPlace

LEMMA CountsReturns ==
    ASSUME Types, Counts, NEW t \in Writers, producer[t] # Idle, producer[t].at # "placed",
           producer' = [producer EXCEPT ![t] = Idle], permits' = Returned(permits, producer[t].input),
           UNCHANGED <<channel, hand>>
    PROVE  Counts'
<1> DEFINE x == producer[t].input
<1>1. x \in AllInputs /\ permits \in Balances
  BY ProducerLoad DEF Types
<1>2. \A w \in Weights : Load(producer[t])[w] = Weight(x)[w]
  BY FullLoad
<1> HIDE DEF x
<1>3. ASSUME NEW w \in Permits
      PROVE  permits'[w] = (permits[w] - Load(producer[t])[w]) + Load(Idle)[w]
  BY PermitTypes, <1>1, ReturnedIs, <1>2, IdleLoad, WeightType DEF x
<1> QED
  BY <1>3, IdleType, CountsThread

LEMMA CountsProduces ==
    ASSUME Types, Counts, NEW t \in Writers, Produces(t)
    PROVE  Counts'
<1> DEFINE x == producer[t].input
<1>1. producer[t] # Idle
  BY DEF Produces, TakeBytes, LookAgain, TrySend, Idle
<1>2. /\ x \in AllInputs /\ producer[t] \in ThreadStates /\ HoldsPlace(producer[t])
      /\ permits \in Balances /\ producer \in [Writers -> ThreadStates]
  BY <1>1, ProducerLoad DEF Types, ThreadStates
<1>3. \A w \in Permits : permits[w] \in Nat /\ w \in Weights
  BY PermitTypes
<1>4. CASE TakeBytes(t)
  <2>1. producer[t].at = "placed" /\ IsUser(x) /\ x.size \in Nat
    BY <1>2, <1>4 DEF TakeBytes, HoldsPlace, AllInputs
  <2>2. /\ Load(producer[t])["entries"] = 1 /\ Load(producer[t])["bytes"] = 0
        /\ Load(producer[t])["controls"] = 0
    BY <2>1 DEF Load, Weight, IsUser, IsControl
  <2>3. CASE /\ permits' = [permits EXCEPT !.bytes = @ + x.size]
             /\ producer' = [producer EXCEPT ![t].at = "permitted"]
    <3> DEFINE p == [at |-> "permitted", input |-> x]
    <3>1. producer' = [producer EXCEPT ![t] = p] /\ p \in ThreadStates
      <4>1. [producer[t] EXCEPT !.at = "permitted"] = p
        BY <1>2 DEF ThreadStates
      <4>2. p \in ThreadStates
        BY <1>2 DEF ThreadStates
      <4>3. producer' = [producer EXCEPT ![t] = [producer[t] EXCEPT !.at = "permitted"]]
        BY <2>3
      <4> HIDE DEF p
      <4> QED
        BY <4>1, <4>2, <4>3
    <3>2. Load(p)["entries"] = 1 /\ Load(p)["bytes"] = x.size /\ Load(p)["controls"] = 0
      BY <2>1 DEF Load, Weight, IsUser, IsControl
    <3>3. \A w \in Permits : permits'[w] = IF w = "bytes" THEN permits[w] + x.size ELSE permits[w]
      BY <1>2, <2>3 DEF Balances, Permits
    <3> HIDE DEF p, x
    <3>4. \A w \in Permits : permits'[w] = (permits[w] - Load(producer[t])[w]) + Load(p)[w]
      BY <1>3, <2>1, <2>2, <3>2, <3>3 DEF Permits
    <3>5. UNCHANGED <<channel, hand>>
      BY <1>4 DEF TakeBytes
    <3> QED
      BY <3>1, <3>4, <3>5, CountsThread
  <2>4. CASE /\ permits' = [permits EXCEPT !.entries = @ - 1]
             /\ producer' = [producer EXCEPT ![t] = Idle]
    <3>1. \A w \in Permits : permits'[w] = IF w = "entries" THEN permits[w] - 1 ELSE permits[w]
      BY <1>2, <2>4 DEF Balances, Permits
    <3>2. \A w \in Permits : Load(Idle)[w] = 0
      BY <1>3, IdleLoad
    <3> HIDE DEF x
    <3>3. \A w \in Permits : permits'[w] = (permits[w] - Load(producer[t])[w]) + Load(Idle)[w]
      BY <1>3, <2>2, <3>1, <3>2 DEF Permits
    <3>4. UNCHANGED <<channel, hand>>
      BY <1>4 DEF TakeBytes
    <3> QED
      BY <2>4, <3>3, <3>4, IdleType, CountsThread
  <2> QED
    BY <1>4, <2>3, <2>4 DEF TakeBytes
<1>5. CASE LookAgain(t)
  <2>1. producer[t].at = "permitted" /\ UNCHANGED <<channel, hand>>
    BY <1>5 DEF LookAgain
  <2>2. CASE producer' = [producer EXCEPT ![t].at = "sending"] /\ UNCHANGED permits
    <3> DEFINE p == [at |-> "sending", input |-> x]
    <3>1. producer' = [producer EXCEPT ![t] = p] /\ p \in ThreadStates
      <4>1. [producer[t] EXCEPT !.at = "sending"] = p
        BY <1>2 DEF ThreadStates
      <4>2. p \in ThreadStates
        BY <1>2 DEF ThreadStates
      <4>3. producer' = [producer EXCEPT ![t] = [producer[t] EXCEPT !.at = "sending"]]
        BY <2>2
      <4> HIDE DEF p
      <4> QED
        BY <4>1, <4>2, <4>3
    <3>2. \A w \in Weights : Load(p)[w] = Weight(x)[w] /\ Load(producer[t])[w] = Weight(x)[w]
      BY <2>1, FullLoad
    <3> HIDE DEF p, x
    <3>3. ASSUME NEW w \in Permits PROVE permits'[w] = (permits[w] - Load(producer[t])[w]) + Load(p)[w]
      BY <1>2, <1>3, WeightType, <3>2, <2>2
    <3> QED
      BY <2>1, <3>1, <3>3, CountsThread
  <2>3. CASE producer' = [producer EXCEPT ![t] = Idle] /\ permits' = Returned(permits, x)
    BY <1>1, <2>1, <2>3, CountsReturns
  <2> QED
    BY <1>5, <2>2, <2>3 DEF LookAgain
<1>6. CASE TrySend(t)
  <2>1. /\ producer[t].at = "sending" /\ UNCHANGED hand
        /\ producer' = [producer EXCEPT ![t] = Idle]
    BY <1>6 DEF TrySend
  <2>2. CASE channel' = Append(channel, x) /\ UNCHANGED permits
    <3>1. \A w \in Weights : Load(producer[t])[w] = Weight(x)[w]
      BY <2>1, FullLoad
    <3>2. ASSUME NEW w \in Weights
          PROVE  /\ IsFiniteSet(Cells(Threads(w)')) /\ Size(Threads(w)) \in Nat
                 /\ Size(Threads(w)') = Size(Threads(w)) - Weight(x)[w]
                 /\ Weight(x)[w] <= Size(Threads(w)) /\ Weight(x)[w] \in Nat
      <4>1. /\ IsFiniteSet(Cells(Threads(w)'))
            /\ Size(Threads(w)') = (Size(Threads(w)) - Load(producer[t])[w]) + Load(Idle)[w]
            /\ Size(Threads(w)) \in Nat /\ Load(producer[t])[w] <= Size(Threads(w))
            /\ Load(producer[t])[w] \in Nat
        BY <2>1, IdleType, ThreadsChange
      <4>2. Load(Idle)[w] = 0 /\ Load(producer[t])[w] = Weight(x)[w]
        BY <3>1, IdleLoad
      <4> HIDE DEF x
      <4> QED
        BY <4>1, <4>2
    <3> HIDE DEF x
    <3>3. ASSUME NEW w \in Permits
          PROVE  /\ Size(Threads(w)') \in Nat
                 /\ permits'[w] = permits[w] + (Size(Threads(w)') - Size(Threads(w))) + Weight(x)[w]
      BY <1>3, <2>2, <3>2
    <3>4. \A w \in Weights : IsFiniteSet(Cells(Threads(w)'))
      BY <3>2
    <3> QED
      BY <1>2, <2>1, <2>2, <3>3, <3>4, CountsJoins
  <2>3. CASE permits' = Returned(permits, x) /\ UNCHANGED channel
    BY <1>1, <2>1, <2>3, CountsReturns
  <2> QED
    BY <1>6, <2>2, <2>3 DEF TrySend
<1> QED
  BY <1>4, <1>5, <1>6 DEF Produces
(* A reply joins the channel without a permit.                             *)
LEMMA CountsReply ==
    ASSUME Types, Counts, WriteTerminalReply
    PROVE  Counts'
<1>1. UNCHANGED <<permits, producer, hand>> /\ replies.accepted + 1 \in Nat
  BY DEF WriteTerminalReply, Types
<1>2. CASE UNCHANGED channel
  BY <1>1, <1>2, CountsSame
<1>3. CASE channel' = Append(channel, Input("reply", replies.accepted + 1, 0))
  <2> DEFINE x == Input("reply", replies.accepted + 1, 0)
  <2>1. x \in AllInputs
    BY <1>1, InputType DEF AllKinds
  <2>2. \A w \in Permits : Weight(x)[w] = 0
    BY DEF Input, Weight, Permits, IsUser, IsControl
  <2>3. \A w \in Weights : Threads(w)' = Threads(w)
    BY <1>1 DEF Threads
  <2>4. \A w \in Weights : IsFiniteSet(Cells(Threads(w)')) /\ Size(Threads(w)') \in Nat
    BY <2>3, CountTypes
  <2> HIDE DEF x
  <2>5. ASSUME NEW w \in Permits
        PROVE  /\ Size(Threads(w)') \in Nat
               /\ permits'[w] = permits[w] + (Size(Threads(w)') - Size(Threads(w))) + Weight(x)[w]
    BY PermitTypes, <2>3, <2>4, <1>1, <2>2
  <2> QED
    BY <1>1, <1>3, <2>1, <2>4, <2>5, CountsJoins DEF x
<1> QED
  BY <1>2, <1>3 DEF WriteTerminalReply

(* The writer thread takes an input, with its permits.                     *)
LEMMA CountsTake ==
    ASSUME Types, Hands, Counts, Take
    PROVE  Counts'
<1> DEFINE x == Head(channel)
           rest == Tail(channel)
<1>1. /\ channel \in Seq(AllInputs) /\ channel # <<>> /\ x \in AllInputs
      /\ Len(rest) = Len(channel) - 1
  BY DEF Types, Take
<1>2. UNCHANGED <<permits, producer>> /\ channel' = rest /\ hand'.input = x /\ hand.input = NoInput
  BY DEF Take, Hands
<1> HIDE DEF x, rest
<1>3. ASSUME NEW w \in Weights
      PROVE  /\ IsFiniteSet(Cells(Along(rest, w))) /\ Size(Along(rest, w)) \in Nat
             /\ Size(Along(channel, w)) = Weight(x)[w] + Size(Along(rest, w))
             /\ Weight(x)[w] \in Nat
  BY CountTypes, <1>1, AlongTail, WeightType DEF x, rest
<1>4. \A w \in Weights : /\ IsFiniteSet(Cells(Threads(w))) /\ Size(Threads(w)) \in Nat
                         /\ Threads(w)' = Threads(w)
  BY <1>2, CountTypes DEF Threads
<1>5. ASSUME NEW w \in Permits
      PROVE  permits'[w] = Size(Threads(w)') + Size(Along(channel', w)) + Weight(hand'.input)[w]
  BY <1>2, NoWeight, <1>4, <1>3 DEF Weights, Counts
<1>6. Len(rest) = Size(Along(rest, "entries")) + Size(Along(rest, "controls"))
                        + Size(Along(rest, "replies"))
  <2>1. "entries" \in Weights /\ "controls" \in Weights /\ "replies" \in Weights
    BY DEF Weights, Permits
  <2> DEFINE e == Size(Along(rest, "entries"))
             c == Size(Along(rest, "controls"))
             r == Size(Along(rest, "replies"))
             we == Weight(x)["entries"]
             wc == Weight(x)["controls"]
             wr == Weight(x)["replies"]
  <2>2. e \in Nat /\ c \in Nat /\ r \in Nat /\ we \in Nat /\ wc \in Nat /\ wr \in Nat
    BY <1>3, <2>1
  <2>3. we + wc + wr = 1
    BY <1>1, OfOneKind
  <2>4. /\ Size(Along(channel, "entries")) = we + e /\ Size(Along(channel, "controls")) = wc + c
        /\ Size(Along(channel, "replies")) = wr + r
    BY <1>3, <2>1
  <2>5. Len(channel) = Size(Along(channel, "entries")) + Size(Along(channel, "controls"))
                         + Size(Along(channel, "replies"))
    BY DEF Counts
  <2> HIDE DEF e, c, r, we, wc, wr
  <2>6. Len(channel) = (we + e) + (wc + c) + (wr + r)
    BY <2>4, <2>5
  <2>7. Len(rest) = e + c + r
    BY <1>1, <2>2, <2>3, <2>6
  <2> QED
    BY <2>7 DEF e, c, r
<1>7. \A w \in Weights : IsFiniteSet(Cells(Threads(w)')) /\ IsFiniteSet(Cells(Along(channel', w)))
  BY <1>2, <1>3, <1>4
<1>8. Len(channel') = Size(Along(channel', "entries")) + Size(Along(channel', "controls"))
                        + Size(Along(channel', "replies"))
  BY <1>2, <1>6
<1> QED
  BY <1>5, <1>7, <1>8 DEF Counts

(* What it has written is dropped, and its permits given back; the replies *)
(* that it goes on with have none.                                         *)
LEMMA CountsFinish ==
    ASSUME Types, Hands, Counts, Finish
    PROVE  Counts'
<1>1. UNCHANGED <<channel, producer>> /\ permits \in Balances /\ hand.input \in AllInputs
  BY DEF Finish, Types, Hands
<1>2. \A w \in Permits : permits'[w] = (permits[w] - Weight(hand.input)[w]) + Weight(hand'.input)[w]
  <2>1. CASE hand.input.kind = "reply" /\ replies.pending # <<>>
    BY <2>1, PermitTypes DEF Finish, Input, Weight, Permits, IsUser, IsControl
  <2>2. CASE ~(hand.input.kind = "reply" /\ replies.pending # <<>>)
    BY <2>2, PermitTypes, <1>1, NoWeight, WeightType, ReturnedIs DEF Finish, Free
  <2> QED
    BY <2>1, <2>2
<1>3. ASSUME NEW w \in Permits
      PROVE  permits'[w] = Size(Threads(w)') + Size(Along(channel', w)) + Weight(hand'.input)[w]
  <2>1. w \in Weights
    BY DEF Weights
  <2>2. Size(Threads(w)) \in Nat /\ Size(Along(channel, w)) \in Nat /\ Weight(hand.input)[w] \in Nat
    BY <2>1, CountTypes
  <2>3. permits[w] = Size(Threads(w)) + Size(Along(channel, w)) + Weight(hand.input)[w]
    BY DEF Counts
  <2>4. Threads(w)' = Threads(w) /\ channel' = channel
    BY <1>1 DEF Threads
  <2>5. Weight(hand'.input)[w] \in Nat
    BY TypesFinish, <2>1, WeightType DEF Types
  <2> QED
    BY <1>2, <2>2, <2>3, <2>4, <2>5
<1>4. \A w \in Weights : Threads(w)' = Threads(w)
  BY <1>1 DEF Threads
<1> QED
  BY <1>1, <1>3, <1>4 DEF Counts

(* All that is left is dropped, and all permits but the threads' with it.  *)
LEMMA CountsDrop ==
    ASSUME Types, Counts, DropChannel
    PROVE  Counts'
<1>1. /\ UNCHANGED producer /\ channel' = <<>> /\ hand'.input = NoInput
      /\ channel \in Seq(AllInputs) /\ permits \in Balances /\ hand.input \in AllInputs \cup {NoInput}
  BY DEF DropChannel, Types
<1>2. \A w \in Permits : permits'[w] = (permits[w] - Weight(hand.input)[w]) - Size(Along(channel, w))
  BY <1>1, DroppedReturns DEF DropChannel
<1>3. ASSUME NEW w \in Weights
      PROVE  /\ Threads(w)' = Threads(w) /\ IsFiniteSet(Cells(Along(channel', w)))
             /\ Size(Along(channel', w)) = 0 /\ Weight(hand'.input)[w] = 0
  BY <1>1, AlongEmpty, NoWeight DEF Threads
<1>4. ASSUME NEW w \in Permits
      PROVE  permits'[w] = Size(Threads(w)') + Size(Along(channel', w)) + Weight(hand'.input)[w]
  BY CountTypes, <1>3, <1>2 DEF Weights, Counts
<1>5. Len(channel') = 0
  BY <1>1
<1>6. /\ Size(Along(channel', "entries")) = 0 /\ Size(Along(channel', "controls")) = 0
      /\ Size(Along(channel', "replies")) = 0
  BY <1>3 DEF Weights, Permits
<1>7. \A w \in Weights : IsFiniteSet(Cells(Threads(w)')) /\ IsFiniteSet(Cells(Along(channel', w)))
  BY <1>3, CountTypes
<1> QED
  BY <1>4, <1>5, <1>6, <1>7 DEF Counts

LEMMA CountsStep ==
    ASSUME Types, Hands, Counts, [InputNext]_inputVars
    PROVE  Counts'
BY CountsSame, CountsTakePlace, CountsProduces, CountsReply, CountsTake, CountsFinish, CountsDrop
   DEF inputVars, WriteText, WriteEnter, EndWriter, ClearReplies, Types, RequestWriteStop,
   InputNext, WritesOut, Ends

-----------------------------------------------------------------------------
(* The limits are kept                                                     *)
LEMMA LimitsLess ==
    ASSUME Types, Types', Limits, \A w \in Permits : permits'[w] <= permits[w]
    PROVE  Limits'
<1>1. permits \in Balances /\ permits' \in Balances
  BY DEF Types
<1>2. /\ permits'.entries <= permits.entries /\ permits'.bytes <= permits.bytes
      /\ permits'.controls <= permits.controls
  BY DEF Permits
<1>3. /\ permits.entries \in Int /\ permits.bytes \in Int /\ permits.controls \in Int
      /\ permits'.entries \in Int /\ permits'.bytes \in Int /\ permits'.controls \in Int
  BY <1>1, BalanceParts
<1>4. UserCapacity \in Int /\ InputBytes \in Int /\ ControlReserve \in Int
  BY InputAssumption
<1> QED
  BY <1>2, <1>3, <1>4 DEF Limits

(* Inputs that are dropped lower what is counted.                          *)
LEMMA ReturnedLess ==
    ASSUME NEW from \in Balances, NEW x \in AllInputs \cup {NoInput}
    PROVE  \A w \in Permits : Returned(from, x)[w] <= from[w]
BY BalanceParts, WeightType, ReturnedIs DEF Weights, Permits

LEMMA LimitsStep ==
    ASSUME Types, Hands, Counts, Limits, [InputNext]_inputVars
    PROVE  Limits'
<1>1. Types' /\ permits \in Balances
  BY TypesStep DEF Types
<1>2. permits.entries \in Int /\ permits.bytes \in Int /\ permits.controls \in Int
  BY <1>1, BalanceParts
<1>3. CASE UNCHANGED permits
  BY <1>3 DEF Limits
<1>4. UserCapacity \in Int /\ InputBytes \in Int /\ ControlReserve \in Int
  BY InputAssumption
<1>5. ASSUME NEW t \in Writers, NEW kind \in inputSpent.setting.kinds,
             NEW size \in inputSpent.setting.sizes, TakePlace(t, kind, size)
      PROVE  Limits'
  BY <1>1, <1>2, <1>4, <1>3, <1>5 DEF Balances, Limits, TakePlace
<1>6. ASSUME NEW x \in AllInputs \cup {NoInput}, permits' = Returned(permits, x) PROVE Limits'
  BY <1>1, <1>6, ReturnedLess, LimitsLess
<1>7. ASSUME NEW t \in Writers, Produces(t) PROVE Limits'
  BY <1>7, ProducerLoad, <1>6, <1>1, <1>2, <1>4, <1>3 DEF Produces, TakeBytes, LookAgain, TrySend,
     Idle, Balances, Limits
<1>8. CASE Finish
  BY <1>8, <1>3, <1>6 DEF Finish, Hands
<1>9. CASE DropChannel
  <2>1. ASSUME NEW w \in Permits PROVE permits'[w] <= permits[w]
    <3>1. channel \in Seq(AllInputs) /\ hand.input \in AllInputs \cup {NoInput}
      BY DEF Types
    <3>2. permits'[w] = (permits[w] - Weight(hand.input)[w]) - Size(Along(channel, w))
      BY <1>1, <1>9, <3>1, DroppedReturns DEF DropChannel
    <3>3. w \in Weights /\ permits[w] \in Nat
      BY PermitTypes
    <3>4. Weight(hand.input)[w] \in Nat /\ Size(Along(channel, w)) \in Nat
      BY <3>3, CountTypes
    <3> QED
      BY <3>2, <3>3, <3>4
  <2> QED
    BY <1>1, <2>1, LimitsLess
<1>10. CASE WriteTerminalReply \/ Take \/ WriteText \/ WriteEnter \/ EndWriter \/ ClearReplies \/ RequestWriteStop
  BY <1>3, <1>10 DEF WriteTerminalReply, Take, WriteText, WriteEnter, EndWriter, ClearReplies, RequestWriteStop
<1>11. CASE UNCHANGED inputVars
  BY <1>3, <1>11 DEF inputVars
<1> QED
  BY <1>5, <1>7, <1>8, <1>9, <1>10, <1>11 DEF InputNext, WritesOut, Ends

-----------------------------------------------------------------------------
(* The token stands for one reply                                          *)
LEMMA TokenKept ==
    ASSUME Token, Size(Along(channel', "replies")) = Size(Along(channel, "replies")),
           Weight(hand'.input).replies = Weight(hand.input).replies,
           replies'.token_queued = replies.token_queued,
           hand.at \in Closed => hand'.at \in Closed
    PROVE  Token'
  BY DEF Token

LEMMA TokenClosed ==
    ASSUME Token, hand'.at \in Closed,
           channel' = channel \/ Size(Along(channel', "replies")) = 0
    PROVE  Token'
  BY DEF Token

LEMMA ReplyWeight ==
    ASSUME NEW x \in AllInputs \cup {NoInput}
    PROVE  Weight(x).replies = (IF x.kind = "reply" THEN 1 ELSE 0) /\ Weight(x)["replies"] = Weight(x).replies
  BY DEF Weight

LEMMA TokenStep ==
    ASSUME Types, Hands, Counts, Token, [InputNext]_inputVars
    PROVE  Token'
<1> DEFINE r == Size(Along(channel, "replies"))
           s == Size(Along(channel', "replies"))
<1>1. "replies" \in Weights /\ r \in Nat /\ hand.input \in AllInputs \cup {NoInput} /\ channel \in Seq(AllInputs)
  BY CountTypes DEF Weights, Types
<1>2. CASE UNCHANGED <<channel, hand>> /\ replies'.token_queued = replies.token_queued
  BY <1>2, TokenKept
<1>3. ASSUME NEW t \in Writers, NEW kind \in inputSpent.setting.kinds,
             NEW size \in inputSpent.setting.sizes, TakePlace(t, kind, size)
      PROVE  Token'
  BY <1>2, <1>3 DEF TakePlace
<1>4. ASSUME NEW t \in Writers, Produces(t) PROVE Token'
  BY <1>2, <1>4, ProducerLoad, ReplyWeight, <1>1, ChannelGrows, TokenKept DEF Produces, TakeBytes,
     LookAgain, TrySend, Idle
<1>5. CASE WriteTerminalReply
  <2>1. CASE UNCHANGED channel /\ replies'.token_queued = replies.token_queued
    BY <1>2, <1>5, <2>1 DEF WriteTerminalReply
  <2>2. CASE /\ accepting /\ ~replies.token_queued
             /\ replies' = [replies EXCEPT !.token_queued = TRUE, !.accepted = replies.accepted + 1]
             /\ channel' = Append(channel, Input("reply", replies.accepted + 1, 0))
    <3> DEFINE x == Input("reply", replies.accepted + 1, 0)
    <3>1. x \in AllInputs
      BY InputType DEF Types, AllKinds
    <3>2. Weight(x)["replies"] = 1
      BY DEF Weight, Input
    <3>3. hand.at \notin Closed /\ UNCHANGED hand
      BY <1>5, <2>2 DEF Hands, WriteTerminalReply
    <3>4. replies'.token_queued = TRUE
      BY <2>2 DEF Types
    <3>5. r + Weight(hand.input).replies = 0 /\ Weight(hand.input).replies \in Nat
      BY <1>1, <2>2, <3>3, ReplyWeight DEF Token
    <3> HIDE DEF x
    <3>6. s = r + Weight(x)["replies"]
      BY <1>1, <2>2, <3>1, ChannelGrows DEF x
    <3>7. s = 1 /\ Weight(hand'.input).replies = 0
      BY <1>1, <3>2, <3>3, <3>5, <3>6
    <3> QED
      BY <3>3, <3>4, <3>7 DEF Token
  <2>3. replies \in [pending : Seq(Nat), token_queued : BOOLEAN, accepted : Nat]
    BY DEF Types
  <2> QED
    BY <1>5, <2>1, <2>2, <2>3 DEF WriteTerminalReply
<1>6. CASE Take
  BY <1>1, <1>6, ReplyWeight, CountTypes, AlongTail DEF Take, Hands, Closed, NoInput, Token
<1>7. CASE WriteText \/ WriteEnter
  BY <1>7, TokenKept DEF WriteText, WriteEnter, Types, Closed
<1>8. CASE Finish
  BY <1>8, TokenKept, ReplyWeight, <1>1 DEF Finish, Closed, Free, Input, Weight, Types, NoInput,
     Token
<1>9. CASE EndWriter \/ ClearReplies
  BY <1>9, TokenClosed DEF EndWriter, ClearReplies, Types, Closed
<1>10. CASE DropChannel
  BY <1>10, <1>1, AlongEmpty, TokenClosed DEF DropChannel, Closed
<1>11. CASE RequestWriteStop
  BY <1>2, <1>11 DEF RequestWriteStop
<1>12. CASE UNCHANGED inputVars
  BY <1>2, <1>12 DEF inputVars
<1> QED
  BY <1>3, <1>4, <1>5, <1>6, <1>7, <1>8, <1>9, <1>10, <1>11, <1>12 DEF InputNext, WritesOut, Ends

-----------------------------------------------------------------------------
(* What has been written                                                   *)
AnswersOf(s, n) == Cardinality({i \in 1..n : s[i].kind = "reply"})

(* One more is counted when a reply is written, and the rest stay.         *)
LEMMA AnswersAppend ==
    ASSUME NEW s \in Seq(Writings), NEW x \in Writings
    PROVE  /\ \A n \in 1..Len(s) : AnswersOf(Append(s, x), n) = AnswersOf(s, n)
           /\ AnswersOf(Append(s, x), Len(s) + 1) =
                AnswersOf(s, Len(s)) + (IF x.kind = "reply" THEN 1 ELSE 0)
           /\ AnswersOf(s, Len(s)) \in Nat
<1> DEFINE k == Len(s)
           t == Append(s, x)
           Those == {i \in 1..k : s[i].kind = "reply"}
<1>1. k \in Nat /\ t[k + 1] = x /\ \A i \in 1..k : t[i] = s[i]
  OBVIOUS
<1> HIDE DEF t
<1>2. ASSUME NEW n \in 1..k PROVE AnswersOf(t, n) = AnswersOf(s, n)
  <2>1. {i \in 1..n : t[i].kind = "reply"} = {i \in 1..n : s[i].kind = "reply"}
    BY <1>1
  <2> QED
    BY <2>1 DEF AnswersOf
<1>3. IsFiniteSet(Those) /\ Cardinality(Those) \in Nat
  <2>1. IsFiniteSet(1..k)
    BY <1>1, FS_Interval
  <2>2. Those \in SUBSET (1..k)
    OBVIOUS
  <2>3. IsFiniteSet(Those)
    BY <2>1, <2>2, FS_Subset
  <2> QED
    BY <2>3, FS_CardinalityType
<1>4. {i \in 1..(k + 1) : t[i].kind = "reply"} = Those \cup (IF x.kind = "reply" THEN {k + 1} ELSE {})
  BY <1>1
<1>5. k + 1 \notin Those
  BY <1>1
<1> HIDE DEF Those, k
<1>6. CASE x.kind = "reply"
  BY <1>3, <1>5, FS_AddElement, <1>2, <1>4, <1>6 DEF AnswersOf, Those, k, t
<1>7. CASE x.kind # "reply"
  <2>1. {i \in 1..(k + 1) : t[i].kind = "reply"} = Those
    BY <1>4, <1>7
  <2>2. AnswersOf(t, k + 1) = Cardinality(Those)
    BY <2>1 DEF AnswersOf
  <2>3. AnswersOf(s, k) = Cardinality(Those)
    BY DEF AnswersOf, Those
  <2> QED
    BY <1>2, <1>3, <1>7, <2>2, <2>3 DEF k, t
<1> QED
  BY <1>6, <1>7

LEMMA AnswersWritten ==
    ASSUME Types, NEW x \in Writings, written' = Append(written, x)
    PROVE  /\ \A n \in 1..Len(written) : Answers(n)' = Answers(n)
           /\ Len(written') = Len(written) + 1 /\ Len(written) \in Nat
           /\ Answers(Len(written))' = Answers(Len(written)) + (IF x.kind = "reply" THEN 1 ELSE 0)
           /\ Answers(Len(written)) \in Nat
<1>1. written \in Seq(Writings)
  BY DEF Types, Writings
<1>2. Len(written') = Len(written) + 1 /\ Len(written) \in Nat
  BY <1>1
<1>3. \A n : Answers(n) = AnswersOf(written, n)
  BY DEF Answers, AnswersOf
<1>4. \A n : Answers(n)' = AnswersOf(written', n)
  BY DEF Answers, AnswersOf
<1>5. Answers(Len(written))' = AnswersOf(written', Len(written'))
  BY DEF Answers, AnswersOf
<1>6. /\ \A n \in 1..Len(written) : AnswersOf(written', n) = AnswersOf(written, n)
      /\ AnswersOf(written', Len(written) + 1) =
           AnswersOf(written, Len(written)) + (IF x.kind = "reply" THEN 1 ELSE 0)
      /\ AnswersOf(written, Len(written)) \in Nat
  BY <1>1, AnswersAppend
<1> QED
  BY <1>2, <1>3, <1>4, <1>5, <1>6

(* What the writer thread writes is of what it has.                        *)
LEMMA Writes ==
    ASSUME Types, Hands, WriteText \/ WriteEnter
    PROVE  /\ hand.input \in AllInputs /\ \A part \in {"text", "enter"} : Part(hand.input, part) \in Writings
           /\ hand'.input = hand.input /\ hand'.at \in {"settling", "done"}
           /\ hand'.at = "settling" <=> WriteText /\ hand.input.kind = "submission"
BY DEF Types, Hands, WriteText, WriteEnter, Part, AllInputs, Writings

(* A submission's text is the last thing written only if its Enter follows.*)
LEMMA LastStep ==
    ASSUME Types, Hands, Last, [InputNext]_inputVars
    PROVE  Last'
<1>1. CASE UNCHANGED <<hand, written>> /\ (inputSpent.stopping => inputSpent'.stopping)
  BY <1>1 DEF Last, HalfWritten
<1>2. inputSpent'.stopping = inputSpent.stopping \/ inputSpent'.stopping
  BY DEF InputNext, Produces, TakePlace, TakeBytes, LookAgain, TrySend, WriteTerminalReply, WritesOut,
         Take, WriteText, WriteEnter, Finish, Ends, EndWriter, ClearReplies, DropChannel,
         RequestWriteStop, inputVars, Types
<1>3. written \in Seq(Writings)
  BY DEF Types, Writings
<1>4. CASE WriteText
  BY <1>4, Writes, <1>3 DEF WriteText, Part, Last, HalfWritten
<1>5. CASE WriteEnter
  BY <1>5, Writes, <1>2, <1>3 DEF WriteEnter, Hands, Types, Last, HalfWritten, Part
<1>6. CASE Finish
  BY <1>6, <1>2 DEF Finish, Free, Last, Closed, HalfWritten
<1>7. CASE Take
  BY <1>7 DEF Take, Last, HalfWritten, Closed
<1>8. CASE Ends
  BY <1>8 DEF Ends, EndWriter, ClearReplies, DropChannel, Closed, Types, Last, HalfWritten
<1>9. CASE RequestWriteStop \/ WriteTerminalReply \/ UNCHANGED inputVars
  BY <1>1, <1>2, <1>9 DEF RequestWriteStop, WriteTerminalReply, inputVars
<1>10. ASSUME NEW t \in Writers, Produces(t) PROVE Last'
  BY <1>1, <1>10 DEF Produces, TakeBytes, LookAgain, TrySend
<1>11. ASSUME NEW t \in Writers, NEW kind \in inputSpent.setting.kinds,
             NEW size \in inputSpent.setting.sizes, TakePlace(t, kind, size)
      PROVE  Last'
  BY <1>1, <1>2, <1>11 DEF TakePlace
<1> QED
  BY <1>4, <1>5, <1>6, <1>7, <1>8, <1>9, <1>10, <1>11 DEF InputNext, WritesOut

(* What reaches the terminal is whole: a reply is written in its turn.     *)
LEMMA TurnOf ==
    ASSUME Types, Hands, Counts, Token, Order, hand.at \notin Closed, hand.input.kind = "reply"
    PROVE  /\ replies.token_queued /\ hand.input.id = Turn /\ Size(Along(channel, "replies")) = 0
           /\ \A i \in 1..Len(replies.pending) : replies.pending[i] = Turn + i
           /\ replies.accepted = Turn + Len(replies.pending)
BY CountTypes DEF Weight, Token, Weights, Order

LEMMA WrittenStep ==
    ASSUME Types, Hands, Counts, Token, Order, Last, WrittenWhole, [InputNext]_inputVars
    PROVE  WrittenWhole'
<1>1. written \in Seq(Writings)
  BY DEF Types, Writings
<1>2. CASE UNCHANGED written
  BY <1>2 DEF WrittenWhole, Answers
<1>3. ASSUME NEW x \in Writings, written' = Append(written, x),
             x.kind = "reply" => x.id = Answers(Len(written)) + 1,
             HalfWritten \/ x.part = "enter" =>
               written # <<>> /\ x = [written[Len(written)] EXCEPT !.part = "enter"]
                 /\ written[Len(written)].part = "text"
      PROVE  WrittenWhole'
  <2> DEFINE k == Len(written)
  <2>1. /\ k \in Nat /\ written'[k + 1] = x /\ \A i \in 1..k : written'[i] = written[i]
        /\ DOMAIN written' = 1..(k + 1) /\ DOMAIN written = 1..k /\ Len(written') = k + 1
    BY <1>1, <1>3
  <2>2. /\ \A i \in 1..k : Answers(i)' = Answers(i)
        /\ x.kind = "reply" => Answers(Len(written))' = Answers(k) + 1
    BY <1>3, AnswersWritten
  <2>3. Answers(Len(written))' = AnswersOf(written', k + 1)
    BY <2>1 DEF Answers, AnswersOf
  <2> SUFFICES ASSUME NEW i \in 1..(k + 1)
               PROVE  /\ written'[i].kind = "reply" => written'[i].id = Answers(i)'
                      /\ written'[i].part = "enter" =>
                           i > 1 /\ written'[i - 1] = [written'[i] EXCEPT !.part = "text"]
                      /\ written'[i].kind = "submission" /\ written'[i].part = "text" /\ i < Len(written') =>
                           written'[i + 1] = [written'[i] EXCEPT !.part = "enter"]
    BY <2>1 DEF WrittenWhole
  <2>4. CASE i = k + 1
    <3>1. Answers(i)' = AnswersOf(written', i)
      BY DEF Answers, AnswersOf
    <3>2. written'[i].kind = "reply" => written'[i].id = Answers(i)'
      BY <1>3, <2>1, <2>2, <2>3, <2>4, <3>1
    <3>3. ASSUME x.part = "enter"
          PROVE  i > 1 /\ written'[i - 1] = [written'[i] EXCEPT !.part = "text"]
      <4>1. written # <<>> /\ x = [written[k] EXCEPT !.part = "enter"] /\ written[k].part = "text"
        BY <1>3, <3>3
      <4>2. k \in 1..k /\ written[k] \in Writings
        BY <1>1, <2>1, <4>1
      <4>3. [x EXCEPT !.part = "text"] = written[k]
        BY <4>1, <4>2 DEF Writings
      <4>4. i > 1 /\ i - 1 = k
        BY <2>1, <2>4, <4>2
      <4> QED
        BY <2>1, <2>4, <4>2, <4>3, <4>4
    <3>4. ~(i < Len(written'))
      BY <2>1, <2>4
    <3> QED
      BY <2>1, <2>4, <3>2, <3>3, <3>4
  <2>5. CASE i \in 1..k
    BY <2>1, <2>2, <2>5, <1>1, <1>3 DEF WrittenWhole, HalfWritten
  <2> QED
    BY <2>1, <2>4, <2>5
<1>4. CASE WriteText
  BY <1>4, Writes, TurnOf, <1>3 DEF WriteText, Part, Last, Closed, Turn
<1>5. CASE WriteEnter /\ ~inputSpent.stopping
  <2> DEFINE x == Part(hand.input, "enter")
             y == Part(hand.input, "text")
  <2>1. written' = Append(written, x) /\ x \in Writings /\ hand.at = "settling"
    BY <1>5, Writes DEF WriteEnter
  <2>2. written # <<>> /\ written[Len(written)] = y
    BY <2>1 DEF Last
  <2>3. x = [y EXCEPT !.part = "enter"] /\ y.part = "text"
    BY DEF Part
  <2>4. x.kind # "reply"
    BY <2>1 DEF Hands, Part
  <2> HIDE DEF x, y
  <2> QED
    BY <1>3, <2>1, <2>2, <2>3, <2>4
<1>6. CASE WriteEnter /\ inputSpent.stopping
  BY <1>2, <1>6 DEF WriteEnter
<1>7. CASE Take \/ Finish \/ Ends \/ RequestWriteStop \/ WriteTerminalReply \/ UNCHANGED inputVars
  BY <1>2, <1>7 DEF Take, Finish, Ends, EndWriter, ClearReplies, DropChannel, RequestWriteStop,
                    WriteTerminalReply, inputVars
<1>8. ASSUME NEW t \in Writers, Produces(t) PROVE WrittenWhole'
  BY <1>2, <1>8 DEF Produces, TakeBytes, LookAgain, TrySend
<1>9. ASSUME NEW t \in Writers, NEW kind \in inputSpent.setting.kinds,
             NEW size \in inputSpent.setting.sizes, TakePlace(t, kind, size)
      PROVE  WrittenWhole'
  BY <1>2, <1>9 DEF TakePlace
<1> QED
  BY <1>4, <1>5, <1>6, <1>7, <1>8, <1>9 DEF InputNext, WritesOut

-----------------------------------------------------------------------------
(* The replies keep their order                                            *)
LEMMA OrderKept ==
    ASSUME Order, UNCHANGED replies, Turn' = Turn, Answers(Len(written))' \in Nat,
           ~replies.token_queued => Answers(Len(written))' = Answers(Len(written)),
           hand.at \in Closed => hand'.at \in Closed,
           hand.at \notin Closed /\ replies.token_queued =>
             /\ \A i \in 1..Len(channel') : channel'[i].kind = "reply" => channel'[i].id = Turn
             /\ hand'.input.kind = "reply" => hand'.input.id = Turn
    PROVE  Order'
  BY DEF Order

LEMMA OrderClosed ==
    ASSUME Order, hand'.at \in Closed, UNCHANGED written
    PROVE  Order'
BY DEF Answers, Order

(* Where there is no room for one there is no reply.                       *)
LEMMA NoReplies ==
    ASSUME Types, Counts, Size(Along(channel, "replies")) = 0
    PROVE  \A i \in 1..Len(channel) : channel[i].kind # "reply"
<1>1. channel \in Seq(AllInputs) /\ "replies" \in Weights
  BY DEF Types, Weights
<1>2. IsFiniteSet(Cells(Along(channel, "replies")))
  BY <1>1, CountTypes
<1>3. ASSUME NEW i \in 1..Len(channel) PROVE channel[i].kind # "reply"
  <2>1. Weight(channel[i])["replies"] <= 0
    BY <1>1, <1>2, AlongMember
  <2> QED
    BY <2>1 DEF Weight
<1> QED
  BY <1>3

LEMMA OrderReply ==
    ASSUME Types, Hands, Counts, Token, Order, WriteTerminalReply
    PROVE  Order'
<1> DEFINE reply == replies.accepted + 1
           N == Answers(Len(written))
<1>1. /\ UNCHANGED <<written, hand, accepting, permits, producer>>
      /\ replies \in [pending : Seq(Nat), token_queued : BOOLEAN, accepted : Nat]
      /\ channel \in Seq(AllInputs) /\ N \in Nat
  BY DEF WriteTerminalReply, Types, Order
<1>2. Turn' = Turn /\ Answers(Len(written))' = N
  BY <1>1 DEF Turn, Answers
<1>3. Turn \in Nat
  BY <1>1 DEF Turn
<1>4. CASE /\ accepting /\ replies.token_queued /\ UNCHANGED channel
           /\ replies' = [replies EXCEPT !.pending = Append(@, reply), !.accepted = reply]
  BY <1>4, <1>1, <1>3, <1>2 DEF Hands, Order
<1>5. CASE /\ accepting /\ ~replies.token_queued
           /\ replies' = [replies EXCEPT !.token_queued = TRUE, !.accepted = reply]
           /\ channel' = Append(channel, Input("reply", reply, 0))
  <2>1. hand.at \notin Closed
    BY <1>5 DEF Hands
  <2>2. replies.pending = <<>> /\ replies.accepted = N
    BY <1>5, <2>1 DEF Order
  <2>3. Size(Along(channel, "replies")) \in Nat /\ hand.input \in AllInputs \cup {NoInput}
    BY CountTypes DEF Types, Weights
  <2>4. Weight(hand.input).replies \in Nat
    BY <2>3, ReplyWeight
  <2>5. Size(Along(channel, "replies")) = 0 /\ Weight(hand.input).replies = 0
    BY <1>5, <2>1, <2>3, <2>4 DEF Token
  <2>6. hand.input.kind # "reply"
    BY <2>3, <2>5, ReplyWeight
  <2>7. Turn = reply
    BY <1>1, <2>2, <2>6 DEF Turn
  <2>8. \A i \in 1..Len(channel) : channel[i].kind # "reply"
    BY <2>5, NoReplies
  <2>9. \A i \in 1..Len(channel') : channel'[i].kind = "reply" => channel'[i].id = Turn
    BY <1>1, InputType, <1>5, <2>7, <2>8 DEF AllKinds, Input
  <2>10. replies'.pending = <<>> /\ replies'.accepted = reply /\ replies'.token_queued
    BY <1>1, <1>5, <2>2
  <2>11. /\ \A i \in 1..Len(replies'.pending) : replies'.pending[i] = Turn' + i
         /\ replies'.accepted = Turn' + Len(replies'.pending)
    BY <1>2, <1>3, <2>7, <2>10
  <2>12. hand'.input.kind # "reply"
    BY <1>1, <2>6
  <2> HIDE DEF N, reply
  <2> QED
    BY <1>1, <1>2, <2>9, <2>10, <2>11, <2>12 DEF Order
<1>6. CASE UNCHANGED <<channel, replies>>
  BY <1>1, <1>2, <1>6, OrderKept DEF Order
<1> QED
  BY <1>4, <1>5, <1>6 DEF WriteTerminalReply

(* The token is taken in its turn.                                         *)
LEMMA OrderTake ==
    ASSUME Types, Hands, Order, Take
    PROVE  Order'
<1>1. /\ UNCHANGED <<written, replies>> /\ channel \in Seq(AllInputs) /\ channel # <<>>
      /\ channel' = Tail(channel) /\ hand'.input = Head(channel) /\ hand.input = NoInput
      /\ hand.at = "free" /\ hand'.at = "holding"
  BY DEF Take, Types, Hands
<1>2. Turn' = Turn /\ Answers(Len(written))' = Answers(Len(written))
  BY <1>1 DEF Turn, Answers
<1>3. /\ Head(channel) = channel[1] /\ 1 \in 1..Len(channel)
      /\ \A i \in 1..Len(Tail(channel)) : Tail(channel)[i] = channel[i + 1] /\ i + 1 \in 1..Len(channel)
  BY <1>1
<1>4. ASSUME hand.at \notin Closed, replies.token_queued
      PROVE  /\ \A i \in 1..Len(channel') : channel'[i].kind = "reply" => channel'[i].id = Turn
             /\ hand'.input.kind = "reply" => hand'.input.id = Turn
  BY <1>4, <1>1, <1>3 DEF Order
<1>5. Answers(Len(written))' \in Nat
  BY <1>2 DEF Order
<1> QED
  BY <1>1, <1>2, <1>4, <1>5, OrderKept DEF Closed

(* A reply that is written is the next, and nothing else counts as one.    *)
LEMMA OrderWrite ==
    ASSUME Types, Hands, Counts, Token, Order, WriteText \/ WriteEnter
    PROVE  Order'
<1>1. /\ UNCHANGED <<channel, replies>> /\ hand'.input = hand.input /\ hand'.at \in {"settling", "done"}
      /\ hand.at \in {"holding", "settling"}
  BY Writes DEF WriteText, WriteEnter
<1>2. Answers(Len(written)) \in Nat
  BY DEF Order
<1>3. ASSUME NEW x \in Writings, written' = Append(written, x), x.kind = hand.input.kind,
             hand'.at = "settling" => hand.input.kind = "submission"
      PROVE  Order'
  <2>1. Answers(Len(written))' = Answers(Len(written)) + (IF x.kind = "reply" THEN 1 ELSE 0)
    BY <1>3, AnswersWritten
  <2>2. CASE hand.input.kind = "reply"
    BY <1>1, <1>3, <2>1, <2>2, TurnOf, <1>2, OrderKept DEF Turn, Closed, Order
  <2>3. CASE hand.input.kind # "reply"
    <3>1. Answers(Len(written))' = Answers(Len(written)) + 0
      BY <1>3, <2>1, <2>3
    <3>2. Turn = Answers(Len(written)) + 1 /\ Turn' = Answers(Len(written))' + 1
      BY <1>1, <2>3 DEF Turn
    <3>3. Turn' = Turn /\ Answers(Len(written))' \in Nat /\ Answers(Len(written))' = Answers(Len(written))
      BY <1>2, <3>1, <3>2
    <3> QED
      BY <1>1, <3>3, OrderKept DEF Closed, Order
  <2> QED
    BY <2>2, <2>3
<1>4. CASE WriteText
  BY <1>4, Writes, <1>3 DEF WriteText, Part
<1>5. CASE WriteEnter
  <2> DEFINE x == Part(hand.input, "enter")
  <2>1. x \in Writings /\ x.kind = hand.input.kind /\ hand.input.kind = "submission"
    BY <1>5, Writes DEF WriteEnter, Part, Hands
  <2>2. written' = Append(written, x) \/ written' = written
    BY <1>5 DEF WriteEnter
  <2> HIDE DEF x
  <2>3. CASE written' = Append(written, x)
    BY <1>3, <2>1, <2>3
  <2>4. CASE written' = written
    BY <1>1, <2>1, <2>4, <1>2, OrderKept DEF Turn, Answers, Closed, Order
  <2> QED
    BY <2>2, <2>3, <2>4
<1> QED
  BY <1>4, <1>5

(* The next of those that wait follows, or the token goes.                 *)
LEMMA OrderFinish ==
    ASSUME Types, Hands, Counts, Token, Order, Finish
    PROVE  Order'
<1> DEFINE N == Answers(Len(written))
<1>1. /\ UNCHANGED <<channel, written>> /\ hand.at = "done" /\ hand.at \notin Closed /\ N \in Nat
      /\ replies \in [pending : Seq(Nat), token_queued : BOOLEAN, accepted : Nat]
  BY DEF Finish, Closed, Order, Types
<1>2. Answers(Len(written))' = N
  BY <1>1 DEF Answers
<1>3. CASE hand.input.kind = "reply" /\ replies.pending # <<>>
  <2> DEFINE old == replies.pending
  <2>1. /\ replies.token_queued /\ Size(Along(channel, "replies")) = 0
        /\ \A i \in 1..Len(old) : old[i] = Turn + i
        /\ replies.accepted = Turn + Len(old)
    BY <1>1, <1>3, TurnOf
  <2>2. Turn = N + 0
    BY <1>1, <1>3 DEF Turn
  <2>3. /\ hand' = [at |-> "holding", input |-> Input("reply", Head(old), 0)]
        /\ replies' = [replies EXCEPT !.pending = Tail(@)]
    BY <1>1, <1>3 DEF Finish
  <2>4. old \in Seq(Nat) /\ old # <<>>
    BY <1>1, <1>3
  <2>5. replies'.pending = Tail(old) /\ replies'.accepted = replies.accepted
        /\ replies'.token_queued = replies.token_queued
    BY <1>1, <2>3
  <2>6. hand'.at = "holding" /\ hand'.input.id = Head(old) /\ hand'.input.kind = "reply"
    BY <2>3 DEF Input
  <2> HIDE DEF old
  <2>7. Turn' = N + 1
    BY <2>6, <1>2 DEF Turn
  <2>8. /\ Head(old) = old[1] /\ 1 \in 1..Len(old) /\ Len(Tail(old)) = Len(old) - 1
        /\ \A i \in 1..Len(Tail(old)) : Tail(old)[i] = old[i + 1] /\ i + 1 \in 1..Len(old)
    BY <2>4
  <2> HIDE DEF N
  <2>9. Head(old) = N + 1
    BY <1>1, <2>1, <2>2, <2>8
  <2>10. \A i \in 1..Len(replies'.pending) : replies'.pending[i] = Turn' + i
    BY <1>1, <2>1, <2>2, <2>5, <2>7, <2>8
  <2>11. replies'.accepted = Turn' + Len(replies'.pending)
    BY <2>4, <1>1, <2>1, <2>2, <2>5, <2>7
  <2>12. \A i \in 1..Len(channel') : channel'[i].kind # "reply"
    BY <1>1, <2>1, NoReplies
  <2>13. hand'.input.kind = "reply" => hand'.input.id = Turn'
    BY <2>6, <2>7, <2>9
  <2> QED
    BY <1>1, <1>2, <2>1, <2>5, <2>10, <2>11, <2>12, <2>13 DEF Order
<1>4. CASE hand.input.kind = "reply" /\ replies.pending = <<>>
  BY <1>1, <1>4, TurnOf, <1>2 DEF Turn, Finish, Order
<1>5. CASE hand.input.kind # "reply"
  BY <1>5, <1>1, <1>2, OrderKept DEF Finish, Free, NoInput, Turn, Order
<1> QED
  BY <1>3, <1>4, <1>5

LEMMA OrderStep ==
    ASSUME Types, Hands, Counts, Token, Order, [InputNext]_inputVars
    PROVE  Order'
<1>1. CASE UNCHANGED <<channel, replies, hand, written>>
  BY <1>1, OrderKept DEF Turn, Answers, Order
<1>2. ASSUME NEW t \in Writers, TrySend(t), channel' = Append(channel, producer[t].input) PROVE Order'
  BY <1>2, ProducerLoad, OrderKept DEF TrySend, Idle, Types, Order, Turn, Answers
<1>3. ASSUME NEW t \in Writers, Produces(t) PROVE Order'
  BY <1>1, <1>2, <1>3 DEF Produces, TakeBytes, LookAgain, TrySend
<1>4. ASSUME NEW t \in Writers, NEW kind \in inputSpent.setting.kinds,
             NEW size \in inputSpent.setting.sizes, TakePlace(t, kind, size)
      PROVE  Order'
  BY <1>1, <1>4 DEF TakePlace
<1>5. CASE Ends
  BY <1>5, OrderClosed DEF Ends, EndWriter, ClearReplies, DropChannel, Closed, Types
<1>6. CASE RequestWriteStop \/ UNCHANGED inputVars
  BY <1>1, <1>6 DEF RequestWriteStop, inputVars
<1> QED
  BY <1>3, <1>4, <1>5, <1>6, OrderReply, OrderTake, OrderWrite, OrderFinish DEF InputNext, WritesOut

-----------------------------------------------------------------------------
(* Whoever is counted: the inputs that have a permit are as many           *)
Marked(label, f) == {<<label, x>> : x \in {y \in DOMAIN f : f[y] = 1}}

(* Where every number is 0 or 1, the sum is how many are 1.                *)
LEMMA MarkedSize ==
    ASSUME NEW label, NEW S, NEW f \in [S -> {0, 1}], IsFiniteSet(Cells(f))
    PROVE  IsFiniteSet(Marked(label, f)) /\ Cardinality(Marked(label, f)) = Size(f)
<1> DEFINE C == Cells(f)
           M == Marked(label, f)
           g == [c \in C |-> <<label, c[1]>>]
<1>1. ASSUME NEW c \in C PROVE \E x \in S : f[x] = 1 /\ c = <<x, 1>>
  BY CellOf
<1>2. ASSUME NEW x \in S, f[x] = 1 PROVE <<x, 1>> \in C
  BY <1>2, CellOf
<1>3. \A m : m \in M <=> \E x \in S : f[x] = 1 /\ m = <<label, x>>
  BY DEF Marked
<1> HIDE DEF C, M
<1>4. g \in [C -> M]
  BY <1>1, <1>3
<1>5. \A c \in C : \A d \in C : g[c] = g[d] => c = d
  BY <1>1
<1>6. \A m \in M : \E c \in C : g[c] = m
  <2>1. ASSUME NEW m \in M PROVE \E c \in C : g[c] = m
    <3>1. PICK x \in S : f[x] = 1 /\ m = <<label, x>>
      BY <1>3
    <3>2. <<x, 1>> \in C
      BY <1>2, <3>1
    <3> QED
      BY <3>1, <3>2
  <2> QED
    BY <2>1
<1> HIDE DEF g
<1>7. g \in Bijection(C, M)
  BY <1>4, <1>5, <1>6 DEF Bijection, Injection, IsInjective, Surjection
<1>8. ExistsBijection(C, M)
  BY <1>7 DEF ExistsBijection
<1>9. IsFiniteSet(M) /\ Cardinality(M) = Cardinality(C)
  BY <1>8, FS_Bijection DEF C
<1> QED
  BY <1>9 DEF C, M, Size

(* Three disjoint sets.                                                    *)
LEMMA ThreeParts ==
    ASSUME NEW A, NEW B, NEW C, IsFiniteSet(A), IsFiniteSet(B), IsFiniteSet(C),
           A \cap B = {}, A \cap C = {}, B \cap C = {}
    PROVE  Cardinality(A \cup B \cup C) = Cardinality(A) + Cardinality(B) + Cardinality(C)
<1> DEFINE D == A \cup B
<1>1. /\ IsFiniteSet(D)
      /\ Cardinality(D) = Cardinality(A) + Cardinality(B) - Cardinality(A \cap B)
  BY FS_Union
<1>2. D \cap C = {} /\ A \cup B \cup C = D \cup C
  OBVIOUS
<1> HIDE DEF D
<1>3. Cardinality(D \cup C) = Cardinality(D) + Cardinality(C) - Cardinality(D \cap C)
  BY <1>1, FS_Union
<1>4. Cardinality(A \cap B) = 0 /\ Cardinality(D \cap C) = 0
  BY <1>2, FS_EmptySet
<1>5. Cardinality(A) \in Nat /\ Cardinality(B) \in Nat /\ Cardinality(C) \in Nat
  BY FS_CardinalityType
<1>6. Cardinality(D) = Cardinality(A) + Cardinality(B)
  BY <1>1, <1>4, <1>5
<1>7. Cardinality(D \cup C) = Cardinality(D) + Cardinality(C)
  BY <1>1, <1>3, <1>4, <1>5, FS_CardinalityType
<1> QED
  BY <1>2, <1>6, <1>7

(* The permits of a kind that takes one at a time.                         *)
LEMMA PermitsOf ==
    ASSUME Types, Hands, Counts, NEW w \in {"entries", "controls"},
           NEW P, \A e : e \in P <=>
             \/ \E t \in Writers : Load(producer[t])[w] = 1 /\ e = <<"producer", t>>
             \/ \E i \in 1..Len(channel) : Weight(channel[i])[w] = 1 /\ e = <<"channel", i>>
             \/ Weight(hand.input)[w] = 1 /\ e = <<"hand", 1>>
    PROVE  permits[w] = Cardinality(P)
<1> DEFINE f == Threads(w)
           a == Along(channel, w)
           h == [i \in {1} |-> Weight(hand.input)[w]]
           A == Marked("producer", f)
           B == Marked("channel", a)
           C == Marked("hand", h)
<1>1. w \in Permits /\ w \in Weights
  BY DEF Permits, Weights
<1>2. \A x : Weight(x)[w] \in {0, 1}
  BY DEF Weight
<1>3. \A p : Load(p)[w] \in {0, 1}
  BY <1>2 DEF Load, Weight
<1>4. f \in [Writers -> {0, 1}] /\ \A t \in Writers : f[t] = Load(producer[t])[w]
  BY <1>3 DEF Threads
<1>5. a \in [1..Len(channel) -> {0, 1}] /\ \A i \in 1..Len(channel) : a[i] = Weight(channel[i])[w]
  BY <1>2 DEF Along
<1>6. h \in [{1} -> {0, 1}] /\ h[1] = Weight(hand.input)[w]
  BY <1>2
<1>7. IsFiniteSet(Cells(f)) /\ IsFiniteSet(Cells(a))
  BY <1>1, CountTypes
<1> HIDE DEF f, a
<1>8. IsFiniteSet(A) /\ Cardinality(A) = Size(f)
  BY <1>4, <1>7, MarkedSize
<1>9. IsFiniteSet(B) /\ Cardinality(B) = Size(a)
  BY <1>5, <1>7, MarkedSize
<1>10. IsFiniteSet(C) /\ Cardinality(C) = h[1]
  <2>1. CASE h[1] = 0
    <3>1. C = {}
      BY <2>1 DEF Marked
    <3> QED
      BY <2>1, <3>1, FS_EmptySet
  <2>2. CASE h[1] = 1
    <3>1. C = {<<"hand", 1>>}
      BY <2>2 DEF Marked
    <3> QED
      BY <2>2, <3>1, FS_Singleton
  <2> QED
    BY <1>6, <2>1, <2>2
<1>11. A \cap B = {} /\ A \cap C = {} /\ B \cap C = {}
  BY DEF Marked
<1>12. P = A \cup B \cup C
  BY <1>4, <1>5, <1>6 DEF Marked
<1> HIDE DEF A, B, C, h
<1>13. Cardinality(P) = Size(f) + Size(a) + h[1]
  BY <1>8, <1>9, <1>10, <1>11, <1>12, ThreeParts
<1>14. permits[w] = Size(Threads(w)) + Size(Along(channel, w)) + Weight(hand.input)[w]
  BY <1>1 DEF Counts
<1> QED
  BY <1>6, <1>13, <1>14 DEF f, a

LEMMA PermittedExact ==
    ASSUME Types, Hands, Counts
    PROVE  /\ permits.entries = Cardinality(Permitted(IsUser))
           /\ permits.controls = Cardinality(Permitted(IsControl))
<1>1. ASSUME NEW t \in Writers
      PROVE  producer[t].at \in {"placed", "permitted", "sending"} \/ producer[t].input = NoInput
  BY DEF Types, HoldsPlace, Idle
<1>2. hand.at \notin {"free", "ended"} \/ hand.input = NoInput
  BY DEF Hands
<1>3. DOMAIN channel = 1..Len(channel)
  BY DEF Types
<1>4. \A x : Weight(x)["entries"] = 1 <=> IsUser(x)
  BY DEF Weight
<1>5. \A x : Weight(x)["controls"] = 1 <=> IsControl(x)
  BY DEF Weight
<1>6. \A p : Load(p)["entries"] = Weight(p.input)["entries"] /\ Load(p)["controls"] = Weight(p.input)["controls"]
  BY DEF Load, Weight
<1>7. ~IsUser(NoInput) /\ ~IsControl(NoInput)
  BY DEF NoInput, IsUser, IsControl
<1>8. permits["entries"] = Cardinality(Permitted(IsUser))
  <2> DEFINE P == Permitted(IsUser)
  <2>1. \A e : e \in P <=>
             \/ \E t \in Writers : Load(producer[t])["entries"] = 1 /\ e = <<"producer", t>>
             \/ \E i \in 1..Len(channel) : Weight(channel[i])["entries"] = 1 /\ e = <<"channel", i>>
             \/ Weight(hand.input)["entries"] = 1 /\ e = <<"hand", 1>>
    <3>1. \A e : e \in P <=>
               \/ \E t \in Writers : /\ producer[t].at \in {"placed", "permitted", "sending"}
                                      /\ IsUser(producer[t].input) /\ e = <<"producer", t>>
               \/ \E i \in 1..Len(channel) : IsUser(channel[i]) /\ e = <<"channel", i>>
               \/ hand.at \notin {"free", "ended"} /\ IsUser(hand.input) /\ e = <<"hand", 1>>
      BY <1>3 DEF Permitted
    <3>2. \A t \in Writers : Load(producer[t])["entries"] = 1 <=>
            producer[t].at \in {"placed", "permitted", "sending"} /\ IsUser(producer[t].input)
      BY <1>1, <1>4, <1>6, <1>7
    <3>3. Weight(hand.input)["entries"] = 1 <=> hand.at \notin {"free", "ended"} /\ IsUser(hand.input)
      BY <1>2, <1>4, <1>7
    <3> HIDE DEF P
    <3> QED
      BY <1>4, <3>1, <3>2, <3>3
  <2> HIDE DEF P
  <2>2. permits["entries"] = Cardinality(P)
    BY <2>1, PermitsOf
  <2> QED
    BY <2>2 DEF P
<1>9. permits["controls"] = Cardinality(Permitted(IsControl))
  <2> DEFINE P == Permitted(IsControl)
  <2>1. \A e : e \in P <=>
             \/ \E t \in Writers : Load(producer[t])["controls"] = 1 /\ e = <<"producer", t>>
             \/ \E i \in 1..Len(channel) : Weight(channel[i])["controls"] = 1 /\ e = <<"channel", i>>
             \/ Weight(hand.input)["controls"] = 1 /\ e = <<"hand", 1>>
    <3>1. \A e : e \in P <=>
               \/ \E t \in Writers : /\ producer[t].at \in {"placed", "permitted", "sending"}
                                      /\ IsControl(producer[t].input) /\ e = <<"producer", t>>
               \/ \E i \in 1..Len(channel) : IsControl(channel[i]) /\ e = <<"channel", i>>
               \/ hand.at \notin {"free", "ended"} /\ IsControl(hand.input) /\ e = <<"hand", 1>>
      BY <1>3 DEF Permitted
    <3>2. \A t \in Writers : Load(producer[t])["controls"] = 1 <=>
            producer[t].at \in {"placed", "permitted", "sending"} /\ IsControl(producer[t].input)
      BY <1>1, <1>5, <1>6, <1>7
    <3>3. Weight(hand.input)["controls"] = 1 <=> hand.at \notin {"free", "ended"} /\ IsControl(hand.input)
      BY <1>2, <1>5, <1>7
    <3> HIDE DEF P
    <3> QED
      BY <1>5, <3>1, <3>2, <3>3
  <2> HIDE DEF P
  <2>2. permits["controls"] = Cardinality(P)
    BY <2>1, PermitsOf
  <2> QED
    BY <2>2 DEF P
<1> QED
  BY <1>8, <1>9

-----------------------------------------------------------------------------
(* Room for every permit                                                   *)
LEMMA ThreadTakes ==
    ASSUME Types, Counts, NEW t \in Writers, NEW w \in Weights
    PROVE  Load(producer[t])[w] <= Size(Threads(w))
BY LoadType, CountTypes, SizeChange DEF Types, ThreadStates, Threads

(* What is in the channel is at most what the permits and the token leave. *)
LEMMA ChannelFits ==
    ASSUME Types, Counts, Limits, Token
    PROVE  LET threads == Size(Threads("entries")) + Size(Threads("controls"))
               r == Size(Along(channel, "replies"))
           IN  /\ threads \in Nat /\ r \in {0, 1} /\ Len(channel) \in Nat
               /\ Len(channel) + threads <= UserCapacity + ControlReserve + r
               /\ ChannelCapacity = UserCapacity + ControlReserve + 1 /\ ChannelCapacity \in Nat
<1> DEFINE e == Size(Along(channel, "entries"))
           c == Size(Along(channel, "controls"))
           r == Size(Along(channel, "replies"))
           te == Size(Threads("entries"))
           tc == Size(Threads("controls"))
           he == Weight(hand.input)["entries"]
           hc == Weight(hand.input)["controls"]
<1>1. "entries" \in Weights /\ "controls" \in Weights /\ "replies" \in Weights
  BY DEF Weights, Permits
<1>2. e \in Nat /\ te \in Nat /\ he \in Nat
  BY <1>1, CountTypes
<1>3. c \in Nat /\ tc \in Nat /\ hc \in Nat
  BY <1>1, CountTypes
<1>4. r \in Nat
  BY <1>1, CountTypes
<1>5. r <= 1
  BY DEF Token
<1>6. permits["entries"] = te + e + he /\ permits["controls"] = tc + c + hc
  BY DEF Counts, Permits
<1>7. permits["entries"] <= UserCapacity /\ permits["controls"] <= ControlReserve
  BY DEF Limits
<1>8. Len(channel) = e + c + r
  BY DEF Counts
<1>9. UserCapacity \in Nat /\ ControlReserve \in Nat /\ ReplyReserve = 1
  BY InputAssumption
<1> HIDE DEF e, c, r, te, tc, he, hc
<1>10. Len(channel) + (te + tc) <= UserCapacity + ControlReserve + r
  BY <1>2, <1>3, <1>4, <1>6, <1>7, <1>8, <1>9
<1>11. te + tc \in Nat /\ r \in {0, 1} /\ Len(channel) \in Nat
  BY <1>2, <1>3, <1>4, <1>5, <1>8
<1>12. ChannelCapacity = UserCapacity + ControlReserve + 1 /\ ChannelCapacity \in Nat
  BY <1>9 DEF ChannelCapacity
<1> QED
  BY <1>10, <1>11, <1>12 DEF r, te, tc

LEMMA Room ==
    ASSUME Types, Hands, Counts, Limits, Token
    PROVE  Len(channel) <= ChannelCapacity /\ RoomForEveryPermit
<1> DEFINE threads == Size(Threads("entries")) + Size(Threads("controls"))
           r == Size(Along(channel, "replies"))
<1>1. /\ threads \in Nat /\ r \in {0, 1} /\ Len(channel) \in Nat
      /\ Len(channel) + threads <= UserCapacity + ControlReserve + r
      /\ ChannelCapacity = UserCapacity + ControlReserve + 1 /\ ChannelCapacity \in Nat
  BY ChannelFits
<1>2. UserCapacity \in Nat /\ ControlReserve \in Nat
  BY InputAssumption
<1>3. ASSUME NEW t \in Writers, producer[t].at = "sending" PROVE Len(channel) < ChannelCapacity
  <2> DEFINE te == Size(Threads("entries"))
             tc == Size(Threads("controls"))
  <2>1. producer[t] # Idle /\ producer[t].at # "placed"
    BY <1>3 DEF Idle
  <2>2. producer[t].input \in AllInputs /\ producer[t].input.kind # "reply"
    BY <2>1, ProducerLoad
  <2>3. "entries" \in Weights /\ "controls" \in Weights
    BY DEF Weights, Permits
  <2>4. te \in Nat /\ tc \in Nat
    BY <2>3, CountTypes
  <2>5. Load(producer[t])["entries"] <= te /\ Load(producer[t])["controls"] <= tc
    BY <2>3, ThreadTakes
  <2>6. Load(producer[t])["entries"] = 1 \/ Load(producer[t])["controls"] = 1
    BY <2>2 DEF AllInputs, AllKinds, IsUser, IsControl, Load, Weight
  <2> HIDE DEF te, tc
  <2>7. te + tc >= 1
    BY <2>4, <2>5, <2>6
  <2>8. threads >= 1
    BY <2>7 DEF te, tc
  <2> HIDE DEF threads, r
  <2> QED
    BY <1>1, <1>2, <2>8
<1>4. ASSUME accepting, ~replies.token_queued PROVE Len(channel) < ChannelCapacity
  <2>1. hand.at \notin Closed
    BY <1>4 DEF Hands
  <2>2. hand.input \in AllInputs \cup {NoInput}
    BY DEF Types
  <2>3. Weight(hand.input).replies \in {0, 1}
    BY <2>2, ReplyWeight
  <2>4. r + Weight(hand.input).replies = 0
    BY <1>4, <2>1 DEF Token
  <2> HIDE DEF threads, r
  <2>5. r = 0
    BY <1>1, <2>3, <2>4
  <2> QED
    BY <1>1, <1>2, <2>5
<1>5. Len(channel) <= ChannelCapacity
  BY <1>1, <1>2
<1> QED
  BY <1>3, <1>4, <1>5 DEF RoomForEveryPermit

-----------------------------------------------------------------------------
(* A terminal starts with nothing written and no permit out.               *)
LEMMA InputStarts ==
    ASSUME NEW setting \in InputSettings, InputInit(setting)
    PROVE  InputInv
<1>1. /\ channel = <<>> /\ written = <<>> /\ permits = [entries |-> 0, bytes |-> 0, controls |-> 0]
      /\ replies = [pending |-> <<>>, token_queued |-> FALSE, accepted |-> 0] /\ accepting = TRUE
      /\ producer = [t \in Writers |-> Idle] /\ hand = Free
      /\ inputSpent = [setting |-> setting, writes |-> 0, replies |-> 0, stopping |-> FALSE]
  BY DEF InputInit
<1>2. Types
  BY <1>1, IdleType DEF Balances, Free, HandPcs, Types, ThreadStates
<1>3. Hands
  BY <1>1 DEF Hands, Free, Closed
<1>4. ASSUME NEW w \in Weights
      PROVE  /\ IsFiniteSet(Cells(Threads(w))) /\ Size(Threads(w)) = 0
             /\ IsFiniteSet(Cells(Along(channel, w))) /\ Size(Along(channel, w)) = 0
             /\ Weight(hand.input)[w] = 0
  BY <1>1, IdleLoad, SizeZero, AlongEmpty, NoWeight DEF Threads, Free
<1>5. Counts
  BY <1>1, <1>4 DEF Permits, Weights, Counts
<1>6. Limits
  BY <1>1, InputAssumption DEF Limits
<1>7. Token
  BY <1>1, <1>4 DEF Weights, Weight, Free, NoInput, Token
<1>8. Answers(Len(written)) = 0
  BY <1>1, FS_EmptySet DEF Answers
<1>9. Order
  BY <1>1, <1>8 DEF Order, Free, Closed
<1>10. Last
  BY <1>1 DEF Last, HalfWritten, Free
<1>11. WrittenWhole
  BY <1>1 DEF WrittenWhole
<1> QED
  BY <1>2, <1>3, <1>5, <1>6, <1>7, <1>9, <1>10, <1>11 DEF InputInv

LEMMA InputKeeps ==
    ASSUME InputInv, [InputNext]_inputVars
    PROVE  InputInv'
BY TypesStep, HandsStep, CountsStep, LimitsStep, TokenStep, OrderStep, LastStep, WrittenStep DEF
   InputInv

LEMMA InputSound ==
    ASSUME InputInv
    PROVE  InputIsSafe
BY Room, PermittedExact, PermitTypes, InputAssumption DEF InputInv, Permits, Limits, InputIsSafe,
   InputTypeOK

(* The writer thread, the reader and any number of Client threads keep     *)
(* what is counted outside the channel (terminal/input_queue.rs: the       *)
(* atomics of try_write_user, the token of write_terminal_reply) exact.    *)
THEOREM InputsInv == InputSpec => []InputInv
<1>1. (\E setting \in InputSettings : InputInit(setting)) => InputInv
  BY InputStarts
<1>2. InputInv /\ [InputNext]_inputVars => InputInv'
  BY InputKeeps
<1> QED
  BY <1>1, <1>2, PTL DEF InputSpec

(* No input with a permit is turned away, no permit is lost or given back  *)
(* twice, replies reach the terminal in their order and a submission whole *)
(* (terminal/input_queue.rs: TERMINAL_REPLY_QUEUE_RESERVE, "so another     *)
(* client's input cannot interleave").                                     *)
THEOREM InputsAreSafe == InputSpec => []InputIsSafe
<1>1. InputInv => InputIsSafe
  BY InputSound
<1> QED
  BY <1>1, InputsInv, PTL

-----------------------------------------------------------------------------
(* ClientRequests: what is in each part of the state.                       *)

SeatPlaces == {"reading", "checked", "staged", "queued", "writing", "saved", "listing", "leaving",
               "joining", "gone"}
ImageNames == Int \X Int
Values == [SettingKeys -> Int]

SeatType ==
    [at : SeatPlaces, pane : Screens \cup {Unheld}, instance : Int, image : ImageNames, key : SettingKeys,
     value : Int, next : Values, errands : Int, stops : BOOLEAN]
ScreenType ==
    [at : {"none", "live", "closing", "exited", "gone", "taken"}, by : {"none", "end", "removal"},
     was : {"live", "exited"}, instance : Int, told : BOOLEAN, size : Seats \cup {Unheld},
     held : BOOLEAN, colors : Int, unseen : BOOLEAN]
DeskType ==
    [focus : (Screens \cup {Unheld}) \X (Seats \cup {Unheld}), sizing : Seats \cup {Unheld},
     mouse : Seats \cup {Unheld}, colors : Int]
ImagesType ==
    [disk : SUBSET ImageNames, old : SUBSET ImageNames, made : Int,
     staged : [Seats -> SUBSET ImageNames], strayed : BOOLEAN]
PrefsType == [published : Values, file : Values, writer : Seats \cup {Unheld}]
LifeType ==
    [at : {"running", "stopping", "closing", "ended", "crashed"}, stopping : BOOLEAN, stop : BOOLEAN,
     run : Int, instances : Int, swept : BOOLEAN, crashed : SUBSET Int]
RequestTypes ==
    /\ seats \in [Seats -> SeatType] /\ screens \in [Screens -> ScreenType] /\ desk \in DeskType
    /\ images \in ImagesType /\ prefs \in PrefsType /\ life \in LifeType

(* A connection's thread moves on.                                         *)
LEMMA SeatKept ==
    ASSUME seats \in [Seats -> SeatType], NEW c \in Seats, NEW at \in SeatPlaces
    PROVE  [seats EXCEPT ![c].at = at] \in [Seats -> SeatType]
  BY DEF SeatType

(* What is known of a connection changes,                                  *)
LEMMA SeatPut ==
    ASSUME seats \in [Seats -> SeatType], NEW c \in Seats, NEW s \in SeatType
    PROVE  [seats EXCEPT ![c] = s] \in [Seats -> SeatType]
  OBVIOUS

(* or of a Pane.                                                           *)
LEMMA ScreenPut ==
    ASSUME NEW ss \in [Screens -> ScreenType], NEW p \in Screens, NEW s \in ScreenType
    PROVE  [ss EXCEPT ![p] = s] \in [Screens -> ScreenType]
  OBVIOUS

(* A terminal that is installed is one,                                    *)
LEMMA FreshTerminal ==
    ASSUME RequestTypes, NEW n \in Int
    PROVE  NewTerminal(n) \in ScreenType
  BY DEF RequestTypes, NewTerminal, ScreenType, DeskType

(* and is counted.                                                         *)
LEMMA InstallsType ==
    ASSUME RequestTypes, NEW p \in Screens, Installs(p)
    PROVE  screens' \in [Screens -> ScreenType] /\ life' \in LifeType
BY FreshTerminal DEF RequestTypes, LifeType, Installs

(* A terminal that is told of the focus,                                   *)
LEMMA HearsType ==
    ASSUME NEW ss \in [Screens -> ScreenType], NEW p \in Screens, NEW on \in BOOLEAN
    PROVE  Hears(ss, p, on) \in [Screens -> ScreenType]
<1>1. PICK b, d \in BOOLEAN : /\ b = (IF Live(p) THEN on ELSE ss[p].told)
                            /\ d = (ss[p].unseen /\ ~on)
  BY DEF ScreenType
<1> DEFINE s == [ss[p] EXCEPT !.told = b, !.unseen = d]
<1>2. ss[p] \in ScreenType
  OBVIOUS
<1>3. s \in ScreenType
  BY <1>2 DEF ScreenType
<1>4. Hears(ss, p, on) = [ss EXCEPT ![p] = s]
  BY <1>1 DEF Hears
<1> HIDE DEF s
<1> QED
  BY <1>3, <1>4, ScreenPut

(* or that it lost it, is still one.                                       *)
LEMMA WithoutFocusType ==
    ASSUME NEW ss \in [Screens -> ScreenType]
    PROVE  WithoutFocus(ss) \in [Screens -> ScreenType]
  BY DEF WithoutFocus, ScreenType

(* What happens to Panes keeps the types,                                  *)
LEMMA ScreenTypes ==
    ASSUME RequestTypes, NEW p \in Screens,
           OpenPane(p) \/ DropPane(p) \/ EndTerminal(p) \/ KeepEndedTerminal(p) \/ StopForRemoval(p)
             \/ EndRemoval(p) \/ Rings(p)
    PROVE  RequestTypes'
<1>1. CASE OpenPane(p)
  BY <1>1, InstallsType DEF OpenPane, RequestTypes
<1>2. CASE DropPane(p)
  BY <1>2 DEF DropPane, RequestTypes, ScreenType
<1>3. CASE EndTerminal(p)
  BY <1>3 DEF EndTerminal, RequestTypes, ScreenType
<1>4. CASE KeepEndedTerminal(p)
  BY <1>4 DEF KeepEndedTerminal, RequestTypes, ScreenType
<1>5. CASE StopForRemoval(p)
  BY <1>5 DEF StopForRemoval, RequestTypes, ScreenType, Reachable
<1>6. CASE EndRemoval(p)
  <2>1. CASE screens[p].was = "live" /\ Installs(p)
    BY <1>6, <2>1, InstallsType DEF EndRemoval, RequestTypes
  <2>2. CASE ~(screens[p].was = "live" /\ Installs(p))
    <3>1. screens[p] \in ScreenType
      BY DEF RequestTypes
    <3> DEFINE s == [screens[p] EXCEPT !.at = "gone", !.unseen = FALSE]
               t == [screens[p] EXCEPT !.at = "exited", !.by = "none"]
    <3>2. s \in ScreenType /\ t \in ScreenType
      BY <3>1 DEF ScreenType
    <3>3. screens' = [screens EXCEPT ![p] = s] \/ screens' = [screens EXCEPT ![p] = t]
      BY <1>6, <2>2 DEF EndRemoval
    <3> HIDE DEF s, t
    <3>4. screens' \in [Screens -> ScreenType]
      BY <3>2, <3>3, ScreenPut DEF RequestTypes
    <3> QED
      BY <1>6, <2>2, <3>4 DEF EndRemoval, RequestTypes
  <2> QED
    BY <2>1, <2>2
<1>7. CASE Rings(p)
  <2>1. PICK b \in BOOLEAN : b = (screens[p].unseen \/ desk.focus[1] # p)
    OBVIOUS
  <2>2. screens' = [screens EXCEPT ![p] = [@ EXCEPT !.unseen = b]]
    BY <1>7, <2>1 DEF Rings, RequestTypes
  <2>3. [screens[p] EXCEPT !.unseen = b] \in ScreenType
    BY DEF RequestTypes, ScreenType
  <2>4. screens' \in [Screens -> ScreenType]
    BY <2>2, <2>3, ScreenPut DEF RequestTypes
  <2> QED
    BY <1>7, <2>4 DEF Rings, RequestTypes
<1> QED
  BY <1>1, <1>2, <1>3, <1>4, <1>5, <1>6, <1>7

(* so do the focus, sizes and the mouse,                                   *)
LEMMA DeskTypes ==
    ASSUME RequestTypes, NEW c \in Seats, NEW p \in Screens,
           ReportFocus(c, p) \/ ReportBlur(c, p) \/ Resize(c, p) \/ Mouse(c, p)
    PROVE  RequestTypes'
<1>1. CASE ReportFocus(c, p)
  BY <1>1, WithoutFocusType, HearsType DEF ReportFocus, RequestTypes, DeskType, SeatKeeps
<1>2. CASE ReportBlur(c, p)
  BY <1>2, HearsType DEF ReportBlur, RequestTypes, DeskType, NoFocus, SeatKeeps
<1>3. CASE Resize(c, p)
  BY <1>3, ScreenPut DEF RequestTypes, ScreenType, Resize, SeatKeeps
<1>4. CASE Mouse(c, p)
  <2>1. screens' \in [Screens -> ScreenType]
    <3>1. PICK held \in BOOLEAN : screens' = [screens EXCEPT ![p] = [screens[p] EXCEPT !.held = held]]
      BY <1>4 DEF Mouse, RequestTypes, ScreenType
    <3>2. [screens[p] EXCEPT !.held = held] \in ScreenType
      BY DEF RequestTypes, ScreenType
    <3> QED
      BY <3>1, <3>2, ScreenPut DEF RequestTypes
  <2>2. desk' \in DeskType
    BY <1>4 DEF Mouse, RequestTypes, DeskType
  <2> QED
    BY <1>4, <2>1, <2>2 DEF Mouse, SeatKeeps, RequestTypes
<1> QED
  BY <1>1, <1>2, <1>3, <1>4

(* the colours,                                                            *)
LEMMA ColorsType ==
    ASSUME RequestTypes, NEW c \in Seats, NEW n \in {1, 2}, SetColors(c, n)
    PROVE  RequestTypes'
  BY DEF SetColors, SeatKeeps, RequestTypes, ScreenType, DeskType

(* reads, and a connection that stops the Server or goes,                  *)
LEMMA ErrandTypes ==
    ASSUME RequestTypes, NEW c \in Seats,
           ReadOnTheLoop(c) \/ EndRead(c) \/ AskWorker(c) \/ WorkerAnswers(c)
             \/ AskStop(c) \/ AskRestart(c) \/ Detach(c) \/ JoinWriter(c)
    PROVE  RequestTypes'
<1>1. CASE ReadOnTheLoop(c) \/ EndRead(c) \/ Detach(c) \/ JoinWriter(c)
  <2>1. \E at \in SeatPlaces : seats' = [seats EXCEPT ![c].at = at]
    BY <1>1 DEF ReadOnTheLoop, EndRead, Detach, JoinWriter, Moves, SeatPlaces
  <2>2. seats' \in [Seats -> SeatType]
    BY <2>1, SeatKept DEF RequestTypes
  <2> QED
    BY <1>1, <2>2 DEF ReadOnTheLoop, EndRead, Detach, JoinWriter, RequestTypes
<1>2. CASE AskWorker(c) \/ WorkerAnswers(c)
  BY <1>2 DEF AskWorker, WorkerAnswers, RequestTypes, SeatType
<1>3. CASE AskStop(c) \/ AskRestart(c)
  <2> DEFINE s == [seats[c] EXCEPT !.at = "leaving", !.stops = TRUE]
             t == [seats[c] EXCEPT !.stops = TRUE]
  <2>1. seats[c] \in SeatType
    BY DEF RequestTypes
  <2>2. s \in SeatType /\ t \in SeatType
    BY <2>1 DEF SeatType, SeatPlaces
  <2>3. seats' = [seats EXCEPT ![c] = s] \/ seats' = [seats EXCEPT ![c] = t]
    BY <1>3 DEF AskStop, AskRestart
  <2> HIDE DEF s, t
  <2>4. seats' \in [Seats -> SeatType]
    BY <2>2, <2>3, SeatPut DEF RequestTypes
  <2>5. life' \in LifeType
    BY <1>3 DEF AskStop, AskRestart, RequestTypes, LifeType
  <2> QED
    BY <1>3, <2>4, <2>5 DEF AskStop, AskRestart, RequestTypes
<1> QED
  BY <1>1, <1>2, <1>3

(* images,                                                                 *)
LEMMA PasteTypes ==
    ASSUME RequestTypes, NEW c \in Seats,
           (\E p \in Screens : BeginPaste(c, p)) \/ StageImage(c) \/ PasteImage(c)
    PROVE  RequestTypes'
<1>1. ASSUME NEW p \in Screens, BeginPaste(c, p) PROVE RequestTypes'
  <2> DEFINE s == [seats[c] EXCEPT !.at = "checked", !.pane = p, !.instance = screens[p].instance]
  <2>1. seats[c] \in SeatType /\ screens[p].instance \in Int
    BY DEF RequestTypes, ScreenType
  <2>2. s \in SeatType
    BY <2>1 DEF SeatType, SeatPlaces
  <2>3. seats' = [seats EXCEPT ![c] = s]
    BY <1>1 DEF BeginPaste
  <2> HIDE DEF s
  <2>4. seats' \in [Seats -> SeatType]
    BY <2>2, <2>3, SeatPut DEF RequestTypes
  <2> QED
    BY <1>1, <2>4 DEF BeginPaste, RequestTypes
<1>2. CASE StageImage(c)
  <2>1. life' \in LifeType
    BY <1>2 DEF StageImage, RequestTypes, LifeType
  <2>2. Swept(images.disk) \in SUBSET ImageNames
    BY DEF RequestTypes, ImagesType, Swept
  <2> DEFINE image == <<life.run, images.made + 1>>
  <2>3. image \in ImageNames
    BY DEF RequestTypes, ImagesType, LifeType, ImageNames
  <2> HIDE DEF image
  <2>4. CASE /\ seats' = [seats EXCEPT ![c] = [@ EXCEPT !.at = "staged", !.image = image]]
             /\ images' = [images EXCEPT !.made = @ + 1, !.disk = Swept(@) \cup {image}]
    <3>1. seats' \in [Seats -> SeatType]
      BY <2>3, <2>4 DEF RequestTypes, SeatType, SeatPlaces
    <3> DEFINE disk == Swept(images.disk) \cup {image}
    <3>2. disk \in SUBSET ImageNames
      BY <2>2, <2>3
    <3>3. images' = [images EXCEPT !.made = @ + 1, !.disk = disk]
      BY <2>4 DEF RequestTypes, ImagesType
    <3> HIDE DEF disk
    <3>5. images \in ImagesType /\ images.made + 1 \in Int
      BY DEF RequestTypes, ImagesType
    <3>4. images' \in ImagesType
      BY <3>2, <3>3, <3>5 DEF ImagesType
    <3> QED
      BY <1>2, <2>1, <3>1, <3>4 DEF StageImage, RequestTypes
  <2>5. CASE Moves(c, "reading") /\ images' = [images EXCEPT !.disk = Swept(@)]
    BY <2>5, SeatKept, <2>2, <1>2, <2>1 DEF RequestTypes, Moves, SeatPlaces, ImagesType,
       StageImage
  <2> QED
    BY <1>2, <2>4, <2>5 DEF StageImage, image
<1>3. CASE PasteImage(c)
  <2>1. seats' \in [Seats -> SeatType]
    BY <1>3, SeatKept DEF PasteImage, RequestTypes, Moves, SeatPlaces
  <2>2. Image(c) \in ImageNames
    BY DEF RequestTypes, SeatType, Image
  <2>3. Pasted(c) \in ImagesType
    BY <2>2 DEF Pasted, RequestTypes, ImagesType
  <2>4. [images EXCEPT !.disk = @ \ {Image(c)}] \in ImagesType
    BY DEF RequestTypes, ImagesType
  <2> QED
    BY <1>3, <2>1, <2>3, <2>4 DEF PasteImage, RequestTypes
<1> QED
  BY <1>1, <1>2, <1>3

(* settings,                                                               *)
LEMMA SettingTypes ==
    ASSUME RequestTypes, NEW c \in Seats,
           (\E k \in SettingKeys, n \in {1, 2} : AskSetting(c, k, n)) \/ BeginSetting(c)
             \/ SaveSetting(c) \/ PublishSetting(c)
    PROVE  RequestTypes'
<1>1. ASSUME NEW k \in SettingKeys, NEW n \in {1, 2}, AskSetting(c, k, n) PROVE RequestTypes'
  <2> DEFINE s == [seats[c] EXCEPT !.at = "queued", !.key = k, !.value = n]
  <2>1. seats[c] \in SeatType /\ n \in Int
    BY DEF RequestTypes
  <2>2. s \in SeatType
    BY <2>1 DEF SeatType, SeatPlaces
  <2>3. seats' = [seats EXCEPT ![c] = s]
    BY <1>1 DEF AskSetting
  <2> HIDE DEF s
  <2>4. seats' \in [Seats -> SeatType]
    BY <2>2, <2>3, SeatPut DEF RequestTypes
  <2> QED
    BY <1>1, <2>4 DEF AskSetting, RequestTypes
<1> DEFINE next == [prefs.published EXCEPT ![seats[c].key] = seats[c].value]
<1>2. next \in Values
  BY DEF RequestTypes, SeatType, PrefsType, Values
<1> HIDE DEF next
<1>3. CASE BeginSetting(c)
  <2>1. CASE Moves(c, "reading") /\ UNCHANGED prefs
    BY <1>3, <2>1, SeatKept DEF BeginSetting, RequestTypes, Moves, SeatPlaces
  <2>2. CASE /\ seats' = [seats EXCEPT ![c] = [@ EXCEPT !.at = "writing", !.next = next]]
             /\ prefs' = [prefs EXCEPT !.writer = c]
    <3> DEFINE s == [seats[c] EXCEPT !.at = "writing", !.next = next]
    <3>1. seats[c] \in SeatType
      BY DEF RequestTypes
    <3>2. s \in SeatType
      BY <1>2, <3>1 DEF SeatType, SeatPlaces
    <3>3. seats' = [seats EXCEPT ![c] = s]
      BY <2>2
    <3> HIDE DEF s
    <3>4. seats' \in [Seats -> SeatType]
      BY <3>2, <3>3, SeatPut DEF RequestTypes
    <3>5. prefs' \in PrefsType
      BY <2>2 DEF RequestTypes, PrefsType
    <3> QED
      BY <1>3, <3>4, <3>5 DEF BeginSetting, RequestTypes
  <2> QED
    BY <1>3, <2>1, <2>2 DEF BeginSetting, next
<1>4. CASE SaveSetting(c)
  <2>1. seats' \in [Seats -> SeatType]
    <3>1. \E at \in SeatPlaces : seats' = [seats EXCEPT ![c].at = at]
      BY <1>4 DEF SaveSetting, Moves, SeatPlaces
    <3> QED
      BY <3>1, SeatKept DEF RequestTypes
  <2>2. [prefs EXCEPT !.file[seats[c].key] = seats[c].value] \in PrefsType
    BY DEF RequestTypes, SeatType, PrefsType, Values
  <2>3. [prefs EXCEPT !.writer = Unheld] \in PrefsType
    BY DEF RequestTypes, PrefsType
  <2> QED
    BY <1>4, <2>1, <2>2, <2>3 DEF SaveSetting, RequestTypes
<1>5. CASE PublishSetting(c)
  BY <1>5, SeatKept DEF PublishSetting, RequestTypes, Moves, SeatPlaces, PrefsType, SeatType
<1> QED
  BY <1>1, <1>3, <1>4, <1>5

(* and the ends of a connection and of the Server.                         *)
LEMMA EndTypes ==
    ASSUME RequestTypes, (\E c \in Seats : EndSeat(c)) \/ SeeStop \/ TakeTerminals \/ EndServer \/ CrashServer
                         \/ StartServer \/ DayPasses
    PROVE  RequestTypes'
<1>1. ASSUME NEW c \in Seats, EndSeat(c) PROVE RequestTypes'
  <2>1. seats' \in [Seats -> SeatType]
    BY <1>1, SeatKept DEF EndSeat, RequestTypes, Moves, SeatPlaces
  <2>2. desk' \in DeskType
    BY <1>1 DEF EndSeat, ReleasedDesk, NoFocus, RequestTypes, DeskType
  <2>3. ReleasedMouse(c) \in [Screens -> ScreenType]
    BY DEF ReleasedMouse, RequestTypes, ScreenType
  <2>4. WithoutFocus(ReleasedMouse(c)) \in [Screens -> ScreenType]
    BY <2>3, WithoutFocusType
  <2>5. images' \in ImagesType
    BY <1>1 DEF EndSeat, RequestTypes, ImagesType
  <2>6. life' \in LifeType
    BY <1>1 DEF EndSeat, RequestTypes, LifeType, SeatType
  <2> QED
    BY <1>1, <2>1, <2>2, <2>3, <2>4, <2>5, <2>6 DEF EndSeat, RequestTypes
<1>2. CASE SeeStop
  BY <1>2 DEF SeeStop, RequestTypes, LifeType
<1>3. CASE TakeTerminals
  <2>1. images' \in ImagesType
    BY <1>3 DEF TakeTerminals, Unstaged, RequestTypes, ImagesType
  <2>2. screens' \in [Screens -> ScreenType]
    BY <1>3 DEF TakeTerminals, RequestTypes, ScreenType
  <2> QED
    BY <1>3, <2>1, <2>2 DEF TakeTerminals, RequestTypes, LifeType
<1>4. ASSUME NEW at \in {"ended", "crashed"}, ProcessEnds(at) PROVE RequestTypes'
  <2>1. images' \in ImagesType
    BY <1>4 DEF ProcessEnds, RequestTypes, ImagesType
  <2>2. screens' \in [Screens -> ScreenType]
    BY <1>4 DEF ProcessEnds, RequestTypes, ScreenType
  <2>3. Seat \in SeatType
    BY DEF Seat, SeatType, SeatPlaces, ImageNames, Values, SettingKeys
  <2>4. seats' \in [Seats -> SeatType]
    BY <1>4, <2>3 DEF ProcessEnds, SeatType, SeatPlaces
  <2>5. desk' \in DeskType
    BY <1>4 DEF ProcessEnds, NewDesk, NoFocus, DeskType
  <2> QED
    BY <1>4, <2>1, <2>2, <2>4, <2>5 DEF ProcessEnds, RequestTypes, LifeType, PrefsType
<1>5. CASE StartServer
  <2>1. Seat \in SeatType
    BY DEF Seat, SeatType, SeatPlaces, ImageNames, Values, SettingKeys
  <2>2. seats' \in [Seats -> SeatType]
    BY <1>5, <2>1 DEF StartServer
  <2>3. NewTerminal(1) \in ScreenType
    BY FreshTerminal
  <2>4. screens' \in [Screens -> ScreenType]
    BY <1>5, <2>3 DEF StartServer, RequestTypes
  <2>5. life' \in LifeType
    <3>1. life.run \in Int /\ life.crashed \in SUBSET Int
      BY DEF RequestTypes, LifeType
    <3> DEFINE cs == life.crashed \cup (IF life.at = "crashed" THEN {life.run} ELSE {})
    <3>2. cs \in SUBSET Int
      BY <3>1
    <3>3. life' = [NewLife EXCEPT !.run = life.run + 1, !.instances = 2, !.crashed = cs]
      BY <1>5 DEF StartServer
    <3> HIDE DEF cs
    <3> QED
      <4>1. life' = [at |-> "running", stopping |-> FALSE, stop |-> FALSE, run |-> life.run + 1,
                     instances |-> 2, swept |-> FALSE, crashed |-> cs]
        BY <3>3 DEF NewLife
      <4> QED
        BY <3>1, <3>2, <4>1 DEF LifeType
  <2> QED
    BY <1>5, <2>2, <2>4, <2>5 DEF StartServer, RequestTypes, PrefsType
<1>6. CASE DayPasses
  BY <1>6 DEF DayPasses, RequestTypes, ImagesType
<1> QED
  BY <1>1, <1>2, <1>3, <1>4, <1>5, <1>6 DEF EndServer, CrashServer

-----------------------------------------------------------------------------
(* The focus, the sizing, the mouse and the colours.                       *)

ScreenIsFine(p) ==
    /\ Live(p) /\ screens[p].told => desk.focus[1] = p
    /\ InSession(p) /\ screens[p].unseen => desk.focus[1] # p
    /\ Live(p) /\ screens[p].held => desk.mouse # Unheld
    /\ Live(p) => screens[p].colors = desk.colors
DeskInv == (\A p \in Screens : ScreenIsFine(p)) /\ NobodyGoneHolds

(* Nothing changes for whom a connection's thread leaves them alone.       *)
LEMMA DeskFrame ==
    ASSUME DeskInv, UNCHANGED <<screens, desk>>, NEW f, seats' = f,
           \A c \in Seats : seats[c].at \notin {"joining", "gone"} => f[c].at \notin {"joining", "gone"}
    PROVE  DeskInv'
BY DEF DeskInv, ScreenIsFine, Live, InSession, Connected, NobodyGoneHolds

(* Each terminal that changes is looked at by itself.                      *)
LEMMA DeskOfOthers ==
    ASSUME DeskInv, UNCHANGED <<seats, desk>>,
           \A p \in Screens : screens'[p] = screens[p] \/ ScreenIsFine(p)'
    PROVE  DeskInv'
BY DEF DeskInv, ScreenIsFine, Live, InSession, Connected, NobodyGoneHolds

(* A new terminal was told nothing, and has everybody's colours.           *)
LEMMA NewTerminalIsFine ==
    ASSUME RequestTypes, NEW p \in Screens, NEW n, UNCHANGED desk, screens'[p] = NewTerminal(n)
    PROVE  ScreenIsFine(p)'
  BY DEF ScreenIsFine, NewTerminal, Live, InSession

(* Panes come and go, terminals end, start again and ring.                 *)
LEMMA ScreensKeepDesk ==
    ASSUME RequestTypes, DeskInv, NEW p \in Screens,
           OpenPane(p) \/ DropPane(p) \/ EndTerminal(p) \/ KeepEndedTerminal(p) \/ StopForRemoval(p)
             \/ EndRemoval(p) \/ Rings(p)
    PROVE  DeskInv'
<1>1. UNCHANGED <<seats, desk>>
  BY DEF OpenPane, DropPane, EndTerminal, KeepEndedTerminal, StopForRemoval, EndRemoval, Rings
<1>2. \A q \in Screens : q # p => screens'[q] = screens[q]
  BY DEF OpenPane, DropPane, EndTerminal, KeepEndedTerminal, StopForRemoval, EndRemoval, Rings,
         Installs, RequestTypes
<1>3. ScreenIsFine(p)
  BY DEF DeskInv
<1>4. CASE Installs(p)
  BY <1>4, <1>1, <1>2, NewTerminalIsFine, DeskOfOthers DEF Installs, RequestTypes
<1>5. CASE DropPane(p) \/ EndTerminal(p) \/ StopForRemoval(p) \/ (EndRemoval(p) /\ ~Installs(p))
  <2>1. /\ screens'[p].at \notin {"live", "exited"}
        /\ screens'[p].at = "closing" => InSession(p) /\ screens'[p].unseen = screens[p].unseen
     \/ /\ screens'[p].at = "exited" /\ screens[p].at = "closing"
        /\ screens'[p].unseen = screens[p].unseen
    BY <1>5 DEF DropPane, EndTerminal, StopForRemoval, EndRemoval, RequestTypes, ScreenType,
                InSession, Reachable, Live
  <2>2. ScreenIsFine(p)'
    BY <1>1, <1>3, <2>1 DEF ScreenIsFine, Live, InSession
  <2> QED
    BY <1>1, <1>2, <2>2, DeskOfOthers
<1>6. CASE KeepEndedTerminal(p)
  BY <1>6, <1>1, <1>3, <1>2, DeskOfOthers DEF KeepEndedTerminal, RequestTypes, ScreenType,
     ScreenIsFine, Live, InSession
<1>7. CASE Rings(p)
  BY <1>7, <1>3, <1>1, <1>2, DeskOfOthers DEF Rings, RequestTypes, Live, ScreenType, ScreenIsFine,
     InSession
<1> QED
  BY <1>4, <1>5, <1>6, <1>7 DEF OpenPane

(* The focus comes: record_terminal_focus takes it from where it was,      *)
LEMMA FocusKeepsDesk ==
    ASSUME RequestTypes, DeskInv, NEW c \in Seats, NEW p \in Screens, ReportFocus(c, p)
    PROVE  DeskInv'
<1>1. desk.focus \in (Screens \cup {Unheld}) \X (Seats \cup {Unheld})
  BY DEF RequestTypes, DeskType
<1>2. /\ desk'.focus = <<p, c>> /\ desk'.sizing = c /\ desk'.mouse = desk.mouse
      /\ desk'.colors = desk.colors
  BY DEF ReportFocus, RequestTypes, DeskType
<1>3. UNCHANGED seats /\ c \in Connected
  BY DEF ReportFocus, SeatKeeps, Commands, IsAt, Connected
<1>4. NobodyGoneHolds'
  BY <1>2, <1>3 DEF DeskInv, NobodyGoneHolds, Connected
<1> DEFINE ss == IF desk.focus[1] = p THEN screens ELSE WithoutFocus(screens)
<1>5. ss \in [Screens -> ScreenType]
  BY WithoutFocusType DEF RequestTypes
<1>6. \A q \in Screens : /\ ss[q].at = screens[q].at /\ ss[q].unseen = screens[q].unseen
                         /\ ss[q].held = screens[q].held /\ ss[q].colors = screens[q].colors
  BY DEF WithoutFocus, RequestTypes, ScreenType
<1>7. \A q \in Screens : q # p /\ ss[q].at = "live" => ~ss[q].told
  BY DEF WithoutFocus, RequestTypes, ScreenType, DeskInv, ScreenIsFine, Live, Reachable
<1>8. screens' = Hears(ss, p, TRUE)
  BY DEF ReportFocus
<1> HIDE DEF ss
<1>9. \A q \in Screens : q # p => screens'[q] = ss[q]
  BY <1>5, <1>8 DEF Hears
<1>10. /\ screens'[p].at = ss[p].at /\ ~screens'[p].unseen
       /\ screens'[p].held = ss[p].held /\ screens'[p].colors = ss[p].colors
  BY <1>5, <1>8 DEF Hears, ScreenType
<1>11. ASSUME NEW q \in Screens PROVE ScreenIsFine(q)'
  BY <1>2, <1>6, <1>10, <1>7, <1>9 DEF DeskInv, ScreenIsFine, Live, InSession
<1> QED
  BY <1>4, <1>11 DEF DeskInv

(* it goes, when the Client had it,                                        *)
LEMMA BlurKeepsDesk ==
    ASSUME RequestTypes, DeskInv, NEW c \in Seats, NEW p \in Screens, ReportBlur(c, p)
    PROVE  DeskInv'
<1>1. /\ desk'.focus = IF HoldsFocus(c, p) THEN NoFocus ELSE desk.focus
      /\ desk'.sizing = IF desk.sizing = c THEN Unheld ELSE desk.sizing
      /\ desk'.mouse = desk.mouse /\ desk'.colors = desk.colors
  BY DEF ReportBlur, RequestTypes, DeskType
<1>2. UNCHANGED seats
  BY DEF ReportBlur, SeatKeeps
<1>3. NobodyGoneHolds'
  BY <1>1, <1>2 DEF DeskInv, NobodyGoneHolds, Connected, NoFocus
<1>4. CASE ~HoldsFocus(c, p)
  BY <1>4, <1>1, <1>3 DEF ReportBlur, DeskInv, ScreenIsFine, Live, InSession
<1>5. CASE HoldsFocus(c, p)
  BY <1>5, NobodyIsUnheld, <1>1, <1>3 DEF ReportBlur, Hears, RequestTypes, ScreenType, HoldsFocus,
     DeskInv, NoFocus, ScreenIsFine, Live, InSession
<1> QED
  BY <1>4, <1>5

(* and so do sizes and the mouse.                                          *)
LEMMA HandsKeepDesk ==
    ASSUME RequestTypes, DeskInv, NEW c \in Seats, NEW p \in Screens,
           Resize(c, p) \/ Mouse(c, p)
    PROVE  DeskInv'
<1>1. UNCHANGED seats /\ c \in Connected /\ c # Unheld
  BY NobodyIsUnheld DEF Resize, Mouse, SeatKeeps, Commands, IsAt, Connected
<1>2. CASE Resize(c, p)
  BY <1>2, <1>1, DeskOfOthers DEF Resize, RequestTypes, ScreenType, DeskInv, ScreenIsFine, Live,
     InSession
<1>3. CASE Mouse(c, p)
  BY <1>3, <1>1 DEF Mouse, RequestTypes, DeskType, ScreenType, DeskInv, NobodyGoneHolds,
     Connected, ScreenIsFine, Live, InSession
<1> QED
  BY <1>2, <1>3

(* The colours are given to every terminal (set_terminal_colors).          *)
LEMMA ColorsKeepDesk ==
    ASSUME RequestTypes, DeskInv, NEW c \in Seats, NEW n \in {1, 2}, SetColors(c, n)
    PROVE  DeskInv'
BY DEF SetColors, SeatKeeps, RequestTypes, DeskType, ScreenType, Live, Reachable, DeskInv,
   NobodyGoneHolds, Connected, ScreenIsFine, InSession

(* A connection that goes lets go of all it held                           *)
(* (release_client_terminal_state).                                        *)
LEMMA EndsKeepDesk ==
    ASSUME RequestTypes, DeskInv, NEW c \in Seats, EndSeat(c)
    PROVE  DeskInv'
<1>1. /\ desk'.focus = IF desk.focus[2] = c THEN NoFocus ELSE desk.focus
      /\ desk'.sizing = IF desk.sizing = c THEN Unheld ELSE desk.sizing
      /\ desk'.mouse = IF desk.mouse = c THEN Unheld ELSE desk.mouse
      /\ desk'.colors = desk.colors
  BY DEF EndSeat, ReleasedDesk, RequestTypes, DeskType
<1>2. Connected' = Connected \ {c}
  BY DEF EndSeat, Moves, Connected, RequestTypes, SeatType
<1>3. c # Unheld /\ Unheld \notin Screens
  BY NobodyIsUnheld
<1>4. NobodyGoneHolds'
  BY <1>1, <1>2, <1>3 DEF DeskInv, NobodyGoneHolds, NoFocus
<1> DEFINE ss == ReleasedMouse(c)
<1>5. ss \in [Screens -> ScreenType]
  BY DEF ReleasedMouse, RequestTypes, ScreenType
<1>6. \A q \in Screens : /\ ss[q].at = screens[q].at /\ ss[q].unseen = screens[q].unseen
                         /\ ss[q].told = screens[q].told /\ ss[q].colors = screens[q].colors
                         /\ desk.mouse # c => ss[q].held = screens[q].held
                         /\ desk.mouse = c /\ Live(q) => ~ss[q].held
  BY DEF ReleasedMouse, RequestTypes, ScreenType, Live, Reachable
<1>7. screens' = IF desk.focus[2] = c THEN WithoutFocus(ss) ELSE ss
  BY DEF EndSeat
<1> HIDE DEF ss
<1>8. \A q \in Screens : /\ screens'[q].at = ss[q].at /\ screens'[q].unseen = ss[q].unseen
                         /\ screens'[q].held = ss[q].held /\ screens'[q].colors = ss[q].colors
                         /\ desk.focus[2] # c => screens'[q].told = ss[q].told
                         /\ desk.focus[2] = c /\ q = desk.focus[1] /\ Live(q) => ~screens'[q].told
                         /\ q # desk.focus[1] => screens'[q].told = ss[q].told
  BY <1>5, <1>7 DEF WithoutFocus, ScreenType, Live, Reachable
<1>9. ASSUME NEW q \in Screens PROVE ScreenIsFine(q)'
  BY <1>1, <1>3, <1>6, <1>8 DEF DeskInv, NoFocus, ScreenIsFine, Live, InSession
<1> QED
  BY <1>4, <1>9 DEF DeskInv

(* With the Server every terminal goes; the next one has new ones.         *)
LEMMA ServerKeepsDesk ==
    ASSUME RequestTypes, DeskInv, TakeTerminals \/ EndServer \/ CrashServer \/ StartServer
    PROVE  DeskInv'
<1>1. CASE TakeTerminals
  BY <1>1, DeskOfOthers DEF TakeTerminals, RequestTypes, ScreenType, ScreenIsFine, Live, InSession
<1>2. ASSUME NEW at \in {"ended", "crashed"}, ProcessEnds(at) PROVE DeskInv'
  BY <1>2 DEF ProcessEnds, RequestTypes, ScreenType, InSession, NewDesk, NoFocus, NobodyGoneHolds,
     DeskInv, ScreenIsFine, Live
<1>3. CASE StartServer
  BY <1>3, NewTerminalIsFine DEF StartServer, Connected, Seat, DeskInv, NobodyGoneHolds,
     ScreenIsFine, Live, InSession
<1> QED
  BY <1>1, <1>2, <1>3 DEF EndServer, CrashServer

-----------------------------------------------------------------------------
(* Images: each is of one connection, which is there, or of a Server that    *)
(* crashed.                                                                *)

Holds(c) == images.staged[c] \cup {i \in {Image(c)} : IsAt(c, "staged")}
HeldApart ==
    /\ \A c \in Seats : Holds(c) \subseteq images.disk
    /\ \A c, d \in Seats : c # d => Holds(c) \cap Holds(d) = {}
    /\ \A c \in Seats : IsAt(c, "staged") => Image(c) \notin images.staged[c]
OfSomebody ==
    \A i \in images.disk :
       \/ \E c \in Connected : i \in Holds(c)
       \/ i[1] \in life.crashed \/ life.at = "crashed"
ImagesInv ==
    /\ HeldApart /\ OfSomebody
    /\ \A i \in images.disk : i[2] <= images.made /\ i[1] \in life.crashed \cup {life.run}
    /\ ~life.swept => \A c \in Seats : Holds(c) = {}
    /\ ~images.strayed

(* Whoever stages an image is waited for, and nobody outlives the process.   *)
StopsInv ==
    /\ life.at # "running" => life.stopping
    /\ life.at \in {"closing", "ended", "crashed"} => \A c \in Seats : ~IsAt(c, "checked") /\ Holds(c) = {}
    /\ life.at \in {"ended", "crashed"} => Connected = {}

(* That is what the property says of images.                               *)
LEMMA ImagesImply ==
    ASSUME ImagesInv
    PROVE  ImagesGoWithTheirClient
BY DEF ImagesInv, HeldApart, Holds, OfSomebody, ImagesGoWithTheirClient

(* A step that leaves images, and who stages one, alone.                    *)
StagesNothing(s, t) ==
    /\ t.image = s.image /\ (t.at = "staged" <=> s.at = "staged")
    /\ t.at = "checked" => s.at = "checked" \/ ~life.stopping
    /\ t.at \in {"joining", "gone"} <=> s.at \in {"joining", "gone"}

(* Such a step keeps what holds of images.                                 *)
LEMMA ImagesFrame ==
    ASSUME ImagesInv, StopsInv, UNCHANGED images,
           life'.at = life.at, life'.run = life.run, life'.crashed = life.crashed,
           life'.swept = life.swept, life.stopping => life'.stopping,
           NEW f, seats' = f,
           \A c \in Seats : StagesNothing(seats[c], f[c])
    PROVE  ImagesInv' /\ StopsInv'
BY DEF Holds, Image, IsAt, StagesNothing, Connected, ImagesInv, HeldApart, OfSomebody, StopsInv

(* What happens to Panes and their terminals stages nothing,               *)
LEMMA ScreensKeepImages ==
    ASSUME RequestTypes, ImagesInv, StopsInv, NEW c, NEW p,
           \/ OpenPane(p) \/ DropPane(p) \/ EndTerminal(p) \/ KeepEndedTerminal(p) \/ StopForRemoval(p)
              \/ EndRemoval(p) \/ Rings(p)
           \/ ReportFocus(c, p) \/ ReportBlur(c, p) \/ Resize(c, p) \/ Mouse(c, p)
              \/ \E n \in {1, 2} : SetColors(c, n)
    PROVE  ImagesInv' /\ StopsInv'
<1>1. UNCHANGED <<seats, images>>
  BY DEF OpenPane, DropPane, EndTerminal, KeepEndedTerminal, StopForRemoval, EndRemoval, Rings,
         ReportFocus, ReportBlur, Resize, Mouse, SetColors, SeatKeeps
<1>2. UNCHANGED life \/ life' = [life EXCEPT !.instances = @ + 1]
  BY DEF OpenPane, DropPane, EndTerminal, KeepEndedTerminal, StopForRemoval, EndRemoval, Rings, Installs,
         ReportFocus, ReportBlur, Resize, Mouse, SetColors, SeatKeeps
<1>3. /\ life'.at = life.at /\ life'.run = life.run /\ life'.crashed = life.crashed
      /\ life'.swept = life.swept /\ life'.stopping = life.stopping
  BY <1>2 DEF RequestTypes, LifeType
<1>4. \A d \in Seats : StagesNothing(seats[d], seats[d])
  BY DEF StagesNothing
<1> QED
  BY <1>1, <1>3, <1>4, ImagesFrame

(* nor do reads and settings; who begins to paste is not yet waited for.   *)
LEMMA ErrandsKeepImages ==
    ASSUME RequestTypes, ImagesInv, StopsInv, NEW c \in Seats,
           \/ ReadOnTheLoop(c) \/ EndRead(c) \/ AskWorker(c) \/ WorkerAnswers(c)
              \/ AskStop(c) \/ AskRestart(c) \/ Detach(c) \/ JoinWriter(c)
           \/ \E k \in SettingKeys, n \in {1, 2} : AskSetting(c, k, n)
           \/ BeginSetting(c) \/ SaveSetting(c) \/ PublishSetting(c)
           \/ \E p \in Screens : BeginPaste(c, p)
    PROVE  ImagesInv' /\ StopsInv'
<1>1. UNCHANGED images
  BY DEF ReadOnTheLoop, EndRead, AskWorker, WorkerAnswers, AskStop, AskRestart, Detach, JoinWriter,
         AskSetting, BeginSetting, SaveSetting, PublishSetting, BeginPaste
<1>2. /\ life'.at = life.at /\ life'.run = life.run /\ life'.crashed = life.crashed
      /\ life'.swept = life.swept
      /\ life.stopping => life'.stopping
  <2>1. UNCHANGED life \/ life' = [life EXCEPT !.stopping = TRUE]
    BY DEF ReadOnTheLoop, EndRead, AskWorker, WorkerAnswers, AskStop, AskRestart, Detach, JoinWriter,
           AskSetting, BeginSetting, SaveSetting, PublishSetting, BeginPaste
  <2> QED
    BY <2>1 DEF RequestTypes, LifeType
<1>3. PICK f : f = seats'
  OBVIOUS
<1>4. \A d \in Seats : d # c => f[d] = seats[d]
  BY <1>3 DEF ReadOnTheLoop, EndRead, AskWorker, WorkerAnswers, AskStop, AskRestart, Detach, JoinWriter,
         AskSetting, BeginSetting, SaveSetting, PublishSetting, BeginPaste, Moves, RequestTypes
<1> DEFINE Goes(s) ==
      /\ s.image = seats[c].image
      /\ \/ s.at = seats[c].at
         \/ /\ seats[c].at \in {"reading", "listing", "queued", "writing", "saved"}
            /\ \/ s.at \in {"reading", "listing", "queued", "writing", "saved", "leaving"}
               \/ s.at = "checked" /\ ~life.stopping
         \/ seats[c].at = "joining" /\ s.at = "gone"
<1>5. seats[c] \in SeatType
  BY DEF RequestTypes
<1>6. Goes(f[c])
  <2>1. ASSUME NEW at, seats' = [seats EXCEPT ![c].at = at] PROVE f[c].at = at /\ f[c].image = seats[c].image
    BY <1>3, <2>1 DEF RequestTypes, SeatType
  <2>2. CASE ReadOnTheLoop(c) \/ EndRead(c) \/ Detach(c) \/ JoinWriter(c) \/ SaveSetting(c) \/ PublishSetting(c)
    BY <2>2, <2>1 DEF ReadOnTheLoop, EndRead, Detach, JoinWriter, SaveSetting, PublishSetting,
       Moves, IsAt
  <2>3. CASE AskWorker(c) \/ WorkerAnswers(c)
    BY <1>3, <2>3 DEF AskWorker, WorkerAnswers, RequestTypes, SeatType
  <2>4. CASE AskStop(c)
    BY <1>3, <2>4 DEF AskStop, IsAt, RequestTypes, SeatType
  <2>5. CASE AskRestart(c)
    BY <1>3, <2>5 DEF AskRestart, RequestTypes, SeatType
  <2>6. ASSUME NEW k \in SettingKeys, NEW n \in {1, 2}, AskSetting(c, k, n) PROVE Goes(f[c])
    BY <1>3, <2>6 DEF AskSetting, IsAt, RequestTypes, SeatType
  <2>7. CASE BeginSetting(c)
    <3>1. CASE Moves(c, "reading")
      BY <2>1, <2>7, <3>1 DEF Moves, BeginSetting, IsAt
    <3>2. ASSUME NEW next, seats' = [seats EXCEPT ![c] = [@ EXCEPT !.at = "writing", !.next = next]]
          PROVE  Goes(f[c])
      BY <1>3, <2>7, <3>2 DEF BeginSetting, IsAt, RequestTypes, SeatType
    <3> QED
      BY <2>7, <3>1, <3>2 DEF BeginSetting
  <2>8. ASSUME NEW p \in Screens, BeginPaste(c, p) PROVE Goes(f[c])
    <3>1. PICK n : n = screens[p].instance
      OBVIOUS
    <3>2. seats' = [seats EXCEPT ![c] = [@ EXCEPT !.at = "checked", !.pane = p, !.instance = n]]
      BY <2>8, <3>1 DEF BeginPaste
    <3>3. f[c].at = "checked" /\ f[c].image = seats[c].image
      BY <1>3, <3>2 DEF RequestTypes, SeatType
    <3>4. seats[c].at = "reading" /\ ~life.stopping
      BY <2>8 DEF BeginPaste, Commands, IsAt
    <3> QED
      BY <3>3, <3>4
  <2> QED
    BY <2>2, <2>3, <2>4, <2>5, <2>6, <2>7, <2>8
<1>7. \A d \in Seats : StagesNothing(seats[d], f[d])
  BY <1>4, <1>6 DEF StagesNothing
<1>8. seats' = f
  BY <1>3
<1> HIDE DEF Goes
<1> QED
  BY <1>1, <1>2, <1>7, <1>8, ImagesFrame

(* A file is written: it has a name that none had.                         *)
LEMMA StagesKeepImages ==
    ASSUME RequestTypes, ImagesInv, StopsInv, NEW c \in Seats, StageImage(c)
    PROVE  ImagesInv' /\ StopsInv'
<1> DEFINE image == <<life.run, images.made + 1>>
           disk == Swept(images.disk)
<1>1. /\ life'.at = life.at /\ life'.run = life.run /\ life'.crashed = life.crashed
      /\ life'.swept /\ life'.stopping = life.stopping
  BY DEF StageImage, RequestTypes, LifeType
<1>2. \A d \in Seats : d # c => seats'[d] = seats[d]
  BY DEF StageImage, Moves, RequestTypes
<1>3. /\ images.made \in Int /\ \A i \in images.disk : i \in ImageNames /\ i[2] \in Int
      /\ images'.made \in {images.made, images.made + 1}
      /\ images'.staged = images.staged /\ images'.strayed = images.strayed
  BY DEF StageImage, RequestTypes, ImagesType, ImageNames
<1>4. disk \subseteq images.disk /\ \A d \in Seats : Holds(d) \subseteq disk
  BY DEF Swept, ImagesInv, HeldApart
<1>5. image \notin images.disk /\ image[1] = life.run /\ image[2] = images.made + 1
  BY <1>3 DEF ImagesInv
<1>6. life.at \notin {"closing", "ended", "crashed"}
  BY DEF StopsInv, StageImage
<1>7. Connected' = Connected /\ c \in Connected
  BY DEF Connected, StageImage, IsAt, Moves, RequestTypes, SeatType
<1>8. \A d \in Seats : d # c => /\ Holds(d)' = Holds(d) /\ Image(d)' = Image(d)
                                 /\ IsAt(d, "staged")' = IsAt(d, "staged")
  BY <1>2, <1>3 DEF Holds, IsAt, Image
<1>9. Holds(c) = images.staged[c]
  BY DEF Holds, StageImage, IsAt
<1>10. StopsInv'
  BY <1>1, <1>6 DEF StopsInv
<1>11. CASE /\ seats' = [seats EXCEPT ![c] = [@ EXCEPT !.at = "staged", !.image = image]]
            /\ images' = [images EXCEPT !.made = @ + 1, !.disk = disk \cup {image}]
  <2>1. images'.disk = disk \cup {image} /\ images'.made = images.made + 1
    BY <1>11 DEF RequestTypes, ImagesType
  <2>2. IsAt(c, "staged")' /\ Image(c)' = image
    BY <1>11 DEF RequestTypes, SeatType, IsAt, Image
  <2> HIDE DEF image, disk
  <2>3. Holds(c)' = Holds(c) \cup {image}
    BY <1>3, <1>9, <2>2 DEF Holds
  <2>4. HeldApart'
    BY <1>5, <1>4, <1>8, <2>1, <2>3, <1>3, <1>9, <2>2 DEF ImagesInv, HeldApart
  <2>5. OfSomebody'
    BY <1>7, <2>3, <1>1, <1>4, <1>8, <2>1 DEF ImagesInv, OfSomebody, Connected
  <2>6. \A i \in images'.disk : i[2] <= images'.made /\ i[1] \in life'.crashed \cup {life'.run}
    BY <1>1, <1>3, <1>4, <1>5, <2>1 DEF ImagesInv
  <2> QED
    BY <1>1, <1>3, <1>10, <2>4, <2>5, <2>6 DEF ImagesInv
<1>12. CASE Moves(c, "reading") /\ images' = [images EXCEPT !.disk = disk]
  <2>1. images'.disk = disk /\ images'.made = images.made
    BY <1>12 DEF RequestTypes, ImagesType
  <2>2. ~IsAt(c, "staged")'
    BY <1>12 DEF RequestTypes, SeatType, IsAt, Moves
  <2> HIDE DEF disk
  <2>3. Holds(c)' = Holds(c)
    BY <1>3, <1>9, <2>2 DEF Holds
  <2>4. HeldApart'
    BY <1>8, <2>3, <1>3, <2>2, <1>4, <2>1 DEF ImagesInv, HeldApart
  <2>5. OfSomebody'
    BY <1>8, <2>3, <1>1, <1>4, <1>7, <2>1 DEF ImagesInv, OfSomebody, Connected
  <2> QED
    BY <1>1, <1>3, <1>4, <1>10, <2>1, <2>4, <2>5 DEF ImagesInv
<1>13. \/ /\ seats' = [seats EXCEPT ![c] = [@ EXCEPT !.at = "staged", !.image = image]]
          /\ images' = [images EXCEPT !.made = @ + 1, !.disk = disk \cup {image}]
       \/ Moves(c, "reading") /\ images' = [images EXCEPT !.disk = disk]
  BY DEF StageImage, RequestTypes, ImagesType
<1> QED
  BY <1>11, <1>12, <1>13

(* The terminal is looked at again: the connection has the image, or it    *)
(* goes.                                                                   *)
LEMMA PastesKeepImages ==
    ASSUME RequestTypes, ImagesInv, StopsInv, NEW c \in Seats, PasteImage(c)
    PROVE  ImagesInv' /\ StopsInv'
<1> DEFINE image == Image(c)
<1>1. UNCHANGED life /\ IsAt(c, "staged") /\ c \in Connected
  BY DEF PasteImage, IsAt, Connected
<1>2. \A d \in Seats : d # c => seats'[d] = seats[d]
  BY DEF PasteImage, Moves, RequestTypes
<1>3. seats'[c].at = "reading" /\ Connected' = Connected
  BY <1>1, <1>2 DEF PasteImage, Moves, RequestTypes, SeatType, Connected
<1>4. /\ Holds(c) = images.staged[c] \cup {image} /\ image \notin images.staged[c]
      /\ image \in images.disk
      /\ \A d \in Seats : d # c => image \notin Holds(d)
  BY <1>1 DEF Holds, ImagesInv, HeldApart
<1>5. \/ SameTarget(c) /\ images' = Pasted(c)
      \/ ~SameTarget(c) /\ images' = [images EXCEPT !.disk = @ \ {image}]
  BY DEF PasteImage
<1>6. Holds(c)' = images'.staged[c]
  BY <1>3 DEF Holds, IsAt
<1>7. life.at \notin {"closing", "ended", "crashed"}
  BY <1>4 DEF StopsInv
<1>8. StopsInv'
  BY <1>1, <1>7 DEF StopsInv
<1>9. images.staged \in [Seats -> SUBSET ImageNames]
  BY DEF RequestTypes, ImagesType
<1>10. CASE SameTarget(c) /\ images' = Pasted(c)
  BY <1>10, <1>4, <1>6, <1>9, <1>2, <1>3, <1>1, <1>8 DEF Pasted, SameTarget, RequestTypes,
     ImagesType, ImagesInv, Holds, IsAt, Image, HeldApart, OfSomebody, Connected
<1>11. CASE images' = [images EXCEPT !.disk = @ \ {image}]
  BY <1>11, <1>2, <1>6, <1>3, <1>4, <1>1, <1>8 DEF RequestTypes, ImagesType, ImagesInv, Holds,
     IsAt, Image, HeldApart, Connected, OfSomebody
<1> QED
  BY <1>5, <1>10, <1>11

(* The connection goes, and its images with it.                            *)
LEMMA EndsKeepImages ==
    ASSUME RequestTypes, ImagesInv, StopsInv, NEW c \in Seats, EndSeat(c)
    PROVE  ImagesInv' /\ StopsInv'
<1>1. /\ life'.at = life.at /\ life'.run = life.run /\ life'.crashed = life.crashed
      /\ life'.swept = life.swept /\ life'.stopping = life.stopping
  BY DEF EndSeat, RequestTypes, LifeType
<1>2. \A d \in Seats : d # c => seats'[d] = seats[d]
  BY DEF EndSeat, Moves, RequestTypes
<1>3. seats[c].at = "leaving" /\ seats'[c].at = "joining" /\ Connected' = Connected \ {c}
  BY <1>2 DEF EndSeat, Moves, IsAt, RequestTypes, SeatType, Connected
<1>4. images.staged \in [Seats -> SUBSET ImageNames]
  BY DEF RequestTypes, ImagesType
<1>5. /\ images'.disk = images.disk \ images.staged[c] /\ images'.made = images.made
      /\ images'.staged = [images.staged EXCEPT ![c] = {}]
      /\ images'.strayed = images.strayed
  BY DEF EndSeat, RequestTypes, ImagesType
<1>6. Holds(c) = images.staged[c] /\ Holds(c)' = {}
  BY <1>3, <1>4, <1>5 DEF Holds, IsAt
<1>7. \A d \in Seats : d # c => Holds(d)' = Holds(d)
  BY <1>2, <1>4, <1>5 DEF Holds, IsAt, Image
<1>8. \A d \in Seats : IsAt(d, "staged")' => Image(d)' \notin images'.staged[d]
  BY <1>2, <1>3, <1>4, <1>5 DEF ImagesInv, HeldApart, IsAt, Image
<1>9. \A d \in Seats : Holds(d)' \subseteq Holds(d) /\ (d # c => Holds(d)' \cap images.staged[c] = {})
  BY <1>6, <1>7 DEF ImagesInv, HeldApart
<1>10. \A d \in Seats : Holds(d)' \subseteq images'.disk
  BY <1>5, <1>6, <1>9 DEF ImagesInv, HeldApart
<1>11. HeldApart'
  BY <1>8, <1>9, <1>10 DEF ImagesInv, HeldApart
<1>12. OfSomebody'
  BY <1>5, <1>6, <1>7, <1>1, <1>3 DEF Connected, ImagesInv, OfSomebody
<1>13. \A i \in images'.disk : i[2] <= images'.made /\ i[1] \in life'.crashed \cup {life'.run}
  BY <1>1, <1>5 DEF ImagesInv
<1>14. ~life'.swept => \A d \in Seats : Holds(d)' = {}
  BY <1>1, <1>9 DEF ImagesInv
<1>15. \A d \in Seats : IsAt(d, "checked")' => IsAt(d, "checked")
  BY <1>2, <1>3 DEF IsAt
<1>16. StopsInv'
  BY <1>1, <1>3, <1>9, <1>15 DEF StopsInv
<1> QED
  BY <1>5, <1>11, <1>12, <1>13, <1>14, <1>16 DEF ImagesInv

(* The process stops: nothing that is staged stays.                        *)
LEMMA StopsKeepImages ==
    ASSUME RequestTypes, ImagesInv, StopsInv, SeeStop \/ TakeTerminals
    PROVE  ImagesInv' /\ StopsInv'
<1>1. /\ life'.run = life.run /\ life'.crashed = life.crashed /\ life'.swept = life.swept
      /\ UNCHANGED seats
  BY DEF SeeStop, TakeTerminals, RequestTypes, LifeType
<1>2. Connected' = Connected /\ \A c \in Seats : IsAt(c, "staged")' = IsAt(c, "staged")
      /\ Image(c)' = Image(c) /\ IsAt(c, "checked")' = IsAt(c, "checked")
  BY <1>1 DEF Connected, IsAt, Image
<1>3. CASE SeeStop
  BY <1>3, <1>2, <1>1 DEF SeeStop, RequestTypes, LifeType, Holds, ImagesInv, HeldApart,
     OfSomebody, Connected, StopsInv
<1>4. CASE TakeTerminals
  <2> DEFINE all == UNION {images.staged[c] : c \in Seats}
  <2>1. /\ life.at = "stopping" /\ life'.at = "closing" /\ life'.stopping = life.stopping
        /\ \A c \in Seats : ~IsAt(c, "checked") /\ ~IsAt(c, "staged")
    BY <1>4 DEF TakeTerminals, Operations, IsAt, RequestTypes, LifeType
  <2>2. /\ images'.disk = images.disk \ all /\ images'.made = images.made
        /\ images'.staged = [c \in Seats |-> {}] /\ images'.strayed = images.strayed
    BY <1>4 DEF TakeTerminals, Unstaged, RequestTypes, ImagesType
  <2>3. \A c \in Seats : Holds(c)' = {} /\ Holds(c) = images.staged[c]
    BY <1>2, <2>1, <2>2 DEF Holds
  <2>4. \A c \in Seats : Holds(c) \subseteq all
    BY <2>3
  <2> HIDE DEF all
  <2>5. HeldApart'
    BY <1>2, <2>1, <2>3 DEF HeldApart
  <2>6. OfSomebody'
    BY <1>1, <2>1, <2>2, <2>4 DEF ImagesInv, OfSomebody, Connected
  <2>7. StopsInv'
    BY <1>2, <2>1, <2>3 DEF StopsInv
  <2> QED
    BY <1>1, <2>2, <2>3, <2>5, <2>6, <2>7 DEF ImagesInv
<1> QED
  BY <1>3, <1>4

(* The process ends, and another one starts: what the one had staged is of   *)
(* nobody when it crashed.                                                 *)
LEMMA ProcessesKeepImages ==
    ASSUME RequestTypes, ImagesInv, StopsInv, EndServer \/ CrashServer \/ StartServer
    PROVE  ImagesInv' /\ StopsInv'
<1>1. ASSUME NEW at \in {"ended", "crashed"}, ProcessEnds(at), at = "ended" => life.at = "closing"
      PROVE  ImagesInv' /\ StopsInv'
  BY <1>1 DEF ProcessEnds, RequestTypes, LifeType, ImagesType, Seat, Connected, IsAt, Holds,
     HeldApart, StopsInv, OfSomebody, ImagesInv
<1>2. CASE StartServer
  BY <1>2 DEF StartServer, NewLife, Seat, IsAt, StopsInv, Holds, ImagesInv, OfSomebody, HeldApart
<1> QED
  BY <1>1, <1>2 DEF EndServer, CrashServer

(* Files get old.                                                          *)
LEMMA DaysKeepImages ==
    ASSUME RequestTypes, ImagesInv, StopsInv, DayPasses
    PROVE  ImagesInv' /\ StopsInv'
BY DEF DayPasses, RequestTypes, ImagesType, Connected, IsAt, Image, Holds, ImagesInv, HeldApart,
   OfSomebody, StopsInv

-----------------------------------------------------------------------------
(* Settings: one writer, from what is published to what it publishes next.  *)

WritesPrefs(c) == seats[c].at \in {"writing", "saved"}
PrefsInv ==
    /\ \A c \in Seats : prefs.writer = c <=> WritesPrefs(c)
    /\ \A c \in Seats : IsAt(c, "writing") =>
         /\ seats[c].next = [prefs.published EXCEPT ![seats[c].key] = seats[c].value]
         /\ prefs.published = prefs.file
    /\ \A c \in Seats : IsAt(c, "saved") => prefs.file = seats[c].next
    /\ PrefsAgree

WritesNothing(s, t) ==
    \/ s = t
    \/ {s.at, t.at} \cap {"writing", "saved"} = {}

(* A step that leaves the settings, and who writes them, alone.            *)
LEMMA PrefsFrame ==
    ASSUME PrefsInv, UNCHANGED prefs, life'.at \in {"ended", "crashed"} <=> life.at \in {"ended", "crashed"},
           NEW f, seats' = f, \A c \in Seats : WritesNothing(seats[c], f[c])
    PROVE  PrefsInv'
<1>1. ASSUME NEW c \in Seats
      PROVE  /\ prefs'.writer = c <=> WritesPrefs(c)'
             /\ IsAt(c, "writing")' =>
                  /\ seats'[c].next = [prefs'.published EXCEPT ![seats'[c].key] = seats'[c].value]
                  /\ prefs'.published = prefs'.file
             /\ IsAt(c, "saved")' => prefs'.file = seats'[c].next
  <2>1. CASE seats[c] = f[c]
    BY <2>1 DEF PrefsInv, WritesPrefs, IsAt
  <2>2. CASE {seats[c].at, f[c].at} \cap {"writing", "saved"} = {}
    BY <2>2 DEF PrefsInv, WritesPrefs, IsAt
  <2> QED
    BY <2>1, <2>2 DEF WritesNothing
<1>2. PrefsAgree'
  BY DEF PrefsInv, PrefsAgree
<1> QED
  BY <1>1, <1>2 DEF PrefsInv

(* Panes, and the stop, leave settings alone,                              *)
LEMMA OthersKeepPrefs ==
    ASSUME RequestTypes, PrefsInv, NEW c, NEW p,
           \/ OpenPane(p) \/ DropPane(p) \/ EndTerminal(p) \/ KeepEndedTerminal(p) \/ StopForRemoval(p)
              \/ EndRemoval(p) \/ Rings(p)
           \/ ReportFocus(c, p) \/ ReportBlur(c, p) \/ Resize(c, p) \/ Mouse(c, p)
              \/ \E n \in {1, 2} : SetColors(c, n)
           \/ SeeStop \/ TakeTerminals \/ DayPasses
    PROVE  PrefsInv'
<1>1. UNCHANGED <<seats, prefs>>
  BY DEF OpenPane, DropPane, EndTerminal, KeepEndedTerminal, StopForRemoval, EndRemoval, Rings,
         ReportFocus, ReportBlur, Resize, Mouse, SetColors, SeatKeeps, SeeStop, TakeTerminals, DayPasses
<1>2. \/ UNCHANGED life \/ life' = [life EXCEPT !.instances = @ + 1]
      \/ life.at = "running" /\ life' = [life EXCEPT !.at = "stopping", !.stopping = TRUE]
      \/ life.at = "stopping" /\ life' = [life EXCEPT !.at = "closing"]
  BY DEF OpenPane, DropPane, EndTerminal, KeepEndedTerminal, StopForRemoval, EndRemoval, Rings, Installs,
         ReportFocus, ReportBlur, Resize, Mouse, SetColors, SeatKeeps, SeeStop, TakeTerminals, DayPasses
<1>3. life'.at \in {"ended", "crashed"} <=> life.at \in {"ended", "crashed"}
  BY <1>2 DEF RequestTypes, LifeType
<1>4. \A d \in Seats : WritesNothing(seats[d], seats[d])
  BY DEF WritesNothing
<1> QED
  BY <1>1, <1>3, <1>4, PrefsFrame

(* and so do connections that do something else.                           *)
LEMMA ErrandsKeepPrefs ==
    ASSUME RequestTypes, PrefsInv, NEW c \in Seats,
           \/ ReadOnTheLoop(c) \/ EndRead(c) \/ AskWorker(c) \/ WorkerAnswers(c)
              \/ AskStop(c) \/ AskRestart(c) \/ Detach(c) \/ JoinWriter(c)
           \/ \E k \in SettingKeys, n \in {1, 2} : AskSetting(c, k, n)
           \/ StageImage(c) \/ PasteImage(c) \/ EndSeat(c)
           \/ \E p \in Screens : BeginPaste(c, p)
    PROVE  PrefsInv'
<1>1. UNCHANGED prefs
  BY DEF ReadOnTheLoop, EndRead, AskWorker, WorkerAnswers, AskStop, AskRestart, Detach, JoinWriter,
         AskSetting, StageImage, PasteImage, EndSeat, BeginPaste
<1>2. life'.at = life.at
  BY DEF ReadOnTheLoop, EndRead, AskWorker, WorkerAnswers, AskStop, AskRestart, Detach, JoinWriter,
         AskSetting, StageImage, PasteImage, EndSeat, BeginPaste, RequestTypes, LifeType
<1>3. PICK f : f = seats'
  OBVIOUS
<1>4. \A d \in Seats : d # c => f[d] = seats[d]
  BY <1>3 DEF ReadOnTheLoop, EndRead, AskWorker, WorkerAnswers, AskStop, AskRestart, Detach, JoinWriter,
         AskSetting, StageImage, PasteImage, EndSeat, BeginPaste, Moves, RequestTypes
<1> DEFINE Elsewhere(at) == at \notin {"writing", "saved"}
<1>5. \/ Elsewhere(seats[c].at) /\ Elsewhere(f[c].at)
      \/ /\ f[c].at = seats[c].at /\ f[c].key = seats[c].key
         /\ f[c].value = seats[c].value /\ f[c].next = seats[c].next
  <2>1. ASSUME NEW at, Elsewhere(at), seats' = [seats EXCEPT ![c].at = at] PROVE Elsewhere(f[c].at)
    BY <1>3, <2>1 DEF RequestTypes, SeatType
  <2>2. CASE ReadOnTheLoop(c) \/ EndRead(c) \/ Detach(c) \/ JoinWriter(c) \/ PasteImage(c) \/ EndSeat(c)
    BY <2>2, <2>1 DEF ReadOnTheLoop, EndRead, Detach, JoinWriter, PasteImage, EndSeat, IsAt, Moves
  <2>3. CASE AskWorker(c) \/ WorkerAnswers(c)
    BY <1>3, <2>3 DEF AskWorker, WorkerAnswers, RequestTypes, SeatType
  <2>4. CASE AskStop(c)
    BY <1>3, <2>4 DEF AskStop, IsAt, RequestTypes, SeatType
  <2>5. CASE AskRestart(c)
    BY <1>3, <2>5 DEF AskRestart, RequestTypes, SeatType
  <2>6. ASSUME NEW k \in SettingKeys, NEW n \in {1, 2}, AskSetting(c, k, n)
        PROVE  Elsewhere(seats[c].at) /\ Elsewhere(f[c].at)
    BY <1>3, <2>6 DEF AskSetting, IsAt, RequestTypes, SeatType
  <2>7. CASE StageImage(c)
    <3>1. Elsewhere(seats[c].at)
      BY <2>7 DEF StageImage, IsAt
    <3>2. CASE Moves(c, "reading")
      <4>1. seats' = [seats EXCEPT ![c].at = "reading"] /\ Elsewhere("reading")
        BY <3>2 DEF Moves
      <4>2. Elsewhere(f[c].at)
        BY <2>1, <4>1
      <4> QED
        BY <3>1, <4>2
    <3>3. ASSUME NEW image, seats' = [seats EXCEPT ![c] = [@ EXCEPT !.at = "staged", !.image = image]]
          PROVE  Elsewhere(f[c].at)
      BY <1>3, <3>3 DEF RequestTypes, SeatType
    <3> QED
      BY <2>7, <3>1, <3>2, <3>3 DEF StageImage
  <2>8. ASSUME NEW p \in Screens, BeginPaste(c, p) PROVE Elsewhere(seats[c].at) /\ Elsewhere(f[c].at)
    <3>1. PICK n : n = screens[p].instance
      OBVIOUS
    <3>2. seats' = [seats EXCEPT ![c] = [@ EXCEPT !.at = "checked", !.pane = p, !.instance = n]]
      BY <2>8, <3>1 DEF BeginPaste
    <3>3. f[c].at = "checked"
      BY <1>3, <3>2 DEF RequestTypes, SeatType
    <3> QED
      BY <2>8, <3>3 DEF BeginPaste, Commands, IsAt
  <2> QED
    BY <2>2, <2>3, <2>4, <2>5, <2>6, <2>7, <2>8
<1> HIDE DEF Elsewhere
<1>6. prefs' = prefs /\ life'.at = life.at /\ seats' = f
  BY <1>1, <1>2, <1>3
<1>7. ASSUME NEW d \in Seats
      PROVE  /\ prefs'.writer = d <=> WritesPrefs(d)'
             /\ IsAt(d, "writing")' =>
                  /\ seats'[d].next = [prefs'.published EXCEPT ![seats'[d].key] = seats'[d].value]
                  /\ prefs'.published = prefs'.file
             /\ IsAt(d, "saved")' => prefs'.file = seats'[d].next
  BY <1>4, <1>6, <1>5 DEF PrefsInv, WritesPrefs, IsAt, Elsewhere
<1>8. PrefsAgree'
  BY <1>6 DEF PrefsInv, PrefsAgree
<1> QED
  BY <1>7, <1>8 DEF PrefsInv

(* A setting is written: the writer is the only one.                       *)
LEMMA SettingsKeepPrefs ==
    ASSUME RequestTypes, PrefsInv, StopsInv, NEW c \in Seats,
           BeginSetting(c) \/ SaveSetting(c) \/ PublishSetting(c)
    PROVE  PrefsInv'
<1>1. c # Unheld /\ UNCHANGED life
  BY NobodyIsUnheld DEF BeginSetting, SaveSetting, PublishSetting
<1>2. \A d \in Seats : d # c => seats'[d] = seats[d]
  BY DEF BeginSetting, SaveSetting, PublishSetting, Moves, RequestTypes
<1> DEFINE Fine(d) ==
      /\ prefs'.writer = d <=> WritesPrefs(d)'
      /\ IsAt(d, "writing")' =>
           /\ seats'[d].next = [prefs'.published EXCEPT ![seats'[d].key] = seats'[d].value]
           /\ prefs'.published = prefs'.file
      /\ IsAt(d, "saved")' => prefs'.file = seats'[d].next
<1>3. prefs.writer \in {Unheld, c}
         => \A d \in Seats : d # c => ~WritesPrefs(d)' /\ ~IsAt(d, "writing")' /\ ~IsAt(d, "saved")'
  BY <1>2, NobodyIsUnheld DEF PrefsInv, WritesPrefs, IsAt
<1>4. prefs.writer \in {Unheld, c} /\ prefs'.writer \in {Unheld, c}
         => \A d \in Seats : d # c => Fine(d)
  BY <1>3, NobodyIsUnheld
<1>5. CASE BeginSetting(c) /\ Moves(c, "reading") /\ UNCHANGED prefs
  <2>1. seats[c].at = "queued" /\ seats'[c].at = "reading"
    BY <1>5 DEF BeginSetting, Moves, IsAt, RequestTypes, SeatType
  <2>2. prefs.writer = Unheld
    BY <1>5 DEF BeginSetting
  <2>3. Fine(c)
    BY <1>1, <1>5, <2>1, <2>2 DEF WritesPrefs, IsAt
  <2>4. PrefsAgree'
    BY <1>1, <1>5 DEF PrefsInv, PrefsAgree
  <2>5. \A d \in Seats : Fine(d)
    BY <1>4, <1>5, <2>2, <2>3
  <2> QED
    BY <2>4, <2>5 DEF PrefsInv
<1>6. CASE BeginSetting(c) /\ ~(Moves(c, "reading") /\ UNCHANGED prefs)
  <2>1. PICK next :
          /\ next = [prefs.published EXCEPT ![seats[c].key] = seats[c].value]
          /\ seats' = [seats EXCEPT ![c] = [@ EXCEPT !.at = "writing", !.next = next]]
          /\ prefs' = [prefs EXCEPT !.writer = c]
    BY <1>6 DEF BeginSetting
  <2>2. /\ seats'[c].at = "writing" /\ seats'[c].next = next /\ seats'[c].key = seats[c].key
        /\ seats'[c].value = seats[c].value
    BY <2>1 DEF RequestTypes, SeatType
  <2>3. prefs'.writer = c /\ prefs'.published = prefs.published /\ prefs'.file = prefs.file
    BY <2>1 DEF RequestTypes, PrefsType
  <2>4. prefs.writer = Unheld /\ IsAt(c, "queued")
    BY <1>6 DEF BeginSetting
  <2>5. life.at \notin {"ended", "crashed"}
    BY <2>4 DEF StopsInv, Connected, IsAt
  <2>6. prefs.published = prefs.file
    BY <2>4, <2>5 DEF PrefsInv, PrefsAgree
  <2>7. Fine(c)
    BY <2>1, <2>2, <2>3, <2>6 DEF WritesPrefs, IsAt
  <2>8. PrefsAgree'
    BY <1>1, <2>3 DEF PrefsAgree
  <2>9. \A d \in Seats : Fine(d)
    BY <1>4, <2>3, <2>4, <2>7
  <2> QED
    BY <2>8, <2>9 DEF PrefsInv
<1>7. CASE SaveSetting(c)
  <2>1. prefs.writer = c /\ IsAt(c, "writing")
    BY <1>7 DEF SaveSetting, PrefsInv, WritesPrefs, IsAt
  <2>2. CASE prefs' = [prefs EXCEPT !.file[seats[c].key] = seats[c].value] /\ Moves(c, "saved")
    <3>1. /\ prefs'.writer = c /\ prefs'.published = prefs.published
          /\ prefs'.file = [prefs.file EXCEPT ![seats[c].key] = seats[c].value]
      BY <2>1, <2>2 DEF RequestTypes, PrefsType
    <3>2. seats'[c].at = "saved" /\ seats'[c].next = seats[c].next
      BY <2>2 DEF Moves, RequestTypes, SeatType
    <3>3. Fine(c)
      BY <2>1, <3>1, <3>2 DEF PrefsInv, WritesPrefs, IsAt
    <3>4. PrefsAgree'
      BY <1>1, <3>1 DEF PrefsAgree
    <3>5. \A d \in Seats : Fine(d)
      BY <1>4, <2>1, <3>1, <3>3
    <3> QED
      BY <3>4, <3>5 DEF PrefsInv
  <2>3. CASE prefs' = [prefs EXCEPT !.writer = Unheld] /\ Moves(c, "reading")
    <3>1. prefs'.writer = Unheld /\ prefs'.published = prefs.published /\ prefs'.file = prefs.file
      BY <2>3 DEF RequestTypes, PrefsType
    <3>2. seats'[c].at = "reading"
      BY <2>3 DEF Moves, RequestTypes, SeatType
    <3>3. Fine(c)
      BY <1>1, <3>1, <3>2 DEF WritesPrefs, IsAt
    <3>4. PrefsAgree'
      BY <2>1, <3>1 DEF PrefsInv, PrefsAgree
    <3>5. \A d \in Seats : Fine(d)
      BY <1>4, <2>1, <3>1, <3>3
    <3> QED
      BY <3>4, <3>5 DEF PrefsInv
  <2> QED
    BY <1>7, <2>2, <2>3 DEF SaveSetting
<1>8. CASE PublishSetting(c)
  <2>1. prefs.writer = c /\ IsAt(c, "saved") /\ prefs.file = seats[c].next
    BY <1>8 DEF PublishSetting, PrefsInv, WritesPrefs, IsAt
  <2>2. prefs'.writer = Unheld /\ prefs'.published = seats[c].next /\ prefs'.file = prefs.file
    BY <1>8 DEF PublishSetting, RequestTypes, PrefsType
  <2>3. seats'[c].at = "reading"
    BY <1>8 DEF PublishSetting, Moves, RequestTypes, SeatType
  <2>4. Fine(c)
    BY <1>1, <2>2, <2>3 DEF WritesPrefs, IsAt
  <2>5. PrefsAgree'
    BY <2>1, <2>2 DEF PrefsAgree
  <2>6. \A d \in Seats : Fine(d)
    BY <1>4, <2>1, <2>2, <2>4
  <2> QED
    BY <2>5, <2>6 DEF PrefsInv
<1> QED
  BY <1>5, <1>6, <1>7, <1>8

(* A process that ends leaves the file; the next one reads it.             *)
LEMMA ProcessesKeepPrefs ==
    ASSUME RequestTypes, PrefsInv, StopsInv, EndServer \/ CrashServer \/ StartServer
    PROVE  PrefsInv'
<1>1. \A c \in Seats : c # Unheld
  BY NobodyIsUnheld
<1>2. ASSUME NEW at \in {"ended", "crashed"}, ProcessEnds(at) PROVE PrefsInv'
  BY <1>2, <1>1 DEF ProcessEnds, RequestTypes, PrefsType, LifeType, Seat, PrefsInv, WritesPrefs,
     IsAt, PrefsAgree
<1>3. CASE StartServer
  BY <1>3 DEF StartServer, RequestTypes, PrefsType, Seat, StopsInv, PrefsInv, WritesPrefs,
     Connected, IsAt, PrefsAgree
<1> QED
  BY <1>2, <1>3 DEF EndServer, CrashServer

-----------------------------------------------------------------------------
RequestsInv == RequestTypes /\ DeskInv /\ ImagesInv /\ StopsInv /\ PrefsInv

(* All of it is kept by what happens to Panes,                             *)
LEMMA ScreensKeepRequests ==
    ASSUME RequestsInv, NEW p \in Screens,
           OpenPane(p) \/ DropPane(p) \/ EndTerminal(p) \/ KeepEndedTerminal(p) \/ StopForRemoval(p)
             \/ EndRemoval(p) \/ Rings(p)
    PROVE  RequestsInv'
BY ScreenTypes, ScreensKeepDesk, ScreensKeepImages, OthersKeepPrefs DEF RequestsInv

(* by the focus, sizes, the mouse and the colours,                         *)
LEMMA HandsKeepRequests ==
    ASSUME RequestsInv, NEW c \in Seats,
           \/ \E p \in Screens : ReportFocus(c, p) \/ ReportBlur(c, p) \/ Resize(c, p) \/ Mouse(c, p)
           \/ \E n \in {1, 2} : SetColors(c, n)
    PROVE  RequestsInv'
BY DeskTypes, ColorsType, FocusKeepsDesk, BlurKeepsDesk, HandsKeepDesk, ColorsKeepDesk,
   ScreensKeepImages, OthersKeepPrefs DEF RequestsInv

(* A connection's thread that does something else holds on to what it      *)
(* has.                                                                    *)
LEMMA ErrandsKeepDesk ==
    ASSUME RequestTypes, DeskInv, NEW c \in Seats,
           \/ ReadOnTheLoop(c) \/ EndRead(c) \/ AskWorker(c) \/ WorkerAnswers(c)
              \/ AskStop(c) \/ AskRestart(c) \/ Detach(c) \/ JoinWriter(c)
           \/ \E k \in SettingKeys, n \in {1, 2} : AskSetting(c, k, n)
           \/ BeginSetting(c) \/ SaveSetting(c) \/ PublishSetting(c)
           \/ StageImage(c) \/ PasteImage(c) \/ \E p \in Screens : BeginPaste(c, p)
    PROVE  DeskInv'
<1>1. UNCHANGED <<screens, desk>>
  BY DEF ReadOnTheLoop, EndRead, AskWorker, WorkerAnswers, AskStop, AskRestart, Detach, JoinWriter,
         AskSetting, BeginSetting, SaveSetting, PublishSetting, BeginPaste, StageImage, PasteImage
<1>2. PICK f : f = seats'
  OBVIOUS
<1>3. \A d \in Seats : d # c => f[d] = seats[d]
  BY <1>2 DEF ReadOnTheLoop, EndRead, AskWorker, WorkerAnswers, AskStop, AskRestart, Detach, JoinWriter, Moves,
         AskSetting, BeginSetting, SaveSetting, PublishSetting, BeginPaste, StageImage, PasteImage, RequestTypes
<1> DEFINE Stays(at) == at \notin {"joining", "gone"}
<1>4. Stays(seats[c].at) => Stays(f[c].at)
  <2>1. ASSUME NEW at, Stays(at), seats' = [seats EXCEPT ![c].at = at] PROVE Stays(f[c].at)
    BY <1>2, <2>1 DEF RequestTypes, SeatType
  <2>2. CASE ReadOnTheLoop(c) \/ EndRead(c) \/ Detach(c) \/ SaveSetting(c) \/ PublishSetting(c) \/ PasteImage(c)
    BY <2>2, <2>1 DEF ReadOnTheLoop, EndRead, Detach, SaveSetting, PublishSetting, PasteImage,
       Moves
  <2>3. CASE JoinWriter(c)
    BY <2>3 DEF JoinWriter, IsAt
  <2>4. CASE AskWorker(c) \/ WorkerAnswers(c)
    BY <1>2, <2>4 DEF AskWorker, WorkerAnswers, RequestTypes, SeatType
  <2>5. CASE AskStop(c)
    BY <1>2, <2>5 DEF AskStop, RequestTypes, SeatType
  <2>6. CASE AskRestart(c)
    BY <1>2, <2>6 DEF AskRestart, RequestTypes, SeatType
  <2>7. ASSUME NEW k \in SettingKeys, NEW n \in {1, 2}, AskSetting(c, k, n) PROVE Stays(f[c].at)
    BY <1>2, <2>7 DEF AskSetting, RequestTypes, SeatType
  <2>8. CASE BeginSetting(c)
    <3>1. CASE Moves(c, "reading")
      <4>1. seats' = [seats EXCEPT ![c].at = "reading"] /\ Stays("reading")
        BY <3>1 DEF Moves
      <4> QED
        BY <2>1, <4>1
    <3>2. ASSUME NEW next, seats' = [seats EXCEPT ![c] = [@ EXCEPT !.at = "writing", !.next = next]]
          PROVE  Stays(f[c].at)
      BY <1>2, <3>2 DEF RequestTypes, SeatType
    <3> QED
      BY <2>8, <3>1, <3>2 DEF BeginSetting
  <2>9. ASSUME NEW p \in Screens, BeginPaste(c, p) PROVE Stays(f[c].at)
    BY <2>9, <1>2 DEF BeginPaste, RequestTypes, SeatType
  <2>10. CASE StageImage(c)
    <3>1. CASE Moves(c, "reading")
      <4>1. seats' = [seats EXCEPT ![c].at = "reading"] /\ Stays("reading")
        BY <3>1 DEF Moves
      <4> QED
        BY <2>1, <4>1
    <3>2. ASSUME NEW image, seats' = [seats EXCEPT ![c] = [@ EXCEPT !.at = "staged", !.image = image]]
          PROVE  Stays(f[c].at)
      BY <1>2, <3>2 DEF RequestTypes, SeatType
    <3> QED
      BY <2>10, <3>1, <3>2 DEF StageImage
  <2> QED
    BY <2>2, <2>3, <2>4, <2>5, <2>6, <2>7, <2>8, <2>9, <2>10
<1>5. \A d \in Seats : seats[d].at \notin {"joining", "gone"} => f[d].at \notin {"joining", "gone"}
  BY <1>3, <1>4
<1>6. seats' = f
  BY <1>2
<1> HIDE DEF Stays
<1> QED
  BY <1>1, <1>5, <1>6, DeskFrame

(* by what a connection's thread does for its Client,                      *)
LEMMA SeatsKeepRequests ==
    ASSUME RequestsInv, NEW c \in Seats,
           \/ ReadOnTheLoop(c) \/ EndRead(c) \/ AskWorker(c) \/ WorkerAnswers(c)
              \/ AskStop(c) \/ AskRestart(c) \/ Detach(c) \/ JoinWriter(c)
           \/ \E k \in SettingKeys, n \in {1, 2} : AskSetting(c, k, n)
           \/ BeginSetting(c) \/ SaveSetting(c) \/ PublishSetting(c)
           \/ StageImage(c) \/ PasteImage(c) \/ \E p \in Screens : BeginPaste(c, p)
    PROVE  RequestsInv'
<1> USE DEF RequestsInv
<1>1. RequestTypes'
  BY ErrandTypes, PasteTypes, SettingTypes
<1>2. DeskInv'
  BY ErrandsKeepDesk
<1>3. ImagesInv' /\ StopsInv'
  BY ErrandsKeepImages, StagesKeepImages, PastesKeepImages
<1>4. PrefsInv'
  BY ErrandsKeepPrefs, SettingsKeepPrefs
<1> QED
  BY <1>1, <1>2, <1>3, <1>4

(* and by the ends of connections and of the Server.                       *)
LEMMA ServerKeepsRequests ==
    ASSUME RequestsInv,
           \/ \E c \in Seats : EndSeat(c)
           \/ SeeStop \/ TakeTerminals \/ EndServer \/ CrashServer \/ StartServer \/ DayPasses
    PROVE  RequestsInv'
<1> USE DEF RequestsInv
<1>1. RequestTypes'
  BY EndTypes
<1>2. DeskInv'
  BY DeskFrame, EndsKeepDesk, ServerKeepsDesk DEF SeeStop, DayPasses
<1>3. ImagesInv' /\ StopsInv'
  BY EndsKeepImages, StopsKeepImages, ProcessesKeepImages, DaysKeepImages
<1>4. PrefsInv'
  BY ErrandsKeepPrefs, OthersKeepPrefs, ProcessesKeepPrefs
<1> QED
  BY <1>1, <1>2, <1>3, <1>4

(* Nobody holds anything at first.                                         *)
LEMMA RequestsStart ==
    ASSUME NEW bounds, NEW there \in SUBSET Screens, RequestsInit(bounds, there)
    PROVE  RequestsInv
<1>1. Seat \in SeatType
  BY DEF Seat, SeatType, SeatPlaces, ImageNames, Values, SettingKeys
<1>2. seats \in [Seats -> SeatType]
  BY <1>1 DEF RequestsInit
<1>3. screens \in [Screens -> ScreenType]
  BY DEF RequestsInit, ScreenType
<1>4. desk \in DeskType
  BY DEF RequestsInit, NewDesk, NoFocus, DeskType
<1>5. images \in ImagesType
  BY DEF RequestsInit, ImagesType
<1>6. prefs \in PrefsType
  BY DEF RequestsInit, PrefsType, Values
<1>7. life \in LifeType
  BY DEF RequestsInit, NewLife, LifeType
<1>8. RequestTypes
  BY <1>2, <1>3, <1>4, <1>5, <1>6, <1>7 DEF RequestTypes
<1>9. \A c \in Seats : seats[c].at = "reading"
  BY DEF RequestsInit, Seat
<1>10. Unheld \notin Seats
  BY NobodyIsUnheld
<1>11. DeskInv
  BY DEF RequestsInit, NewDesk, NoFocus, NobodyGoneHolds, DeskInv, ScreenIsFine
<1>12. ImagesInv /\ StopsInv
  BY <1>9 DEF RequestsInit, Holds, IsAt, NewLife, ImagesInv, HeldApart, OfSomebody, StopsInv
<1>13. PrefsInv
  BY <1>9, <1>10 DEF RequestsInit, PrefsInv, WritesPrefs, IsAt, PrefsAgree
<1> QED
  BY <1>8, <1>11, <1>12, <1>13 DEF RequestsInv

(* Every step keeps it.                                                    *)
LEMMA RequestsKeep == RequestsInv /\ [RequestsNext]_seatVars => RequestsInv'
<1> SUFFICES ASSUME RequestsInv, [RequestsNext]_seatVars PROVE RequestsInv'
  OBVIOUS
<1>1. CASE RequestsNext
  BY <1>1, ScreensKeepRequests, HandsKeepRequests, SeatsKeepRequests, ServerKeepsRequests
     DEF RequestsNext, ServerGoesOn
<1>2. CASE UNCHANGED seatVars
  <2> USE <1>2 DEF seatVars
  <2>1. RequestTypes'
    BY DEF RequestsInv, RequestTypes
  <2>2. DeskInv'
    BY DEF RequestsInv, DeskInv, ScreenIsFine, NobodyGoneHolds, Connected, Live, InSession
  <2>3. ImagesInv'
    BY DEF RequestsInv, ImagesInv, HeldApart, OfSomebody, Holds, IsAt, Image, Connected
  <2>4. StopsInv'
    BY DEF RequestsInv, StopsInv, Holds, IsAt, Image, Connected
  <2>5. PrefsInv'
    BY DEF RequestsInv, PrefsInv, WritesPrefs, IsAt, PrefsAgree
  <2> QED
    BY <2>1, <2>2, <2>3, <2>4, <2>5 DEF RequestsInv
<1> QED
  BY <1>1, <1>2

(* Whatever Clients ask, the focus, the sizing and the mouse are with one  *)
(* that is there, images with theirs, and the settings with one writer     *)
(* (terminal_state.rs; clipboard_image.rs; server/client.rs:               *)
(* set_server_setting).                                                    *)
THEOREM RequestsInvHolds == RequestsSpec => []RequestsInv
<1>1. (\E bounds \in [SeatActs -> Nat], there \in SUBSET Screens : RequestsInit(bounds, there)) => RequestsInv
  BY RequestsStart
<1>2. RequestsInv /\ [RequestsNext]_seatVars => RequestsInv'
  BY RequestsKeep
<1> QED
  BY <1>1, <1>2, PTL DEF RequestsSpec

(* A connection that goes, however it goes, leaves nothing held, no        *)
(* button pressed and no image, and no image is pasted into another        *)
(* terminal than the one that was meant (server/client.rs: handle_client,  *)
(* the terminal looked at again after the write).                          *)
THEOREM RequestsStaySound == RequestsSpec => []RequestsAreSound
<1>1. RequestsInv => RequestsAreSound
  BY ImagesImply DEF RequestsInv, DeskInv, ScreenIsFine, OneHasTheFocus, SeenIsNotUnseen,
     ButtonsAreReleased, ColorsAreEveryones, PrefsInv, RequestsAreSound
<1> QED
  BY <1>1, RequestsInvHolds, PTL

===============================================================================
