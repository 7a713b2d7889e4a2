------------------------- MODULE ChatPipeline_proofs -------------------------
(***************************************************************************)
(* Proofs about ChatPipeline for every set of customers, messages and      *)
(* threads and every bound.                                                *)
(***************************************************************************)
EXTENDS ChatPipeline, FiniteSetTheorems, SequenceTheorems, TLAPS

-------------------------------------------------------------------------------
(* The order of the conversations.                                         *)

(* A non-empty set of numbers has a least one.                             *)
LEMMA LeastNumber ==
  ASSUME NEW S, S \subseteq Nat, S # {}
  PROVE  \E m \in S : \A k \in S : m <= k
<1>1. PICK m \in S : \A k \in S : <<k, m>> \notin OpToRel(<, Nat)
  BY WFMin, NatLessThanWellFounded, Zenon
<1>2. \A k \in S : ~(k < m)
  BY <1>1, Zenon DEF OpToRel
<1> QED
  BY <1>2

(* The positions before one of them, and how many they are.                *)
Before(at, i) == {j \in at : j < i}

LEMMA PlacesCard ==
  ASSUME NEW N \in Nat, NEW at, at \subseteq 1..N
  PROVE  IsFiniteSet(at) /\ Cardinality(at) \in Nat
<1>1. IsFiniteSet(1..N)
  BY FS_Interval
<1> QED
  BY <1>1, FS_Subset, FS_CardinalityType

LEMMA BeforeCard ==
  ASSUME NEW N \in Nat, NEW at, at \subseteq 1..N
  PROVE  \A i : IsFiniteSet(Before(at, i)) /\ Cardinality(Before(at, i)) \in Nat
<1> TAKE i
<1>1. Before(at, i) \subseteq at
  BY DEF Before
<1>2. IsFiniteSet(at)
  BY PlacesCard
<1> QED
  BY <1>1, <1>2, FS_Subset, FS_CardinalityType

(* Every place is taken: some position has n - 1 before it.                *)
LEMMA RankTaken ==
  ASSUME NEW N \in Nat, NEW at, at \subseteq 1..N, NEW n \in 1..Cardinality(at)
  PROVE  \E i \in at : Cardinality(Before(at, i)) = n - 1
<1> DEFINE enough == {i \in 1..N + 1 : Cardinality(Before(at, i)) >= n}
<1>1. \A i : IsFiniteSet(Before(at, i)) /\ Cardinality(Before(at, i)) \in Nat
  BY BeforeCard
<1>2. Cardinality(at) \in Nat /\ n \in Nat /\ n >= 1 /\ n <= Cardinality(at)
  <2>1. Cardinality(at) \in Nat
    BY PlacesCard
  <2> QED
    BY <2>1
<1>3. N + 1 \in Int /\ \A j \in at : j \in Int /\ 1 <= j /\ j < N + 1
  OBVIOUS
<1>4. \A i : i \in enough <=> i \in 1..N + 1 /\ Cardinality(Before(at, i)) >= n
  OBVIOUS
<1> HIDE DEF enough
<1>5. N + 1 \in enough
  <2>1. Before(at, N + 1) = at
    BY <1>3 DEF Before
  <2>2. N + 1 \in 1..N + 1
    OBVIOUS
  <2> QED
    BY <1>2, <1>4, <2>1, <2>2
<1>6. PICK m \in enough : \A k \in enough : m <= k
  <2>1. enough \subseteq Nat /\ enough # {}
    BY <1>5, <1>4
  <2> QED
    BY <2>1, LeastNumber
<1>7. m \in 1..N + 1 /\ m \in Int /\ Cardinality(Before(at, m)) >= n
  BY <1>4
<1>8. m # 1
  <2>1. Before(at, 1) = {}
    <3>1. \A j \in at : ~(j < 1)
      BY <1>3
    <3> QED
      BY <3>1 DEF Before
  <2>2. Cardinality(Before(at, 1)) = 0
    BY <2>1, FS_EmptySet
  <2> QED
    BY <1>2, <1>7, <2>2
<1>9. m - 1 \in 1..N /\ m - 1 \notin enough
  BY <1>6, <1>8, <1>4, <1>7
<1>10. Cardinality(Before(at, m - 1)) <= n - 1
  BY <1>1, <1>2, <1>9, <1>4
<1>11. m - 1 \in at
  <2> SUFFICES ASSUME m - 1 \notin at PROVE FALSE
    OBVIOUS
  <2>1. Before(at, m) = Before(at, m - 1)
    <3>1. \A j \in at : j # m - 1
      OBVIOUS
    <3>2. \A j \in at : j < m <=> j < m - 1
      BY <1>3, <1>7, <1>9, <3>1
    <3> QED
      BY <3>2 DEF Before
  <2> QED
    BY <1>1, <1>2, <1>10, <1>7, <2>1
<1>12. Before(at, m) = Before(at, m - 1) \cup {m - 1} /\ m - 1 \notin Before(at, m - 1)
  <2>1. \A j \in at : j < m <=> j < m - 1 \/ j = m - 1
    BY <1>3, <1>7, <1>9
  <2>2. ~(m - 1 < m - 1)
    BY <1>9
  <2> QED
    BY <1>11, <2>1, <2>2 DEF Before
<1>13. Cardinality(Before(at, m)) = Cardinality(Before(at, m - 1)) + 1
  BY <1>1, <1>12, FS_AddElement
<1>14. Cardinality(Before(at, m)) >= n
  BY <1>7
<1>15. Cardinality(Before(at, m - 1)) = n - 1
  BY <1>1, <1>2, <1>10, <1>13, <1>14
<1> QED
  BY <1>11, <1>15

(* No two positions share a place.                                         *)
LEMMA RankOnce ==
  ASSUME NEW N \in Nat, NEW at, at \subseteq 1..N, NEW i \in at, NEW k \in at, i < k
  PROVE  Cardinality(Before(at, i)) < Cardinality(Before(at, k))
<1>1. /\ IsFiniteSet(Before(at, i)) /\ Cardinality(Before(at, i)) \in Nat
      /\ IsFiniteSet(Before(at, k)) /\ Cardinality(Before(at, k)) \in Nat
  BY BeforeCard
<1>2. i \notin Before(at, i) /\ Before(at, i) \cup {i} \subseteq Before(at, k)
  <2>1. \A j \in at : j \in Int
    OBVIOUS
  <2>2. i < k /\ ~(i < i) /\ \A j \in at : j < i => j < k
    BY <2>1
  <2> QED
    BY <2>2 DEF Before
<1>3. Cardinality(Before(at, i) \cup {i}) = Cardinality(Before(at, i)) + 1
  BY <1>1, <1>2, FS_AddElement
<1>4. Cardinality(Before(at, i) \cup {i}) <= Cardinality(Before(at, k))
  BY <1>1, <1>2, FS_Subset
<1> QED
  BY <1>1, <1>3, <1>4

LEMMA RankRange ==
  ASSUME NEW N \in Nat, NEW at, at \subseteq 1..N, NEW i \in at
  PROVE  Cardinality(Before(at, i)) + 1 \in 1..Cardinality(at)
<1>1. /\ IsFiniteSet(at) /\ Cardinality(at) \in Nat
      /\ IsFiniteSet(Before(at, i)) /\ Cardinality(Before(at, i)) \in Nat
  BY BeforeCard, PlacesCard
<1>2. i \notin Before(at, i) /\ Before(at, i) \cup {i} \subseteq at
  BY DEF Before
<1>3. Cardinality(Before(at, i) \cup {i}) = Cardinality(Before(at, i)) + 1
  BY <1>1, <1>2, FS_AddElement
<1>4. Cardinality(Before(at, i) \cup {i}) <= Cardinality(at)
  BY <1>1, <1>2, FS_Subset
<1> QED
  BY <1>1, <1>3, <1>4

(* The listed conversations are of the asked-for customers, and each of    *)
(* them that has a conversation is listed.                                 *)
LEMMA ListedType ==
  ASSUME newest \in Seq(Customers), NEW S
  PROVE  /\ Listed(S) \in Seq(Customers)
         /\ \A k \in 1..Len(newest) :
              newest[k] \in S => \E n \in 1..Len(Listed(S)) : Listed(S)[n] = newest[k]
<1> DEFINE N == Len(newest)
           at == {i \in 1..N : newest[i] \in S}
           Nth(n) == CHOOSE i \in at : Cardinality(Before(at, i)) = n - 1
<1>1. N \in Nat /\ at \subseteq 1..N /\ Cardinality(at) \in Nat
  <2>1. N \in Nat /\ at \subseteq 1..N
    OBVIOUS
  <2> QED
    BY <2>1, PlacesCard
<1>2. Listed(S) = [n \in 1..Cardinality(at) |-> newest[Nth(n)]]
  BY DEF Listed, Before
<1>3. ASSUME NEW n \in 1..Cardinality(at)
      PROVE  Nth(n) \in at /\ Cardinality(Before(at, Nth(n))) = n - 1
  <2>1. \E i \in at : Cardinality(Before(at, i)) = n - 1
    <3> HIDE DEF at, N
    <3> QED
      BY <1>1, RankTaken
  <2> QED
    BY <2>1
<1>4. \A n \in 1..Cardinality(at) : newest[Nth(n)] \in Customers
  <2>1. \A i \in at : newest[i] \in Customers
    BY <1>1
  <2> QED
    BY <1>3, <2>1
<1>5. Listed(S) \in Seq(Customers) /\ Len(Listed(S)) = Cardinality(at)
  <2> HIDE DEF at, N, Nth
  <2> QED
    BY <1>1, <1>2, <1>4
<1>6. ASSUME NEW k \in at
      PROVE  \E n \in 1..Len(Listed(S)) : Listed(S)[n] = newest[k]
  <2> DEFINE n == Cardinality(Before(at, k)) + 1
  <2>1. n \in 1..Cardinality(at)
    <3> HIDE DEF at, N
    <3> QED
      BY <1>1, RankRange
  <2>2. Nth(n) \in at /\ Cardinality(Before(at, Nth(n))) = n - 1
    BY <1>3, <2>1
  <2>3. Cardinality(Before(at, k)) \in Nat
    <3> HIDE DEF at, N
    <3> QED
      BY <1>1, BeforeCard
  <2>4. Nth(n) = k
    <3>1. PICK i \in at : i = Nth(n) /\ Cardinality(Before(at, i)) = Cardinality(Before(at, k))
      <4> HIDE DEF at, N, Nth
      <4> QED
        BY <2>2, <2>3
    <3>2. i \in Int /\ k \in Int
      BY <1>1
    <3>3. ~(i < k) /\ ~(k < i)
      <4> HIDE DEF at, N, Nth
      <4>1. i < k => Cardinality(Before(at, i)) < Cardinality(Before(at, k))
        BY <1>1, RankOnce
      <4>2. k < i => Cardinality(Before(at, k)) < Cardinality(Before(at, i))
        BY <1>1, RankOnce
      <4> QED
        BY <2>3, <3>1, <4>1, <4>2
    <3> HIDE DEF at, N, Nth
    <3> QED
      BY <3>1, <3>2, <3>3
  <2> HIDE DEF n
  <2> QED
    BY <1>2, <1>5, <2>1, <2>4
<1> QED
  BY <1>5, <1>6

-------------------------------------------------------------------------------
(* The part of the type invariant the argument needs.                      *)
Types == /\ customers \in [Customers -> [pk : Nat, paused : BOOLEAN]]
         /\ lastPk \in Nat
         /\ messages \subseteq Inbound \cup Outbound
         /\ lastId \in Nat
         /\ now \in Nat
         /\ queue \in Seq(Msgs)
         /\ batch \in Seq(Msgs)
         /\ inbox \in [Customers -> [last : Msgs \cup {None}, answered : BOOLEAN,
                                     changed : BOOLEAN, misread : BOOLEAN]]
         /\ proc \in [Workers -> Work]
         /\ answers \in [Mids -> Nat]

Deciding(w) == proc[w].step \in {"decide", "record"}
Holding(w) == proc[w].step \in {"rename", "store", "decide", "record"}
CustRows == {r \in messages : r.sender = "customer"}

(* Primary keys are never used twice, so a worker whose customer was       *)
(* deleted does not come back to life with the customer's next row.        *)
Keys == /\ \A c \in Customers : customers[c].pk <= lastPk
        /\ \A c, d \in Customers : customers[c].pk = customers[d].pk /\ customers[c].pk # 0
                                     => c = d
        /\ \A w \in Workers : Holding(w) => proc[w].pk \in 1..lastPk

(* A stored message belongs to its writer's present row.                   *)
Owned == \A r \in CustRows : /\ r.mid \in Mids
                             /\ r.pk = customers[From[r.mid[1]]].pk
                             /\ r.pk # 0

(* A worker that is about to reply is the only one for its message's id,   *)
(* that is stored and not replied to yet.                                  *)
Held == \A w \in Workers : Deciding(w) /\ Alive(w) =>
          /\ Stored(OwnMid(w))
          /\ answers[OwnMid(w)] = 0
          /\ \A v \in Workers : Deciding(v) /\ Alive(v) /\ OwnMid(v) = OwnMid(w) => v = w

(* Only stored messages have been replied to.                              *)
Fresh == \A i \in Mids : ~Stored(i) => answers[i] = 0

Inv == Keys /\ Owned /\ Held /\ Fresh /\ OneReplyPerId

-------------------------------------------------------------------------------
(* What a worker has in its hands, by the step it is at.                   *)
LEMMA WorkType ==
  ASSUME Types, NEW w \in Workers
  PROVE  /\ proc[w].step # "idle" => Msg(w) \in Msgs
         /\ proc[w].step \in {"rename", "store", "decide", "record", "send"} =>
              proc[w].pk \in Nat
         /\ proc[w].step \in {"record", "send", "pick"} => proc[w].text \in BotTexts
         /\ proc[w].step = "send" => proc[w].tries \in Nat
         /\ proc[w].step = "erase" => proc[w].row \in Nat
  BY DEF Types, Work, Msg

LEMMA MidType ==
  ASSUME Types, NEW w \in Workers, proc[w].step # "idle"
  PROVE  /\ OwnMid(w) \in Mids
         /\ OwnMid(w)[1] = Msg(w)
         /\ Sender(w) \in Customers
  BY WorkType, FromAssumption DEF OwnMid, Mid, Mids, Channel, Channels, Sender

LEMMA TypesInit == Init => Types
  BY DEF Init, Types, Work, Idle, Unwritten

(* Replacing one worker's record by a well-formed one.                     *)
LEMMA GoType ==
  ASSUME Types, NEW w \in Workers, NEW work \in Work, Go(w, work)
  PROVE  proc' \in [Workers -> Work]
  BY DEF Go, Types

LEMMA StartType ==
  ASSUME Types, NEW w \in Workers, NEW m \in Msgs, Start(w, m)
  PROVE  proc' \in [Workers -> Work]
  BY DEF Start, Go, Types, Work

LEMMA IdleType == Idle \in Work
  BY DEF Idle, Work

LEMMA FinishType ==
  ASSUME Types, NEW w \in Workers, Finish(w)
  PROVE  proc' \in [Workers -> Work]
  BY IdleType, GoType DEF Finish

LEMMA RaiseType ==
  ASSUME Types, NEW w \in Workers, NEW b, Raise(w, b)
  PROVE  proc' \in [Workers -> Work]
  BY IdleType, GoType DEF Raise

LEMMA ContinueType ==
  ASSUME Types, NEW w \in Workers, NEW work \in Work, Continue(w, work)
  PROVE  proc' \in [Workers -> Work]
  BY GoType DEF Continue

LEMMA AnswerType ==
  ASSUME Types, NEW c \in Customers, WeAnswer(c)
  PROVE  inbox' \in [Customers -> [last : Msgs \cup {None}, answered : BOOLEAN,
                                   changed : BOOLEAN, misread : BOOLEAN]]
  BY DEF Types, WeAnswer, Update, Unread

(* The steps of process_incoming_message and of sending.                   *)
LEMMA ProcessTypes ==
  ASSUME Types, NEW w \in Workers, Process(w)
  PROVE  Types'
<1>1. CASE KnownMessage(w)
  BY <1>1, FinishType DEF KnownMessage, Types, db, world, hook, remote
<1>2. CASE NewMessage(w)
  <2>1. [step |-> "find", msg |-> Msg(w)] \in Work
    BY <1>2, WorkType DEF NewMessage, At, Work
  <2> QED
    BY <1>2, <2>1, ContinueType DEF NewMessage, Types, db, world, hook, remote
<1>3. CASE FindCustomer(w)
  <2>1. Msg(w) \in Msgs /\ customers[Sender(w)].pk \in Nat
    BY <1>3, WorkType, MidType DEF FindCustomer, At, Types
  <2>2. [step |-> "create", msg |-> Msg(w)] \in Work
    BY <2>1 DEF Work
  <2>3. ASSUME NEW next \in {"store", "rename"}
        PROVE  [step |-> next, msg |-> Msg(w), pk |-> customers[Sender(w)].pk] \in Work
    BY <2>1, <2>3 DEF Work
  <2>4. proc' \in [Workers -> Work]
    BY <1>3, <2>2, <2>3, ContinueType DEF FindCustomer
  <2> QED
    BY <1>3, <2>4 DEF FindCustomer, Types, db, world, hook, remote
<1>4. CASE CreateCustomer(w)
  <2>1. Msg(w) \in Msgs /\ Sender(w) \in Customers
    BY <1>4, WorkType, MidType DEF CreateCustomer, At
  <2>2. CASE customers[Sender(w)].pk = 0
    <3>1. [step |-> "store", msg |-> Msg(w), pk |-> lastPk + 1] \in Work
      BY <2>1 DEF Work, Types
    <3>2. proc' \in [Workers -> Work]
      BY <1>4, <2>2, <3>1, ContinueType DEF CreateCustomer
    <3>3. customers' \in [Customers -> [pk : Nat, paused : BOOLEAN]] /\ lastPk' \in Nat
      <4>1. lastPk' = lastPk + 1
        BY <1>4, <2>2 DEF CreateCustomer
      <4>2. customers' = [customers EXCEPT ![Sender(w)] = [pk |-> lastPk + 1,
                                                           paused |-> FALSE]]
        BY <1>4, <2>2 DEF CreateCustomer
      <4> QED
        BY <2>1, <4>1, <4>2 DEF Types
    <3> QED
      BY <1>4, <3>2, <3>3 DEF CreateCustomer, Types, world, hook, remote
  <2>3. CASE customers[Sender(w)].pk # 0
    BY <1>4, <2>3, RaiseType DEF CreateCustomer, Types, world, hook, remote
  <2> QED
    BY <2>2, <2>3
<1>5. CASE RenameCustomer(w)
  <2>1. [proc[w] EXCEPT !.step = "store"] \in Work
    BY <1>5 DEF RenameCustomer, At, Types, Work
  <2>2. proc' \in [Workers -> Work]
    BY <1>5, <2>1, ContinueType, RaiseType DEF RenameCustomer
  <2> QED
    BY <1>5, <2>2 DEF RenameCustomer, Types, db, world, hook, remote
<1>6. CASE StoreMessage(w)
  <2>1. [proc[w] EXCEPT !.step = "decide"] \in Work
    BY <1>6 DEF StoreMessage, At, Types, Work
  <2>2. [id |-> lastId + 1, pk |-> proc[w].pk, sender |-> "customer", text |-> Msg(w),
         mid |-> OwnMid(w)] \in Inbound
    <3>1. lastId \in Nat /\ proc[w].pk \in Nat /\ Msg(w) \in Msgs /\ OwnMid(w) \in Mids
      BY <1>6, WorkType, MidType DEF StoreMessage, At, Types
    <3> QED
      BY <3>1 DEF Inbound
  <2>3. messages' \subseteq Inbound \cup Outbound
    BY <1>6, <2>2 DEF StoreMessage, Types
  <2>4. proc' \in [Workers -> Work]
    BY <1>6, <2>1, ContinueType DEF StoreMessage
  <2> QED
    BY <1>6, <2>3, <2>4 DEF StoreMessage, Types, world, hook, remote
<1>7. CASE StoreRefused(w)
  BY <1>7, FinishType DEF StoreRefused, Types, db, world, hook, remote
<1>8. CASE Decide(w)
  <2>1. ASSUME NEW text \in Reply(w)
        PROVE  [step |-> "record", msg |-> Msg(w), pk |-> proc[w].pk, text |-> text] \in Work
    <3>1. text \in BotTexts
      BY <2>1 DEF Reply, BotTexts
    <3> QED
      BY <1>8, <3>1, WorkType DEF Decide, At, Work
  <2>2. proc' \in [Workers -> Work]
    BY <1>8, <2>1, ContinueType, RaiseType, FinishType DEF Decide
  <2> QED
    BY <1>8, <2>2 DEF Decide, Types, db, world, hook, remote
<1>9. CASE RecordReply(w)
  <2>1. [step |-> "send", msg |-> Msg(w), pk |-> proc[w].pk, text |-> proc[w].text,
         tries |-> Attempts] \in Work
    BY <1>9, WorkType, AttemptsAssumption DEF RecordReply, At, Work
  <2>2. proc' \in [Workers -> Work]
    BY <1>9, <2>1, ContinueType, RaiseType DEF RecordReply
  <2>3. answers' \in [Mids -> Nat]
    <3>1. OwnMid(w) \in Mids
      BY <1>9, MidType DEF RecordReply, At
    <3>2. answers' = [answers EXCEPT ![OwnMid(w)] = @ + 1] \/ answers' = answers
      BY <1>9 DEF RecordReply
    <3>3. answers \in [Mids -> Nat]
      BY DEF Types
    <3>4. \A i \in Mids : answers[i] + 1 \in Nat
      BY <3>3
    <3> QED
      BY <3>1, <3>2, <3>3, <3>4
  <2>4. [id |-> lastId + 1, pk |-> proc[w].pk, sender |-> "bot", text |-> proc[w].text,
         at |-> now, by |-> w] \in Outbound
    BY <1>9, WorkType DEF RecordReply, At, Types, Outbound
  <2>5. messages' \subseteq Inbound \cup Outbound /\ lastId' \in Nat
    <3>1. CASE Alive(w)
      <4>1. lastId' = lastId + 1
        BY <1>9, <3>1 DEF RecordReply
      <4>2. messages' = messages \cup
              {[id |-> lastId + 1, pk |-> proc[w].pk, sender |-> "bot",
                text |-> proc[w].text, at |-> now, by |-> w]}
        BY <1>9, <3>1, <4>1 DEF RecordReply
      <4> QED
        BY <2>4, <4>1, <4>2 DEF Types
    <3>2. CASE ~Alive(w)
      BY <1>9, <3>2 DEF RecordReply, Types
    <3> QED
      BY <3>1, <3>2
  <2> QED
    BY <1>9, <2>2, <2>3, <2>5 DEF RecordReply, Types, world, hook, remote
<1>10. CASE SendAccepted(w)
  <2>1. Sender(w) \in Customers
    BY <1>10, MidType DEF SendAccepted, At
  <2> QED
    BY <1>10, <2>1, FinishType, AnswerType DEF SendAccepted, Types, around, hook
<1>11. CASE SendFails(w)
  <2>1. Sender(w) \in Customers
    BY <1>11, MidType DEF SendFails, At
  <2>2. CASE proc[w].tries > 1
    <3>1. /\ proc[w] \in [step : {"send"}, msg : Msgs, pk : Nat, text : BotTexts,
                           tries : Nat]
          /\ proc[w].tries - 1 \in Nat
      <4>1. proc[w] \in Work /\ proc[w].step = "send"
        BY <1>11 DEF SendFails, At, Types
      <4>2. proc[w] \in [step : {"send"}, msg : Msgs, pk : Nat, text : BotTexts,
                         tries : Nat]
        BY <4>1 DEF Work
      <4> QED
        BY <2>2, <4>2
    <3>2. [proc[w] EXCEPT !.tries = @ - 1] \in Work
      BY <3>1 DEF Work
    <3> QED
      BY <1>11, <2>1, <2>2, <3>2, ContinueType, AnswerType DEF SendFails, Types, around, hook
  <2>3. CASE ~(proc[w].tries > 1)
    <3>1. [step |-> "pick", msg |-> Msg(w), text |-> proc[w].text] \in Work
      BY <1>11, WorkType DEF SendFails, At, Work
    <3> QED
      BY <1>11, <2>1, <2>3, <3>1, ContinueType, AnswerType DEF SendFails, Types, around, hook
  <2> QED
    BY <2>2, <2>3
<1>12. CASE NoConversation(w)
  <2>1. [step |-> "pick", msg |-> Msg(w), text |-> proc[w].text] \in Work
    BY <1>12, WorkType DEF NoConversation, At, Work
  <2> QED
    BY <1>12, <2>1, ContinueType DEF NoConversation, Types, around, hook
<1>13. CASE PickUnsent(w)
  <2>1. ASSUME NEW r \in Droppable(w)
        PROVE  [step |-> "erase", msg |-> Msg(w), row |-> r.id] \in Work
    <3>1. r.id \in Nat
      BY <2>1 DEF Droppable, BotRows, Types, Inbound, Outbound
    <3> QED
      BY <1>13, <3>1, WorkType DEF PickUnsent, At, Work
  <2>2. proc' \in [Workers -> Work]
    BY <1>13, <2>1, ContinueType, FinishType DEF PickUnsent
  <2> QED
    BY <1>13, <2>2 DEF PickUnsent, Types, around, hook
<1>14. CASE EraseUnsent(w)
  BY <1>14, FinishType DEF EraseUnsent, Types, around, hook
<1> QED
  BY <1>1, <1>2, <1>3, <1>4, <1>5, <1>6, <1>7, <1>8, <1>9, <1>10, <1>11, <1>12, <1>13,
     <1>14 DEF Process

LEMMA PanelTypes ==
  ASSUME Types, Panel
  PROVE  Types'
<1>1. CASE ToggleBot
  BY <1>1 DEF ToggleBot, Types, db, hook, remote, poll, history
<1>2. CASE ToggleGate
  BY <1>2 DEF ToggleGate, Types, db, hook, remote, poll, history
<1>3. ASSUME NEW c \in Customers, TogglePaused(c) \/ LearnFollower(c) \/ DeleteCustomer(c)
      PROVE  Types'
  <2>1. CASE TogglePaused(c)
    <3>1. customers' \in [Customers -> [pk : Nat, paused : BOOLEAN]]
      BY <2>1 DEF TogglePaused, Types
    <3> QED
      BY <2>1, <3>1 DEF TogglePaused, Types, hook, remote, poll, history
  <2>2. CASE LearnFollower(c)
    BY <2>2 DEF LearnFollower, Types, db, hook, remote, poll, history
  <2>3. CASE DeleteCustomer(c)
    BY <2>3 DEF DeleteCustomer, Types, hook, remote, poll, history
  <2> QED
    BY <1>3, <2>1, <2>2, <2>3
<1> QED
  BY <1>1, <1>2, <1>3 DEF Panel

LEMMA ArriveTypes ==
  ASSUME Types, Arrive
  PROVE  Types'
<1>1. ASSUME NEW m \in Msgs, Write(m) \/ EnqueueEvent(m)
      PROVE  Types'
  <2>1. CASE Write(m)
    <3>1. From[m] \in Customers
      BY FromAssumption
    <3> QED
      BY <2>1, <3>1 DEF Write, Update, Types, db, hook, poll, history
  <2>2. CASE EnqueueEvent(m)
    BY <2>2 DEF EnqueueEvent, Types, db, remote, poll, history
  <2> QED
    BY <1>1, <2>1, <2>2
<1>2. ASSUME NEW w \in Workers, TakeEvent(w)
      PROVE  Types'
  <2>1. Head(queue) \in Msgs /\ Tail(queue) \in Seq(Msgs)
    BY <1>2 DEF TakeEvent, Types
  <2> QED
    BY <1>2, <2>1, StartType DEF TakeEvent, Types, db, remote, poll, history
<1>3. ASSUME NEW w \in Workers, NEW m \in Msgs, ReceiveZernio(w, m)
      PROVE  Types'
  BY <1>3, StartType DEF ReceiveZernio, Types, db, remote, poll, history
<1>4. ASSUME NEW c \in Customers, NEW text \in {"gate", "reminder"}, RecordRemoteGate(c, text)
      PROVE  Types'
  <2>1. customers' \in [Customers -> [pk : Nat, paused : BOOLEAN]] /\ lastPk' \in Nat
    <3>1. CASE customers[c].pk # 0
      BY <1>4, <3>1 DEF RecordRemoteGate, Types
    <3>2. CASE customers[c].pk = 0
      <4>1. lastPk' = lastPk + 1 /\ lastPk' \in Nat
        BY <1>4, <3>2 DEF RecordRemoteGate, Types
      <4>2. customers' = [customers EXCEPT ![c] = [pk |-> lastPk', paused |-> FALSE]]
        BY <1>4, <3>2 DEF RecordRemoteGate
      <4> QED
        BY <4>1, <4>2 DEF Types
    <3> QED
      BY <3>1, <3>2
  <2>2. [id |-> lastId + 1, pk |-> customers'[c].pk, sender |-> "bot", text |-> text,
         at |-> now, by |-> None] \in Outbound
    BY <1>4, <2>1 DEF Outbound, BotTexts, Types
  <2>3. messages' \subseteq Inbound \cup Outbound /\ lastId' \in Nat
    BY <1>4, <2>2 DEF RecordRemoteGate, Types
  <2> QED
    BY <1>4, <2>1, <2>3, AnswerType DEF RecordRemoteGate, Types, poll, history
<1> QED
  BY <1>1, <1>2, <1>3, <1>4 DEF Arrive

LEMMA PollTypes ==
  ASSUME Types, Poll
  PROVE  Types'
<1>1. CASE PollList
  <2>1. inbox' \in [Customers -> [last : Msgs \cup {None}, answered : BOOLEAN,
                                  changed : BOOLEAN, misread : BOOLEAN]]
    BY <1>1 DEF PollList, Types
  <2> QED
    BY <1>1, <2>1 DEF PollList, Types, db, hook, history
<1>2. ASSUME NEW c \in Customers, PollRead(c)
      PROVE  Types'
  <2>1. batch' \in Seq(Msgs)
    BY <1>2 DEF PollRead, Unhandled, Types
  <2> QED
    BY <1>2, <2>1 DEF PollRead, Types, db, hook, remote, history
<1>3. CASE PollReadFails
  <2>1. inbox' \in [Customers -> [last : Msgs \cup {None}, answered : BOOLEAN,
                                  changed : BOOLEAN, misread : BOOLEAN]]
    <3>1. PICK n : inbox' = [c \in Customers |-> IF \E i \in 1..n : todo[i] = c
                      THEN Unread(inbox[c]) ELSE inbox[c]]
      BY <1>3 DEF PollReadFails
    <3> QED
      BY <3>1 DEF Types, Unread
  <2> QED
    BY <1>3, <2>1 DEF PollReadFails, Types, db, hook, history
<1>4. CASE PollTake
  <2>1. Head(batch) \in Msgs /\ Tail(batch) \in Seq(Msgs)
    BY <1>4 DEF PollTake, Types
  <2>2. Poller \in Workers
    BY DEF Workers
  <2> QED
    BY <1>4, <2>1, <2>2, StartType DEF PollTake, Types, db, hook, remote, history
<1>5. CASE PollSkip
  BY <1>5 DEF PollSkip, Types, db, hook, remote, history
<1>6. CASE PollMisread
  <2>1. inbox' \in [Customers -> [last : Msgs \cup {None}, answered : BOOLEAN,
                                  changed : BOOLEAN, misread : BOOLEAN]]
    <3>1. PICK n : inbox' = [c \in Customers |->
                      IF c = Head(todo) THEN [inbox[c] EXCEPT !.misread = ~inbox[c].changed]
                      ELSE IF \E i \in 2..n : todo[i] = c THEN Unread(inbox[c])
                      ELSE inbox[c]]
      BY <1>6 DEF PollMisread
    <3> QED
      BY <3>1 DEF Types, Unread
  <2> QED
    BY <1>6, <2>1 DEF PollMisread, Types, db, hook, history
<1> QED
  BY <1>1, <1>2, <1>3, <1>4, <1>5, <1>6 DEF Poll

LEMMA TypesStep == Types /\ [Next]_vars => Types'
<1> SUFFICES ASSUME Types, [Next]_vars
             PROVE  Types'
  OBVIOUS
<1>1. CASE Restart
  <2>1. proc' \in [Workers -> Work]
    BY <1>1, IdleType DEF Restart
  <2>2. inbox' \in [Customers -> [last : Msgs \cup {None}, answered : BOOLEAN,
                                  changed : BOOLEAN, misread : BOOLEAN]]
    BY <1>1 DEF Restart, Types, Unread
  <2> QED
    BY <1>1, <2>1, <2>2 DEF Restart, Types, db, history
<1>2. CASE Tick
  BY <1>2 DEF Tick, Types, db, remote, poll, history
<1>3. CASE UNCHANGED vars
  BY <1>3 DEF vars, Types, db, hook, remote, poll, history
<1> QED
  BY <1>1, <1>2, <1>3, PanelTypes, ArriveTypes, PollTypes, ProcessTypes DEF Next

-------------------------------------------------------------------------------
LEMMA InvInit == Init => Inv
<1> SUFFICES ASSUME Init PROVE Inv
  OBVIOUS
<1> USE DEF Init
<1>1. Keys
  BY DEF Keys, Holding, Idle
<1>2. Owned
  BY DEF Owned, CustRows
<1>3. Held
  BY DEF Held, Deciding, Idle
<1>4. Fresh /\ OneReplyPerId
  BY DEF Fresh, OneReplyPerId
<1> QED
  BY <1>1, <1>2, <1>3, <1>4 DEF Inv

(* Nobody comes closer to a reply: a worker that is then about to reply    *)
(* already was, to the same message.                                       *)
Advance ==
  \A w \in Workers :
    /\ proc'[w].step \in {"rename", "store", "decide", "record"} =>
         proc'[w].pk \in 1..lastPk'
    /\ proc'[w].step \in {"decide", "record"} =>
         /\ proc[w].step \in {"decide", "record"}
         /\ proc'[w].msg = proc[w].msg
         /\ proc'[w].pk = proc[w].pk

(* What no step but five does: change a primary key, a customer's message  *)
(* or the history of replies.                                              *)
Calm == /\ lastPk' = lastPk /\ answers' = answers /\ CustRows' = CustRows
        /\ \A c \in Customers : customers'[c].pk = customers[c].pk
        /\ Advance

(* A customer the table does not have gets a row.                          *)
Enrol(c) == /\ customers[c].pk = 0
            /\ lastPk' = lastPk + 1 /\ answers' = answers /\ CustRows' = CustRows
            /\ customers'[c].pk = lastPk'
            /\ \A d \in Customers : d # c => customers'[d].pk = customers[d].pk
            /\ Advance

LEMMA StoredSame ==
  ASSUME CustRows' = CustRows, NEW i
  PROVE  Stored(i)' <=> Stored(i)
<1>1. Stored(i) <=> \E r \in CustRows : r.mid = i
  BY DEF Stored, CustRows
<1>2. Stored(i)' <=> \E r \in CustRows' : r.mid = i
  BY DEF Stored, CustRows
<1> QED
  BY <1>1, <1>2

LEMMA AdvanceSame ==
  ASSUME Advance, NEW w \in Workers, Deciding(w)'
  PROVE  /\ Deciding(w)
         /\ OwnMid(w)' = OwnMid(w) /\ Sender(w)' = Sender(w)
         /\ proc'[w].pk = proc[w].pk
  BY DEF Advance, Deciding, OwnMid, Mid, Sender, Channel, Msg

(* Held survives when the workers that reply do not grow in number, and    *)
(* what they hold on to is left as it is.                                  *)
LEMMA HeldSame ==
  ASSUME Held,
         \A w \in Workers : Deciding(w)' /\ Alive(w)' =>
           Deciding(w) /\ Alive(w) /\ OwnMid(w)' = OwnMid(w),
         CustRows' = CustRows, answers' = answers
  PROVE  Held'
<1> SUFFICES ASSUME NEW w \in Workers, Deciding(w)', Alive(w)'
             PROVE  /\ Stored(OwnMid(w))'
                    /\ answers'[OwnMid(w)'] = 0
                    /\ \A v \in Workers : Deciding(v)' /\ Alive(v)'
                         /\ OwnMid(v)' = OwnMid(w)' => v = w
  BY DEF Held
<1>1. Deciding(w) /\ Alive(w) /\ OwnMid(w)' = OwnMid(w)
  OBVIOUS
<1>2. Stored(OwnMid(w)) /\ answers[OwnMid(w)] = 0
  BY <1>1 DEF Held
<1>3. Stored(OwnMid(w))'
  BY <1>1, <1>2 DEF Stored, CustRows
<1>4. ASSUME NEW v \in Workers, Deciding(v)', Alive(v)', OwnMid(v)' = OwnMid(w)'
      PROVE  v = w
  <2>1. Deciding(v) /\ Alive(v) /\ OwnMid(v)' = OwnMid(v)
    BY <1>4
  <2> QED
    BY <1>1, <1>4, <2>1 DEF Held
<1> QED
  BY <1>1, <1>2, <1>3, <1>4

LEMMA CalmInv ==
  ASSUME Types, Inv, Calm
  PROVE  Inv'
<1>1. Keys'
  BY DEF Inv, Calm, Advance, Keys, Holding
<1>2. Owned'
  <2> SUFFICES ASSUME NEW r \in CustRows'
               PROVE  r.mid \in Mids /\ r.pk = customers'[From[r.mid[1]]].pk /\ r.pk # 0
    BY DEF Owned
  <2>1. r.mid \in Mids /\ r.pk = customers[From[r.mid[1]]].pk /\ r.pk # 0
    BY DEF Calm, Inv, Owned
  <2>2. From[r.mid[1]] \in Customers
    BY <2>1, FromAssumption DEF Mids
  <2> QED
    BY <2>1, <2>2 DEF Calm
<1>3. ASSUME NEW w \in Workers, Deciding(w)', Alive(w)'
      PROVE  Deciding(w) /\ Alive(w) /\ OwnMid(w)' = OwnMid(w)
  <2>1. /\ Deciding(w)
        /\ OwnMid(w)' = OwnMid(w) /\ Sender(w)' = Sender(w)
        /\ proc'[w].pk = proc[w].pk
    BY <1>3, AdvanceSame DEF Calm
  <2>2. Sender(w) \in Customers
    BY <2>1, MidType DEF Deciding
  <2>3. Alive(w)
    BY <1>3, <2>1, <2>2 DEF Alive, Calm
  <2> QED
    BY <2>1, <2>3
<1>4. Held'
  BY <1>3, HeldSame DEF Inv, Calm
<1>5. Fresh'
  BY StoredSame DEF Inv, Calm, Fresh
<1>6. OneReplyPerId'
  BY DEF Inv, Calm, OneReplyPerId
<1> QED
  BY <1>1, <1>2, <1>4, <1>5, <1>6 DEF Inv

LEMMA EnrolInv ==
  ASSUME Types, Inv, NEW c \in Customers, Enrol(c)
  PROVE  Inv'
<1>1. Keys'
  <2>1. \A d \in Customers : customers[d].pk \in Nat
    BY DEF Types
  <2>2. lastPk \in Nat /\ \A d \in Customers : customers[d].pk <= lastPk
    BY DEF Types, Inv, Keys
  <2>3. \A d \in Customers : customers'[d].pk <= lastPk'
    BY <2>1, <2>2 DEF Enrol
  <2>4. \A d, e \in Customers : customers'[d].pk = customers'[e].pk /\ customers'[d].pk # 0
                                => d = e
    BY <2>1, <2>2 DEF Enrol, Inv, Keys
  <2>5. \A w \in Workers : Holding(w)' => proc'[w].pk \in 1..lastPk'
    BY DEF Enrol, Advance, Holding
  <2> QED
    BY <2>3, <2>4, <2>5 DEF Keys
<1>2. Owned'
  <2> SUFFICES ASSUME NEW r \in CustRows'
               PROVE  r.mid \in Mids /\ r.pk = customers'[From[r.mid[1]]].pk /\ r.pk # 0
    BY DEF Owned
  <2>1. r.mid \in Mids /\ r.pk = customers[From[r.mid[1]]].pk /\ r.pk # 0
    BY DEF Enrol, Inv, Owned
  <2>2. From[r.mid[1]] \in Customers \ {c}
    BY <2>1, FromAssumption DEF Mids, Enrol
  <2> QED
    BY <2>1, <2>2 DEF Enrol
<1>3. ASSUME NEW w \in Workers, Deciding(w)', Alive(w)'
      PROVE  Deciding(w) /\ Alive(w) /\ OwnMid(w)' = OwnMid(w)
  <2>1. /\ Deciding(w)
        /\ OwnMid(w)' = OwnMid(w) /\ Sender(w)' = Sender(w)
        /\ proc'[w].pk = proc[w].pk
    BY <1>3, AdvanceSame DEF Enrol
  <2>2. Sender(w) \in Customers
    BY <2>1, MidType DEF Deciding
  <2>4. proc[w].pk \in 1..lastPk
    BY <2>1 DEF Inv, Keys, Deciding, Holding
  <2>5. customers'[Sender(w)].pk = proc[w].pk
    BY <1>3, <2>1 DEF Alive
  <2>6. Sender(w) # c
    BY <2>4, <2>5 DEF Enrol, Types
  <2>7. Alive(w)
    BY <2>2, <2>5, <2>6 DEF Alive, Enrol
  <2> QED
    BY <2>1, <2>7
<1>4. Held'
  BY <1>3, HeldSame DEF Inv, Enrol
<1>5. Fresh'
  BY StoredSame DEF Inv, Enrol, Fresh
<1>6. OneReplyPerId'
  BY DEF Inv, Enrol, OneReplyPerId
<1> QED
  BY <1>1, <1>2, <1>4, <1>5, <1>6 DEF Inv

(* The unique index lets one worker through for an id.                     *)
LEMMA StoreInv ==
  ASSUME Types, Inv, NEW w \in Workers, StoreMessage(w)
  PROVE  Inv'
<1> DEFINE new == [id |-> lastId + 1, pk |-> proc[w].pk, sender |-> "customer",
                   text |-> Msg(w), mid |-> OwnMid(w)]
<1>1. /\ customers' = customers /\ lastPk' = lastPk /\ answers' = answers
      /\ proc' = [proc EXCEPT ![w] = [proc[w] EXCEPT !.step = "decide"]]
      /\ messages' = messages \cup {new}
      /\ proc[w].step = "store" /\ Alive(w) /\ ~Stored(OwnMid(w))
  BY DEF StoreMessage, Continue, Go, At
<1>2. proc[w] \in [step : {"rename", "store", "decide"}, msg : Msgs, pk : Nat]
  BY <1>1 DEF Types, Work
<1>3. /\ proc'[w].step = "decide" /\ proc'[w].msg = proc[w].msg
      /\ proc'[w].pk = proc[w].pk
      /\ \A v \in Workers \ {w} : proc'[v] = proc[v]
  BY <1>1, <1>2 DEF Types
<1>4. \A v \in Workers : OwnMid(v)' = OwnMid(v) /\ Sender(v)' = Sender(v)
  BY <1>3 DEF OwnMid, Mid, Channel, Sender, Msg
<1>5. OwnMid(w) \in Mids /\ OwnMid(w)[1] = Msg(w) /\ Sender(w) \in Customers
  BY <1>1, MidType
<1>6. proc[w].pk \in 1..lastPk
  BY <1>1 DEF Inv, Keys, Holding
<1>7. CustRows' = CustRows \cup {new}
  BY <1>1 DEF CustRows
<1>8. /\ new \in messages' /\ new.sender = "customer" /\ new.mid = OwnMid(w)
      /\ messages \subseteq messages'
  BY <1>1
<1>9. Keys'
  BY <1>1, <1>3, <1>6 DEF Inv, Keys, Holding
<1>10. Owned'
  BY <1>1, <1>5, <1>6, <1>7 DEF Inv, Owned, Alive, Sender
<1>11. \A v \in Workers : Alive(v)' <=> Alive(v)
  BY <1>1, <1>3, <1>4 DEF Alive
<1>12. Held'
  <2> SUFFICES ASSUME NEW u \in Workers, Deciding(u)', Alive(u)'
               PROVE  /\ Stored(OwnMid(u))'
                      /\ answers'[OwnMid(u)'] = 0
                      /\ \A v \in Workers : Deciding(v)' /\ Alive(v)'
                           /\ OwnMid(v)' = OwnMid(u)' => v = u
    BY DEF Held
  <2>1. \A v \in Workers \ {w} : Deciding(v)' /\ Alive(v)' =>
          Deciding(v) /\ Alive(v) /\ Stored(OwnMid(v))
    BY <1>3, <1>11 DEF Deciding, Inv, Held
  <2>2. \A v \in Workers \ {w} : Deciding(v)' /\ Alive(v)' => OwnMid(v) # OwnMid(w)
    BY <1>1, <2>1
  <2>3. CASE u = w
    <3>1. Stored(OwnMid(w))'
      BY <1>4, <1>8 DEF Stored
    <3>2. answers[OwnMid(w)] = 0
      BY <1>1, <1>5 DEF Inv, Fresh
    <3> QED
      BY <1>1, <1>4, <2>2, <2>3, <3>1, <3>2
  <2>4. CASE u # w
    <3>1. Deciding(u) /\ Alive(u) /\ OwnMid(u) # OwnMid(w)
      BY <2>1, <2>2, <2>4
    <3>2. Stored(OwnMid(u)) /\ answers[OwnMid(u)] = 0
      BY <3>1 DEF Inv, Held
    <3>3. Stored(OwnMid(u))'
      BY <1>4, <1>8, <3>2 DEF Stored
    <3>4. ASSUME NEW v \in Workers, Deciding(v)', Alive(v)', OwnMid(v)' = OwnMid(u)'
          PROVE  v = u
      <4>1. v # w
        BY <1>4, <3>1, <3>4
      <4>2. Deciding(v) /\ Alive(v) /\ OwnMid(v) = OwnMid(u)
        BY <1>4, <2>1, <3>4, <4>1
      <4> QED
        BY <3>1, <4>2 DEF Inv, Held
    <3> QED
      BY <1>1, <1>4, <3>2, <3>3, <3>4
  <2> QED
    BY <2>3, <2>4
<1>13. Fresh'
  <2> SUFFICES ASSUME NEW i \in Mids, ~Stored(i)'
               PROVE  answers'[i] = 0
    BY DEF Fresh
  <2>1. ~Stored(i)
    BY <1>8 DEF Stored
  <2> QED
    BY <1>1, <2>1 DEF Inv, Fresh
<1>14. OneReplyPerId'
  BY <1>1 DEF Inv, OneReplyPerId
<1> QED
  BY <1>9, <1>10, <1>12, <1>13, <1>14 DEF Inv

(* The one worker that holds an id without a reply records the first.      *)
LEMMA RecordInv ==
  ASSUME Types, Inv, NEW w \in Workers, RecordReply(w), Alive(w)
  PROVE  Inv'
<1>1. /\ customers' = customers /\ lastPk' = lastPk
      /\ answers' = [answers EXCEPT ![OwnMid(w)] = @ + 1]
      /\ \E r : messages' = messages \cup {r} /\ r.sender = "bot"
      /\ proc[w].step = "record"
      /\ \E t, n, m, k : proc' = [proc EXCEPT ![w] = [step |-> "send", msg |-> m, pk |-> k,
                                                  text |-> t, tries |-> n]]
  <2>1. \E r : messages' = messages \cup {r} /\ r.sender = "bot"
    <3> DEFINE r == [id |-> lastId', pk |-> proc[w].pk, sender |-> "bot",
                     text |-> proc[w].text, at |-> now, by |-> w]
    <3>1. messages' = messages \cup {r}
      BY DEF RecordReply
    <3>2. r.sender = "bot"
      OBVIOUS
    <3> HIDE DEF r
    <3> QED
      BY <3>1, <3>2
  <2>2. proc' = [proc EXCEPT ![w] = [step |-> "send", msg |-> Msg(w), pk |-> proc[w].pk,
                                     text |-> proc[w].text, tries |-> Attempts]]
    BY DEF RecordReply, Continue, Go
  <2> QED
    BY <2>1, <2>2 DEF RecordReply, At
<1>2. proc'[w].step = "send" /\ \A v \in Workers \ {w} : proc'[v] = proc[v]
  BY <1>1 DEF Types
<1>3. CustRows' = CustRows
  BY <1>1 DEF CustRows
<1>4. OwnMid(w) \in Mids
  BY <1>1, MidType
<1>5. Stored(OwnMid(w)) /\ answers[OwnMid(w)] = 0
  BY <1>1 DEF Inv, Held, Deciding
<1>6. /\ answers'[OwnMid(w)] = 1
      /\ \A i \in Mids : i # OwnMid(w) => answers'[i] = answers[i]
  BY <1>1, <1>4, <1>5 DEF Types
<1>7. Keys'
  BY <1>1, <1>2 DEF Inv, Keys, Holding
<1>8. Owned'
  BY <1>1, <1>3 DEF Inv, Owned
<1>9. \A v \in Workers \ {w} : /\ OwnMid(v)' = OwnMid(v)
                               /\ Alive(v)' <=> Alive(v)
                               /\ Deciding(v)' <=> Deciding(v)
  BY <1>1, <1>2 DEF OwnMid, Mid, Channel, Alive, Sender, Msg, Deciding
<1>10. Held'
  <2> SUFFICES ASSUME NEW u \in Workers, Deciding(u)', Alive(u)'
               PROVE  /\ Stored(OwnMid(u))'
                      /\ answers'[OwnMid(u)'] = 0
                      /\ \A v \in Workers : Deciding(v)' /\ Alive(v)'
                           /\ OwnMid(v)' = OwnMid(u)' => v = u
    BY DEF Held
  <2>1. u # w
    BY <1>2 DEF Deciding
  <2>2. Deciding(u) /\ Alive(u) /\ OwnMid(u)' = OwnMid(u)
    BY <1>9, <2>1
  <2>3. Stored(OwnMid(u)) /\ answers[OwnMid(u)] = 0
    BY <2>2 DEF Inv, Held
  <2>4. OwnMid(u) # OwnMid(w) /\ OwnMid(u) \in Mids
    BY <1>1, <2>1, <2>2, MidType DEF Inv, Held, Deciding
  <2>5. Stored(OwnMid(u))'
    BY <1>1, <2>2, <2>3 DEF Stored
  <2>6. ASSUME NEW v \in Workers, Deciding(v)', Alive(v)', OwnMid(v)' = OwnMid(u)'
        PROVE  v = u
    <3>1. v # w
      BY <1>2, <2>6 DEF Deciding
    <3>2. Deciding(v) /\ Alive(v) /\ OwnMid(v) = OwnMid(u)
      BY <1>9, <2>2, <2>6, <3>1
    <3> QED
      BY <2>2, <3>2 DEF Inv, Held
  <2> QED
    BY <1>6, <2>2, <2>3, <2>4, <2>5, <2>6
<1>11. Fresh'
  <2> SUFFICES ASSUME NEW i \in Mids, ~Stored(i)'
               PROVE  answers'[i] = 0
    BY DEF Fresh
  <2>1. ~Stored(i)
    BY <1>3, StoredSame
  <2> QED
    BY <1>5, <1>6, <2>1 DEF Inv, Fresh
<1>12. OneReplyPerId'
  BY <1>6 DEF Inv, OneReplyPerId
<1> QED
  BY <1>7, <1>8, <1>10, <1>11, <1>12 DEF Inv

(* A deleted customer takes the stored ids and their history along.        *)
LEMMA DeleteInv ==
  ASSUME Types, Inv, NEW c \in Customers, DeleteCustomer(c)
  PROVE  Inv'
<1>1. /\ customers' = [customers EXCEPT ![c] = [pk |-> 0, paused |-> FALSE]]
      /\ customers[c].pk # 0
      /\ messages' = {r \in messages : r.pk # customers[c].pk}
      /\ answers' = [i \in Mids |-> IF From[i[1]] = c THEN 0 ELSE answers[i]]
      /\ proc' = proc /\ lastPk' = lastPk
  BY DEF DeleteCustomer
<1>2. /\ customers'[c].pk = 0
      /\ \A d \in Customers \ {c} : customers'[d].pk = customers[d].pk
  BY <1>1 DEF Types
<1>3. CustRows' = {r \in CustRows : r.pk # customers[c].pk}
  BY <1>1 DEF CustRows
<1>4. ASSUME NEW i \in Mids, Stored(i), From[i[1]] # c
      PROVE  Stored(i)'
  <2>1. PICK r \in messages : r.sender = "customer" /\ r.mid = i
    BY <1>4 DEF Stored
  <2>2. r.pk = customers[From[i[1]]].pk /\ r.pk # 0
    BY <2>1 DEF Inv, Owned, CustRows
  <2>3. From[i[1]] \in Customers
    BY FromAssumption DEF Mids
  <2>4. r.pk # customers[c].pk
    BY <1>4, <2>2, <2>3 DEF Inv, Keys
  <2> QED
    BY <1>1, <2>1, <2>4 DEF Stored
<1>5. Keys'
  <2>1. \A d \in Customers : customers'[d].pk <= lastPk'
    BY <1>1, <1>2 DEF Inv, Keys, Types
  <2>2. \A d, e \in Customers : customers'[d].pk = customers'[e].pk /\ customers'[d].pk # 0
                                => d = e
    BY <1>2 DEF Inv, Keys
  <2>3. \A w \in Workers : Holding(w)' => proc'[w].pk \in 1..lastPk'
    BY <1>1 DEF Inv, Keys, Holding
  <2> QED
    BY <2>1, <2>2, <2>3 DEF Keys
<1>6. Owned'
  <2> SUFFICES ASSUME NEW r \in CustRows'
               PROVE  r.mid \in Mids /\ r.pk = customers'[From[r.mid[1]]].pk /\ r.pk # 0
    BY DEF Owned
  <2>1. r.mid \in Mids /\ r.pk = customers[From[r.mid[1]]].pk /\ r.pk # 0
        /\ r.pk # customers[c].pk
    BY <1>3 DEF Inv, Owned
  <2>2. From[r.mid[1]] \in Customers
    BY <2>1, FromAssumption DEF Mids
  <2> QED
    BY <1>2, <2>1, <2>2
<1>7. Held'
  <2> SUFFICES ASSUME NEW w \in Workers, Deciding(w)', Alive(w)'
               PROVE  /\ Stored(OwnMid(w))'
                      /\ answers'[OwnMid(w)'] = 0
                      /\ \A v \in Workers : Deciding(v)' /\ Alive(v)'
                           /\ OwnMid(v)' = OwnMid(w)' => v = w
    BY DEF Held
  <2>1. ASSUME NEW v \in Workers, Deciding(v)', Alive(v)'
        PROVE  /\ Deciding(v) /\ Alive(v) /\ Sender(v) # c
               /\ OwnMid(v)' = OwnMid(v)
    <3>1. Deciding(v) /\ OwnMid(v)' = OwnMid(v) /\ Sender(v)' = Sender(v)
      BY <1>1, <2>1 DEF Deciding, OwnMid, Mid, Channel, Sender, Msg
    <3>2. Sender(v) \in Customers
      BY <3>1, MidType DEF Deciding
    <3>3. proc[v].pk \in 1..lastPk /\ customers'[Sender(v)].pk = proc[v].pk
      BY <1>1, <2>1, <3>1 DEF Inv, Keys, Deciding, Holding, Alive
    <3> QED
      BY <1>2, <3>1, <3>2, <3>3 DEF Alive
  <2>2. Deciding(w) /\ Alive(w) /\ Sender(w) # c /\ OwnMid(w)' = OwnMid(w)
    BY <2>1
  <2>3. OwnMid(w) \in Mids /\ From[OwnMid(w)[1]] # c
    BY <2>2, MidType DEF Deciding, Sender
  <2>4. Stored(OwnMid(w)) /\ answers[OwnMid(w)] = 0
    BY <2>2 DEF Inv, Held
  <2>5. \E r \in messages' : r.sender = "customer" /\ r.mid = OwnMid(w)
    BY <1>4, <2>3, <2>4 DEF Stored
  <2>6. Stored(OwnMid(w))'
    BY <2>2, <2>5 DEF Stored
  <2>7. answers'[OwnMid(w)'] = 0
    BY <1>1, <2>2, <2>3, <2>4
  <2>8. ASSUME NEW v \in Workers, Deciding(v)', Alive(v)', OwnMid(v)' = OwnMid(w)'
        PROVE  v = w
    BY <2>1, <2>2, <2>8 DEF Inv, Held
  <2> QED
    BY <2>6, <2>7, <2>8
<1>8. Fresh'
  BY <1>1, <1>4 DEF Inv, Fresh
<1>9. OneReplyPerId'
  BY <1>1 DEF Inv, OneReplyPerId
<1> QED
  BY <1>5, <1>6, <1>7, <1>8, <1>9 DEF Inv

-------------------------------------------------------------------------------
(* Every other step is calm, or enrols a customer.                         *)

LEMMA IdleCalm ==
  ASSUME Types, Inv, UNCHANGED <<lastPk, answers, messages>>,
         \A c \in Customers : customers'[c].pk = customers[c].pk,
         \A w \in Workers : proc'[w] = proc[w] \/ proc'[w] = Idle
                              \/ proc'[w].step \in {"dedup", "find", "create", "send",
                                                    "pick", "erase"}
  PROVE  Inv'
<1>1. CustRows' = CustRows
  BY DEF CustRows
<1>2. Advance
  BY DEF Advance, Inv, Keys, Holding, Idle
<1> QED
  BY <1>1, <1>2, CalmInv DEF Calm

LEMMA PanelInv ==
  ASSUME Types, Inv, Panel
  PROVE  Inv'
<1>1. CASE ToggleBot \/ ToggleGate
  BY <1>1, IdleCalm DEF ToggleBot, ToggleGate, db, history
<1>2. ASSUME NEW c \in Customers, TogglePaused(c)
      PROVE  Inv'
  <2>1. \A d \in Customers : customers'[d].pk = customers[d].pk
    BY <1>2 DEF TogglePaused, Types
  <2> QED
    BY <1>2, <2>1, IdleCalm DEF TogglePaused, history
<1>3. ASSUME NEW c \in Customers, LearnFollower(c)
      PROVE  Inv'
  BY <1>3, IdleCalm DEF LearnFollower, db, history
<1> QED
  BY <1>1, <1>2, <1>3, DeleteInv DEF Panel

LEMMA ArriveInv ==
  ASSUME Types, Inv, Arrive
  PROVE  Inv'
<1>1. ASSUME NEW m \in Msgs, Write(m) \/ EnqueueEvent(m)
      PROVE  Inv'
  BY <1>1, IdleCalm DEF Write, EnqueueEvent, db, history
<1>2. ASSUME NEW w \in Workers, TakeEvent(w) \/ \E m \in Msgs : ReceiveZernio(w, m)
      PROVE  Inv'
  <2>1. PICK m : Start(w, m)
    BY <1>2 DEF TakeEvent, ReceiveZernio
  <2>2. \A v \in Workers : proc'[v] = proc[v] \/ proc'[v].step = "dedup"
    BY <2>1 DEF Start, Go, Types
  <2>3. UNCHANGED <<db, history>>
    BY <1>2 DEF TakeEvent, ReceiveZernio
  <2> QED
    BY <2>2, <2>3, IdleCalm DEF db, history
<1>3. ASSUME NEW c \in Customers, NEW text \in {"gate", "reminder"}, RecordRemoteGate(c, text)
      PROVE  Inv'
  <2>1. CustRows' = CustRows
    BY <1>3 DEF RecordRemoteGate, CustRows
  <2>2. answers' = answers /\ proc' = proc
    BY <1>3 DEF RecordRemoteGate, history
  <2>3. CASE customers[c].pk # 0
    <3>1. customers' = customers /\ lastPk' = lastPk
      BY <1>3, <2>3 DEF RecordRemoteGate
    <3>2. Advance
      BY <2>2, <3>1 DEF Advance, Inv, Keys, Holding
    <3> QED
      BY <2>1, <2>2, <3>1, <3>2, CalmInv DEF Calm
  <2>4. CASE customers[c].pk = 0
    <3>1. /\ lastPk' = lastPk + 1
          /\ customers' = [customers EXCEPT ![c] = [pk |-> lastPk', paused |-> FALSE]]
      BY <1>3, <2>4 DEF RecordRemoteGate
    <3>2. /\ customers'[c].pk = lastPk'
          /\ \A d \in Customers : d # c => customers'[d].pk = customers[d].pk
      BY <3>1 DEF Types
    <3>3. Advance
      BY <2>2, <3>1 DEF Advance, Inv, Keys, Holding, Types
    <3> QED
      BY <2>1, <2>2, <2>4, <3>1, <3>2, <3>3, EnrolInv DEF Enrol
  <2> QED
    BY <2>3, <2>4
<1> QED
  BY <1>1, <1>2, <1>3 DEF Arrive

LEMMA PollInv ==
  ASSUME Types, Inv, Poll
  PROVE  Inv'
<1>1. CASE \/ PollList \/ PollReadFails \/ PollMisread \/ PollSkip
         \/ \E c \in Customers : PollRead(c)
  BY <1>1, IdleCalm DEF PollList, PollReadFails, PollMisread, PollSkip, PollRead, db, history
<1>2. CASE PollTake
  <2>1. \A v \in Workers : proc'[v] = proc[v] \/ proc'[v].step = "dedup"
    BY <1>2 DEF PollTake, Start, Go, Types, Workers
  <2> QED
    BY <1>2, <2>1, IdleCalm DEF PollTake, db, history
<1> QED
  BY <1>1, <1>2 DEF Poll

(* A worker's step that changes nothing but its own record.                *)
LEMMA OwnStepInv ==
  ASSUME Types, Inv, NEW w \in Workers, NEW work,
         Go(w, work), UNCHANGED <<customers, lastPk, answers, messages>>,
         work.step \in {"rename", "store", "decide", "record"} => work.pk \in 1..lastPk,
         work.step \in {"decide", "record"} =>
           Deciding(w) /\ work.msg = proc[w].msg /\ work.pk = proc[w].pk
  PROVE  Inv'
<1>1. proc'[w] = work /\ \A v \in Workers \ {w} : proc'[v] = proc[v]
  BY DEF Go, Types
<1>2. Advance
  BY <1>1 DEF Advance, Inv, Keys, Holding, Deciding
<1>3. CustRows' = CustRows
  BY DEF CustRows
<1> QED
  BY <1>2, <1>3, CalmInv DEF Calm

(* The worker lets go of its message.                                      *)
LEMMA LetGoInv ==
  ASSUME Types, Inv, NEW w \in Workers, NEW work,
         Go(w, work), UNCHANGED <<customers, lastPk, answers, messages>>,
         work.step \in {"idle", "find", "create", "send", "pick", "erase"}
  PROVE  Inv'
  BY OwnStepInv

LEMMA FinishInv ==
  ASSUME Types, Inv, NEW w \in Workers, Finish(w) \/ \E b \in BOOLEAN : Raise(w, b),
         UNCHANGED <<customers, lastPk, answers, messages>>
  PROVE  Inv'
  BY LetGoInv DEF Finish, Raise, Idle

LEMMA ProcessInv ==
  ASSUME Types, Inv, NEW w \in Workers, Process(w)
  PROVE  Inv'
<1>1. CASE KnownMessage(w) \/ StoreRefused(w)
  BY <1>1, FinishInv DEF KnownMessage, StoreRefused, db
<1>2. CASE NewMessage(w)
  BY <1>2, LetGoInv DEF NewMessage, Continue, db
<1>3. CASE FindCustomer(w)
  <2>1. Sender(w) \in Customers
    BY <1>3, MidType DEF FindCustomer, At
  <2>2. CASE customers[Sender(w)].pk = 0
    BY <1>3, <2>2, LetGoInv DEF FindCustomer, Continue, db
  <2>3. CASE customers[Sender(w)].pk # 0
    <3>1. customers[Sender(w)].pk \in 1..lastPk
      BY <2>1, <2>3 DEF Types, Inv, Keys
    <3>2. PICK next \in {"store", "rename"} :
            Go(w, [step |-> next, msg |-> Msg(w), pk |-> customers[Sender(w)].pk])
      BY <1>3, <2>3 DEF FindCustomer, Continue
    <3> QED
      BY <1>3, <3>1, <3>2, OwnStepInv DEF FindCustomer, db
  <2> QED
    BY <2>2, <2>3
<1>4. CASE CreateCustomer(w)
  <2>1. Sender(w) \in Customers
    BY <1>4, MidType DEF CreateCustomer, At
  <2>2. CASE customers[Sender(w)].pk = 0
    <3>1. /\ lastPk' = lastPk + 1 /\ answers' = answers /\ messages' = messages
          /\ customers' = [customers EXCEPT ![Sender(w)] = [pk |-> lastPk + 1,
                                                            paused |-> FALSE]]
          /\ proc' = [proc EXCEPT ![w] = [step |-> "store", msg |-> Msg(w),
                                          pk |-> lastPk + 1]]
      BY <1>4, <2>2 DEF CreateCustomer, Continue, Go
    <3>2. /\ customers'[Sender(w)].pk = lastPk'
          /\ \A d \in Customers : d # Sender(w) => customers'[d].pk = customers[d].pk
      BY <2>1, <3>1 DEF Types
    <3>3. /\ proc'[w].step = "store" /\ proc'[w].pk = lastPk'
          /\ \A v \in Workers \ {w} : proc'[v] = proc[v]
      BY <3>1 DEF Types
    <3>4. Advance
      BY <3>1, <3>3 DEF Advance, Inv, Keys, Holding, Types
    <3>5. CustRows' = CustRows
      BY <3>1 DEF CustRows
    <3> QED
      BY <2>1, <2>2, <3>1, <3>2, <3>4, <3>5, EnrolInv DEF Enrol
  <2>3. CASE customers[Sender(w)].pk # 0
    BY <1>4, <2>3, FinishInv DEF CreateCustomer
  <2> QED
    BY <2>2, <2>3
<1>5. CASE RenameCustomer(w)
  <2>1. UNCHANGED <<customers, lastPk, answers, messages>>
    BY <1>5 DEF RenameCustomer, db
  <2>2. CASE Alive(w)
    <3>1. proc[w] \in [step : {"rename", "store", "decide"}, msg : Msgs, pk : Nat]
      BY <1>5 DEF RenameCustomer, At, Types, Work
    <3>2. /\ [proc[w] EXCEPT !.step = "store"].step = "store"
          /\ [proc[w] EXCEPT !.step = "store"].pk = proc[w].pk
      BY <3>1
    <3>3. proc[w].pk \in 1..lastPk
      BY <1>5 DEF RenameCustomer, At, Inv, Keys, Holding
    <3> QED
      BY <1>5, <2>1, <2>2, <3>2, <3>3, OwnStepInv DEF RenameCustomer, Continue
  <2>3. CASE ~Alive(w)
    BY <1>5, <2>1, <2>3, FinishInv DEF RenameCustomer
  <2> QED
    BY <2>2, <2>3
<1>6. CASE StoreMessage(w)
  BY <1>6, StoreInv
<1>7. CASE Decide(w)
  <2>1. UNCHANGED <<customers, lastPk, answers, messages>>
    BY <1>7 DEF Decide, db
  <2>2. CASE Finish(w) \/ Raise(w, FALSE)
    BY <2>1, <2>2, FinishInv
  <2>3. CASE \E text \in Reply(w) : Continue(w, [step |-> "record", msg |-> Msg(w),
                                                 pk |-> proc[w].pk, text |-> text])
    <3>1. PICK text : Go(w, [step |-> "record", msg |-> Msg(w), pk |-> proc[w].pk,
                             text |-> text])
      BY <2>3 DEF Continue
    <3>2. Deciding(w) /\ proc[w].pk \in 1..lastPk
      BY <1>7 DEF Decide, At, Deciding, Inv, Keys, Holding
    <3> QED
      BY <2>1, <3>1, <3>2, OwnStepInv DEF Msg
  <2> QED
    BY <1>7, <2>2, <2>3 DEF Decide
<1>8. CASE RecordReply(w)
  <2>1. CASE ~Alive(w)
    BY <1>8, <2>1, FinishInv DEF RecordReply
  <2> QED
    BY <1>8, <2>1, RecordInv
<1>9. CASE SendAccepted(w)
  BY <1>9, FinishInv DEF SendAccepted, around
<1>10. CASE SendFails(w)
  <2>1. UNCHANGED <<customers, lastPk, answers, messages>>
    BY <1>10 DEF SendFails, around
  <2>2. CASE proc[w].tries > 1
    <3>1. proc[w] \in Work /\ proc[w].step = "send"
      BY <1>10 DEF SendFails, At, Types
    <3>2. [proc[w] EXCEPT !.tries = @ - 1].step = "send"
      BY <3>1 DEF Work
    <3>3. Go(w, [proc[w] EXCEPT !.tries = @ - 1])
      BY <1>10, <2>2 DEF SendFails, Continue
    <3> QED
      BY <2>1, <3>2, <3>3, LetGoInv
  <2>3. CASE ~(proc[w].tries > 1)
    BY <1>10, <2>1, <2>3, LetGoInv DEF SendFails, Continue
  <2> QED
    BY <2>2, <2>3
<1>11. CASE NoConversation(w)
  BY <1>11, LetGoInv DEF NoConversation, Continue, around
<1>12. CASE PickUnsent(w)
  <2>1. UNCHANGED <<customers, lastPk, answers, messages>>
    BY <1>12 DEF PickUnsent, around
  <2>2. CASE Finish(w)
    BY <2>1, <2>2, FinishInv
  <2>3. CASE ~Finish(w)
    <3>1. PICK r : Go(w, [step |-> "erase", msg |-> Msg(w), row |-> r.id])
      BY <1>12, <2>3 DEF PickUnsent, Continue
    <3> QED
      BY <2>1, <3>1, LetGoInv
  <2> QED
    BY <2>2, <2>3
<1>13. CASE EraseUnsent(w)
  <2>1. UNCHANGED <<customers, lastPk, answers>>
    BY <1>13 DEF EraseUnsent, around
  <2>2. CustRows' = CustRows
    BY <1>13 DEF EraseUnsent, CustRows
  <2>3. \A v \in Workers : proc'[v] = proc[v] \/ proc'[v].step = "idle"
    BY <1>13 DEF EraseUnsent, Finish, Go, Idle, Types
  <2>4. Advance
    BY <2>1, <2>3 DEF Advance, Inv, Keys, Holding
  <2> QED
    BY <2>1, <2>2, <2>4, CalmInv DEF Calm
<1> QED
  BY <1>1, <1>2, <1>3, <1>4, <1>5, <1>6, <1>7, <1>8, <1>9, <1>10, <1>11, <1>12, <1>13
     DEF Process

LEMMA InvStep == Types /\ Inv /\ [Next]_vars => Inv'
<1> SUFFICES ASSUME Types, Inv, [Next]_vars
             PROVE  Inv'
  OBVIOUS
<1>1. CASE Tick
  BY <1>1, IdleCalm DEF Tick, db, history
<1>2. CASE Restart
  <2>1. \A v \in Workers : proc'[v] = Idle
    BY <1>2 DEF Restart
  <2> QED
    BY <1>2, <2>1, IdleCalm DEF Restart, db, history
<1>3. CASE UNCHANGED vars
  BY <1>3, IdleCalm DEF vars, db, history
<1> QED
  BY <1>1, <1>2, <1>3, PanelInv, ArriveInv, PollInv, ProcessInv DEF Next

(* However often a message id is handed to process_incoming_message, by    *)
(* however many webhook workers, requests and polls at once, with          *)
(* restarts, deleted customers and failing sends in between, at most one   *)
(* reply to it is recorded.                                                *)
THEOREM RepliesOnce == Spec => []OneReplyPerId
<1>1. Init => Types /\ Inv
  BY TypesInit, InvInit
<1>2. Types /\ Inv /\ [Next]_vars => (Types /\ Inv)'
  BY TypesStep, InvStep
<1>3. Inv => OneReplyPerId
  BY DEF Inv
<1> QED
  BY <1>1, <1>2, <1>3, PTL DEF Spec

-------------------------------------------------------------------------------
(* The rest of the type invariant.                                         *)
Rest == /\ botEnabled \in BOOLEAN /\ gateEnabled \in BOOLEAN
        /\ follows \in [Customers -> BOOLEAN]
        /\ seen \subseteq Msgs
        /\ newest \in Seq(Customers)
        /\ todo \in Seq(Customers)
        /\ broken \in BOOLEAN
        /\ lastDone \in [Customers -> Msgs \cup {None}]
        /\ written \subseteq Msgs
        /\ calls \in Nat /\ switches \in Nat
        /\ deletes \in Nat /\ restarts \in Nat
        /\ accepted \in [Customers -> [BotTexts -> Nat]]
        /\ severed \subseteq Customers
        /\ haunted \subseteq Customers

(* One reply more is accepted.                                             *)
LEMMA AcceptedType ==
  ASSUME Rest, NEW c \in Customers, NEW t \in BotTexts,
         accepted' = [accepted EXCEPT ![c][t] = @ + 1]
  PROVE  accepted' \in [Customers -> [BotTexts -> Nat]]
<1>1. accepted[c] \in [BotTexts -> Nat] /\ accepted[c][t] + 1 \in Nat
  BY DEF Rest
<1>2. [accepted[c] EXCEPT ![t] = @ + 1] \in [BotTexts -> Nat]
  BY <1>1
<1> QED
  BY <1>2 DEF Rest

LEMMA RestInit == Init => Rest
<1> SUFFICES ASSUME Init PROVE Rest
  OBVIOUS
<1>1. Unheard \in [BotTexts -> Nat]
  BY DEF Unheard
<1>2. accepted \in [Customers -> [BotTexts -> Nat]]
  BY <1>1 DEF Init
<1>3. newest \in Seq(Customers) /\ todo \in Seq(Customers)
  BY DEF Init
<1>4. /\ follows \in [Customers -> BOOLEAN]
      /\ lastDone \in [Customers -> Msgs \cup {None}]
  BY DEF Init
<1>5. botEnabled \in BOOLEAN /\ gateEnabled \in BOOLEAN /\ broken \in BOOLEAN
  BY DEF Init
<1> QED
  BY <1>2, <1>3, <1>4, <1>5 DEF Init, Rest

LEMMA FrontType ==
  ASSUME newest \in Seq(Customers), NEW c \in Customers
  PROVE  ToFront(c) \in Seq(Customers)
<1>1. Listed(Customers \ {c}) \in Seq(Customers)
  BY ListedType
<1>2. <<c>> \in Seq(Customers)
  OBVIOUS
<1> QED
  BY <1>1, <1>2, ConcatProperties DEF ToFront

LEMMA UpdateRest ==
  ASSUME Rest, NEW c \in Customers, NEW entry, Update(c, entry)
  PROVE  newest' \in Seq(Customers)
  BY FrontType DEF Rest, Update

LEMMA PanelRest ==
  ASSUME Rest, Panel
  PROVE  Rest'
<1>1. CASE ToggleBot
  BY <1>1 DEF ToggleBot, Switch, Rest, hook, remote, poll, history
<1>2. CASE ToggleGate
  BY <1>2 DEF ToggleGate, Switch, Rest, hook, remote, poll, history
<1>3. ASSUME NEW c \in Customers, TogglePaused(c)
      PROVE  Rest'
  BY <1>3 DEF TogglePaused, Switch, Rest, hook, remote, poll, history
<1>4. ASSUME NEW c \in Customers, LearnFollower(c)
      PROVE  Rest'
  BY <1>4 DEF LearnFollower, Switch, Rest, hook, remote, poll, history
<1>5. ASSUME NEW c \in Customers, DeleteCustomer(c)
      PROVE  Rest'
  <2>1. Unheard \in [BotTexts -> Nat]
    BY DEF Unheard
  <2>2. accepted' \in [Customers -> [BotTexts -> Nat]]
    BY <1>5, <2>1 DEF DeleteCustomer, Rest
  <2>3. severed' \subseteq Customers /\ haunted' \subseteq Customers /\ deletes' \in Nat
    BY <1>5 DEF DeleteCustomer, Rest
  <2> QED
    BY <1>5, <2>2, <2>3 DEF DeleteCustomer, Rest, panel, hook, remote, poll
<1> QED
  BY <1>1, <1>2, <1>3, <1>4, <1>5 DEF Panel

LEMMA ArriveRest ==
  ASSUME Rest, Arrive
  PROVE  Rest'
<1>1. ASSUME NEW m \in Msgs, Write(m)
      PROVE  Rest'
  <2>1. From[m] \in Customers
    BY FromAssumption
  <2>2. newest' \in Seq(Customers)
    BY <1>1, <2>1, UpdateRest DEF Write
  <2> QED
    BY <1>1, <2>2 DEF Write, Rest, panel, hook, poll, history
<1>2. ASSUME NEW m \in Msgs, EnqueueEvent(m)
      PROVE  Rest'
  BY <1>2 DEF EnqueueEvent, Called, Rest, panel, remote, poll, history
<1>3. ASSUME NEW w \in Workers, TakeEvent(w)
      PROVE  Rest'
  BY <1>3 DEF TakeEvent, Rest, panel, remote, poll, history
<1>4. ASSUME NEW w \in Workers, NEW m \in Msgs, ReceiveZernio(w, m)
      PROVE  Rest'
  BY <1>4 DEF ReceiveZernio, Called, Rest, panel, remote, poll, history
<1>5. ASSUME NEW c \in Customers, NEW text \in {"gate", "reminder"},
             RecordRemoteGate(c, text)
      PROVE  Rest'
  <2>1. newest' \in Seq(Customers)
    BY <1>5, UpdateRest DEF RecordRemoteGate, WeAnswer
  <2>2. text \in BotTexts
    BY DEF BotTexts
  <2>3. accepted' \in [Customers -> [BotTexts -> Nat]]
    BY <1>5, <2>2, AcceptedType DEF RecordRemoteGate
  <2> QED
    BY <1>5, <2>1, <2>3 DEF RecordRemoteGate, Called, Rest, panel, poll
<1> QED
  BY <1>1, <1>2, <1>3, <1>4, <1>5 DEF Arrive

LEMMA PollRest ==
  ASSUME Types, Rest, Poll
  PROVE  Rest'
<1>1. CASE PollList
  <2>1. PICK S : todo' = Listed(S)
    BY <1>1 DEF PollList
  <2>2. todo' \in Seq(Customers)
    BY <2>1, ListedType DEF Rest
  <2> QED
    BY <1>1, <2>2 DEF PollList, Rest, panel, hook, history
<1>2. ASSUME NEW c \in Customers, PollRead(c)
      PROVE  Rest'
  <2>1. todo' \in Seq(Customers)
    BY <1>2 DEF PollRead, Rest
  <2> QED
    BY <1>2, <2>1 DEF PollRead, Rest, panel, hook, remote, history
<1>3. CASE PollReadFails \/ PollMisread
  <2>1. PICK n \in {1, Len(todo)} : todo' = SubSeq(todo, n + 1, Len(todo))
    BY <1>3 DEF PollReadFails, PollMisread
  <2>2. n \in Nat /\ Len(todo) \in Nat
    BY <2>1 DEF Rest
  <2>3. \A i \in n + 1..Len(todo) : todo[i] \in Customers
    BY <2>2 DEF Rest
  <2>4. todo' \in Seq(Customers)
    BY <2>1, <2>2, <2>3, SubSeqProperties
  <2> QED
    BY <1>3, <2>4 DEF PollReadFails, PollMisread, Rest, panel, hook, history
<1>4. CASE PollTake
  BY <1>4 DEF PollTake, Rest, panel, hook, remote, history
<1>5. CASE PollSkip
  BY <1>5 DEF PollSkip, Rest, panel, hook, remote, history
<1> QED
  BY <1>1, <1>2, <1>3, <1>4, <1>5 DEF Poll

(* Ending or going on with a call.                                         *)
LEMMA EndRest ==
  ASSUME Types, Rest, NEW w \in Workers,
         \/ Finish(w) /\ proc[w].step # "idle"
         \/ \E b \in BOOLEAN : Raise(w, b)
         \/ \E work : Continue(w, work)
  PROVE  broken' \in BOOLEAN /\ lastDone' \in [Customers -> Msgs \cup {None}]
<1>1. CASE Finish(w) /\ proc[w].step # "idle"
  <2>1. Msg(w) \in Msgs
    BY <1>1, WorkType
  <2>2. lastDone' = lastDone \/ lastDone' = [lastDone EXCEPT ![Sender(w)] = Msg(w)]
    BY <1>1 DEF Finish
  <2> QED
    BY <1>1, <2>1, <2>2 DEF Finish, Rest
<1>2. CASE \E b \in BOOLEAN : Raise(w, b)
  BY <1>2 DEF Raise, Rest
<1>3. CASE \E work : Continue(w, work)
  BY <1>3 DEF Continue, Rest
<1> QED
  BY <1>1, <1>2, <1>3

(* Every step of a call ends it or goes on with it.                        *)
LEMMA ProcessEnds ==
  ASSUME NEW w \in Workers, Process(w)
  PROVE  /\ proc[w].step # "idle"
         /\ \/ Finish(w)
            \/ \E b \in BOOLEAN : Raise(w, b)
            \/ \E work : Continue(w, work)
<1>1. CASE KnownMessage(w) \/ NewMessage(w) \/ FindCustomer(w)
  BY <1>1 DEF KnownMessage, NewMessage, FindCustomer, At
<1>2. CASE CreateCustomer(w) \/ RenameCustomer(w)
  BY <1>2 DEF CreateCustomer, RenameCustomer, At
<1>3. CASE StoreMessage(w) \/ StoreRefused(w)
  BY <1>3 DEF StoreMessage, StoreRefused, At
<1>4. CASE Decide(w)
  BY <1>4 DEF Decide, At
<1>5. CASE RecordReply(w)
  BY <1>5 DEF RecordReply, At
<1>6. CASE SendAccepted(w) \/ SendFails(w) \/ NoConversation(w)
  BY <1>6 DEF SendAccepted, SendFails, NoConversation, At
<1>7. CASE PickUnsent(w) \/ EraseUnsent(w)
  BY <1>7 DEF PickUnsent, EraseUnsent, At
<1> QED
  BY <1>1, <1>2, <1>3, <1>4, <1>5, <1>6, <1>7 DEF Process

LEMMA ProcessRest ==
  ASSUME Types, Rest, NEW w \in Workers, Process(w)
  PROVE  Rest'
<1>1. broken' \in BOOLEAN /\ lastDone' \in [Customers -> Msgs \cup {None}]
  BY EndRest, ProcessEnds
<1>2. CASE \/ KnownMessage(w) \/ NewMessage(w) \/ FindCustomer(w) \/ CreateCustomer(w)
           \/ RenameCustomer(w) \/ StoreMessage(w) \/ StoreRefused(w) \/ Decide(w)
           \/ RecordReply(w)
  <2>1. UNCHANGED <<world, accepted>>
    BY <1>2 DEF KnownMessage, NewMessage, FindCustomer, CreateCustomer, RenameCustomer,
                StoreMessage, StoreRefused, Decide, RecordReply
  <2> QED
    BY <1>1, <2>1 DEF world, Rest, panel, hook, remote
<1>3. CASE SendAccepted(w)
  <2>1. Sender(w) \in Customers /\ proc[w].text \in BotTexts
    BY <1>3, MidType, WorkType DEF SendAccepted, At
  <2>2. newest' \in Seq(Customers)
    BY <1>3, <2>1, UpdateRest DEF SendAccepted, WeAnswer
  <2>3. accepted' \in [Customers -> [BotTexts -> Nat]]
    <3>1. CASE Alive(w)
      BY <1>3, <2>1, <3>1, AcceptedType DEF SendAccepted
    <3>2. CASE ~Alive(w)
      BY <1>3, <3>2 DEF SendAccepted, Rest
    <3> QED
      BY <3>1, <3>2
  <2> QED
    BY <1>1, <1>3, <2>2, <2>3 DEF SendAccepted, around, Rest, panel, hook
<1>4. CASE SendFails(w)
  <2>1. Sender(w) \in Customers
    BY <1>4, MidType DEF SendFails, At
  <2>2. newest' \in Seq(Customers)
    BY <1>4, <2>1, UpdateRest DEF SendFails, WeAnswer, Rest
  <2> QED
    BY <1>1, <1>4, <2>2 DEF SendFails, around, Rest, panel, hook
<1>5. CASE NoConversation(w) \/ PickUnsent(w) \/ EraseUnsent(w)
  <2>1. UNCHANGED <<around, newest, accepted>>
    BY <1>5 DEF NoConversation, PickUnsent, EraseUnsent
  <2>2. Sender(w) \in Customers
    BY <1>5, MidType DEF NoConversation, PickUnsent, EraseUnsent, At
  <2>3. haunted' \subseteq Customers
    BY <1>5, <2>2 DEF NoConversation, PickUnsent, EraseUnsent, Haunt, Rest
  <2> QED
    BY <1>1, <2>1, <2>3 DEF around, Rest, panel, hook
<1> QED
  BY <1>2, <1>3, <1>4, <1>5 DEF Process

LEMMA RestStep == Types /\ Rest /\ [Next]_vars => Rest'
<1> SUFFICES ASSUME Types, Rest, [Next]_vars
             PROVE  Rest'
  OBVIOUS
<1>1. CASE Tick
  BY <1>1 DEF Tick, Rest, panel, remote, poll, history
<1>2. CASE Restart
  <2>1. /\ follows' \in [Customers -> BOOLEAN]
        /\ lastDone' \in [Customers -> Msgs \cup {None}]
        /\ todo' \in Seq(Customers)
    BY <1>2 DEF Restart
  <2>2. restarts' \in Nat
    BY <1>2 DEF Restart, Rest
  <2>3. broken' \in BOOLEAN /\ seen' \subseteq Msgs
    BY <1>2 DEF Restart
  <2>4. \A w \in Replying : From[proc[w].msg] \in Customers
    BY MidType DEF Replying, Sender, Msg
  <2>5. haunted' \subseteq Customers
    BY <1>2, <2>4 DEF Restart, Rest
  <2> QED
    BY <1>2, <2>1, <2>2, <2>3, <2>5 DEF Restart, Rest
<1>3. CASE UNCHANGED vars
  BY <1>3 DEF vars, Rest, panel, hook, remote, poll, history
<1> QED
  BY <1>1, <1>2, <1>3, PanelRest, ArriveRest, PollRest, ProcessRest DEF Next

(* Every variable keeps its type: among others, a filtered list of          *)
(* conversations is a list of customers, whatever is cut off it.            *)
THEOREM TypeCorrect == Spec => []TypeOK
<1>1. Init => Types /\ Rest
  BY TypesInit, RestInit
<1>2. Types /\ Rest /\ [Next]_vars => (Types /\ Rest)'
  BY TypesStep, RestStep
<1>3. Types /\ Rest => TypeOK
  BY DEF Types, Rest, TypeOK
<1> QED
  BY <1>1, <1>2, <1>3, PTL DEF Spec

-------------------------------------------------------------------------------
(* What the poll has read and not yet marked.  A message that is no longer *)
(* the last of its conversation has been overtaken by a change the next    *)
(* poll will see.                                                          *)
Polled(m) == \/ \E i \in 1..Len(batch) : batch[i] = m
             \/ ~At(Poller, "idle") /\ Msg(Poller) = m

Track == /\ \A m \in Msgs : Polled(m) => \/ inbox[From[m]].last = m
                                         \/ inbox[From[m]].changed
         /\ \A c \in Customers : inbox[c].last # None => From[inbox[c].last] = c

LEMMA TrackInit == Init => Track
  BY DEF Init, Track, Polled, At, Idle, Unwritten, Workers

(* A conversation is left alone or its updatedTime changes.                *)
Touched == \A c \in Customers :
             \/ inbox'[c] = inbox[c]
             \/ /\ inbox'[c].changed
                /\ \/ inbox'[c].last = inbox[c].last
                   \/ From[inbox'[c].last] = c

LEMMA TrackKept ==
  ASSUME Types, Track, Touched, \A m \in Msgs : Polled(m)' => Polled(m)
  PROVE  Track'
<1>1. ASSUME NEW m \in Msgs, Polled(m)'
      PROVE  inbox'[From[m]].last = m \/ inbox'[From[m]].changed
  <2>1. From[m] \in Customers
    BY FromAssumption
  <2>2. inbox[From[m]].last = m \/ inbox[From[m]].changed
    BY <1>1 DEF Track
  <2> QED
    BY <2>1, <2>2 DEF Touched
<1>2. ASSUME NEW c \in Customers, inbox'[c].last # None
      PROVE  From[inbox'[c].last] = c
  BY <1>2 DEF Touched, Track
<1> QED
  BY <1>1, <1>2 DEF Track

(* A conversation is changed, or its message keeps its mark and its place. *)
Watched(c) == \/ inbox'[c].changed
              \/ /\ inbox'[c] = inbox[c]
                 /\ lastDone'[c] = lastDone[c]
                 /\ InHand(c) => InHand(c)'

LEMMA WatchedKept ==
  ASSUME NEW c \in Customers, Watched(c), Dropped(c)'
  PROVE  Dropped(c)
  BY DEF Watched, Dropped, Unhandled

(* The Poller goes on with the message it has, or with none.               *)
SameHand == /\ todo' = todo /\ batch' = batch
            /\ proc'[Poller] = proc[Poller]

LEMMA HandKept ==
  ASSUME Types, Track, SameHand, Touched, lastDone' = lastDone
  PROVE  /\ Track'
         /\ \A c \in Customers : Dropped(c)' => Dropped(c)
<1>1. \A m : Polled(m)' <=> Polled(m)
  BY DEF SameHand, Polled, At, Msg
<1>2. \A c \in Customers : inbox'[c] = inbox[c] => (InHand(c)' <=> InHand(c))
  BY DEF SameHand, InHand, At, Msg
<1>3. \A c \in Customers : Watched(c)
  BY <1>2 DEF Watched, Touched
<1> QED
  BY <1>1, <1>3, TrackKept, WatchedKept

LEMMA UpdateTouches ==
  ASSUME Types, NEW c \in Customers, NEW entry, Update(c, entry), entry.changed,
         entry.last = inbox[c].last \/ From[entry.last] = c
  PROVE  Touched
  BY DEF Update, Touched, Types

LEMMA AnswerTouches ==
  ASSUME Types, NEW c \in Customers, WeAnswer(c)
  PROVE  Touched
<1> DEFINE entry == [Unread(inbox[c]) EXCEPT !.answered = TRUE]
<1>1. Update(c, entry)
  BY DEF WeAnswer
<1>2. entry.changed /\ entry.last = inbox[c].last
  BY DEF Types, Unread
<1> HIDE DEF entry
<1> QED
  BY <1>1, <1>2, UpdateTouches

LEMMA AloneTouches == inbox' = inbox => Touched
  BY DEF Touched

LEMMA PanelSlips ==
  ASSUME Types, Track, Panel
  PROVE  Track' /\ \A c \in Customers : Dropped(c)' => Dropped(c)
<1>1. UNCHANGED <<todo, batch, proc, inbox, lastDone>>
  BY DEF Panel, ToggleBot, ToggleGate, TogglePaused, LearnFollower, DeleteCustomer, poll,
         remote
<1> QED
  BY <1>1, HandKept, AloneTouches DEF SameHand

LEMMA ArriveSlips ==
  ASSUME Types, Track, Arrive
  PROVE  Track' /\ \A c \in Customers : Dropped(c)' => Dropped(c)
<1>1. ASSUME NEW m \in Msgs, Write(m)
      PROVE  SameHand /\ Touched /\ lastDone' = lastDone
  <2> DEFINE entry == [last |-> m, answered |-> FALSE, changed |-> TRUE, misread |-> FALSE]
  <2>1. Update(From[m], entry)
    BY <1>1 DEF Write
  <2>2. From[m] \in Customers /\ entry.changed /\ From[entry.last] = From[m]
    BY FromAssumption
  <2> HIDE DEF entry
  <2> QED
    BY <1>1, <2>1, <2>2, UpdateTouches DEF Write, SameHand, poll
<1>2. ASSUME NEW m \in Msgs, EnqueueEvent(m)
      PROVE  SameHand /\ Touched /\ lastDone' = lastDone
  BY <1>2, AloneTouches DEF EnqueueEvent, SameHand, poll, remote
<1>3. ASSUME NEW w \in Workers, TakeEvent(w) \/ \E m \in Msgs : ReceiveZernio(w, m)
      PROVE  SameHand /\ Touched /\ lastDone' = lastDone
  <2>1. w # Poller
    BY <1>3, WorkersAssumption DEF TakeEvent, ReceiveZernio
  <2>2. PICK m : Start(w, m)
    BY <1>3 DEF TakeEvent, ReceiveZernio
  <2>3. proc'[Poller] = proc[Poller]
    BY <2>1, <2>2 DEF Start, Go, Types, Workers
  <2>4. UNCHANGED <<poll, remote>>
    BY <1>3 DEF TakeEvent, ReceiveZernio
  <2> QED
    BY <2>3, <2>4, AloneTouches DEF SameHand, poll, remote
<1>4. ASSUME NEW c \in Customers, NEW text, RecordRemoteGate(c, text)
      PROVE  SameHand /\ Touched /\ lastDone' = lastDone
  BY <1>4, AnswerTouches DEF RecordRemoteGate, SameHand, poll
<1>5. SameHand /\ Touched /\ lastDone' = lastDone
  BY <1>1, <1>2, <1>3, <1>4 DEF Arrive
<1> QED
  BY <1>5, HandKept

(* A poll starts: what is new is on its list.                              *)
LEMMA ListSlips ==
  ASSUME Types, Rest, Track, PollList
  PROVE  Track' /\ \A c \in Customers : Dropped(c)' => Dropped(c)
<1> DEFINE top == {newest[i] : i \in 1..Len(newest) \cap 1..Amount}
           new == {c \in top : inbox[c].changed}
<1>1. /\ proc[Poller].step = "idle" /\ todo = <<>> /\ batch = <<>>
      /\ todo' = Listed(new)
      /\ inbox' = [c \in Customers |-> IF c \in top
                     THEN [inbox[c] EXCEPT !.changed = FALSE] ELSE inbox[c]]
      /\ UNCHANGED <<batch, proc, lastDone>>
  BY DEF PollList
<1>2. \A m : ~Polled(m)'
  BY <1>1 DEF Polled, At
<1>3. \A c \in Customers : inbox'[c].last = inbox[c].last /\ inbox'[c].answered = inbox[c].answered
  BY <1>1 DEF Types
<1>4. Track'
  BY <1>2, <1>3 DEF Track
<1>5. ASSUME NEW c \in Customers, Dropped(c)'
      PROVE  Dropped(c)
  <2>1. Unhandled(c)
    BY <1>1, <1>3, <1>5 DEF Dropped, Unhandled
  <2>2. ~InHand(c)
    BY <1>1 DEF InHand, At
  <2>3. CASE c \in top
    <3>1. PICK k \in 1..Len(newest) : c = newest[k]
      BY <2>3
    <3>2. c \notin new
      <4> SUFFICES ASSUME c \in new PROVE FALSE
        OBVIOUS
      <4> HIDE DEF top, new
      <4>1. \E n \in 1..Len(todo') : todo'[n] = c
        BY <1>1, <3>1, ListedType DEF Rest
      <4> QED
        BY <1>5, <4>1 DEF Dropped, InHand
    <3>3. ~inbox[c].changed
      BY <2>3, <3>2
    <3> QED
      BY <2>1, <2>2, <3>3 DEF Dropped
  <2>4. CASE c \notin top
    <3>1. inbox'[c] = inbox[c]
      BY <1>1, <2>4
    <3> QED
      BY <1>5, <2>1, <2>2, <3>1 DEF Dropped
  <2> QED
    BY <2>3, <2>4
<1> QED
  BY <1>4, <1>5

LEMMA ReadSlips ==
  ASSUME Types, Rest, Track, NEW d \in Customers, PollRead(d)
  PROVE  Track' /\ \A c \in Customers : Dropped(c)' => Dropped(c)
<1>1. /\ todo # <<>> /\ d = Head(todo) /\ todo' = Tail(todo)
      /\ batch' = IF Unhandled(d) THEN Append(batch, inbox[d].last) ELSE batch
      /\ UNCHANGED <<inbox, proc, lastDone>>
  BY DEF PollRead, remote
<1>2. todo \in Seq(Customers) /\ batch \in Seq(Msgs)
  BY DEF Types, Rest
<1>3. Unhandled(d) => inbox[d].last \in Msgs /\ From[inbox[d].last] = d
  BY DEF Types, Track, Unhandled
<1>4. \A i \in 1..Len(batch) : i \in 1..Len(batch') /\ batch'[i] = batch[i]
  BY <1>1, <1>2, <1>3
<1>5. Unhandled(d) => \E i \in 1..Len(batch') : batch'[i] = inbox[d].last
  <2>1. Unhandled(d) => /\ Len(batch) + 1 \in 1..Len(batch')
                        /\ batch'[Len(batch) + 1] = inbox[d].last
    BY <1>1, <1>2, <1>3
  <2> QED
    BY <2>1
<1>6. Track'
  <2>1. ASSUME NEW m \in Msgs, Polled(m)'
        PROVE  Polled(m) \/ inbox[From[m]].last = m
    <3>1. CASE ~At(Poller, "idle")' /\ Msg(Poller)' = m
      BY <1>1, <3>1 DEF Polled, At, Msg
    <3>2. ASSUME NEW i \in 1..Len(batch'), batch'[i] = m
          PROVE  Polled(m) \/ inbox[From[m]].last = m
      <4>1. \/ i \in 1..Len(batch) /\ batch[i] = m
            \/ Unhandled(d) /\ m = inbox[d].last
        BY <1>1, <1>2, <1>3, <3>2
      <4> QED
        BY <1>3, <4>1 DEF Polled
    <3> QED
      BY <2>1, <3>1, <3>2 DEF Polled
  <2> QED
    BY <1>1, <2>1 DEF Track
<1>7. ASSUME NEW c \in Customers, Dropped(c)'
      PROVE  Dropped(c)
  <2>1. Unhandled(c) /\ ~inbox[c].changed
    BY <1>1, <1>7 DEF Dropped, Unhandled
  <2>2. c # d
    BY <1>1, <1>5, <1>7, <2>1 DEF Dropped, InHand
  <2>3. ASSUME NEW i \in 1..Len(todo), todo[i] = c
        PROVE  \E j \in 1..Len(todo') : todo'[j] = c
    <3>1. i # 1
      BY <1>1, <1>2, <2>2, <2>3
    <3>2. i - 1 \in 1..Len(todo') /\ todo'[i - 1] = todo[i]
      BY <1>1, <1>2, <3>1, HeadTailProperties
    <3> QED
      BY <2>3, <3>2
  <2>4. ASSUME NEW i \in 1..Len(batch), batch[i] = inbox[c].last
        PROVE  \E j \in 1..Len(batch') : batch'[j] = inbox[c].last
    BY <1>4, <2>4
  <2>5. InHand(c) => InHand(c)'
    BY <1>1, <2>3, <2>4 DEF InHand, At, Msg
  <2> QED
    BY <1>7, <2>1, <2>5 DEF Dropped
<1> QED
  BY <1>6, <1>7

(* The conversations behind the first n are still to be read.              *)
LEMMA StillToRead ==
  ASSUME Rest, NEW n \in {1, Len(todo)}, todo' = SubSeq(todo, n + 1, Len(todo)),
         NEW c, ~\E i \in 1..n : todo[i] = c, NEW i \in 1..Len(todo), todo[i] = c
  PROVE  \E j \in 1..Len(todo') : todo'[j] = c
<1>1. todo \in Seq(Customers) /\ Len(todo) \in Nat /\ n \in Nat
  BY DEF Rest
<1>2. i > n
  BY <1>1
<1>3. \A k \in n + 1..Len(todo) : todo[k] \in Customers
  BY <1>1
<1>4. /\ Len(todo') = IF n + 1 <= Len(todo) THEN Len(todo) - (n + 1) + 1 ELSE 0
      /\ \A j \in 1..Len(todo) - (n + 1) + 1 : todo'[j] = todo[(n + 1) + j - 1]
  BY <1>1, <1>3, SubSeqProperties
<1>5. /\ i - n \in 1..Len(todo) - (n + 1) + 1
      /\ i - n \in 1..Len(todo')
      /\ (n + 1) + (i - n) - 1 = i
  BY <1>1, <1>2, <1>4
<1>6. todo'[i - n] = todo[i]
  BY <1>4, <1>5
<1> QED
  BY <1>5, <1>6

(* What could not be read stays changed.                                   *)
LEMMA FailSlips ==
  ASSUME Types, Rest, Track, PollReadFails
  PROVE  Track' /\ \A c \in Customers : Dropped(c)' => Dropped(c)
<1>1. PICK n \in {1, Len(todo)} :
        /\ todo' = SubSeq(todo, n + 1, Len(todo))
        /\ inbox' = [c \in Customers |-> IF \E i \in 1..n : todo[i] = c
                       THEN Unread(inbox[c]) ELSE inbox[c]]
  BY DEF PollReadFails
<1>2. UNCHANGED <<batch, proc, lastDone>>
  BY DEF PollReadFails
<1>4. Touched
  BY <1>1 DEF Touched, Types, Unread
<1>5. \A m : Polled(m)' <=> Polled(m)
  BY <1>2 DEF Polled, At, Msg
<1>6. ASSUME NEW c \in Customers
      PROVE  Watched(c)
  <2>1. CASE \E i \in 1..n : todo[i] = c
    BY <1>1, <2>1 DEF Watched, Types, Unread
  <2>2. CASE ~\E i \in 1..n : todo[i] = c
    <3>1. inbox'[c] = inbox[c]
      BY <1>1, <2>2
    <3>2. ASSUME NEW i \in 1..Len(todo), todo[i] = c
          PROVE  \E j \in 1..Len(todo') : todo'[j] = c
      BY <1>1, <2>2, <3>2, StillToRead
    <3>3. InHand(c) => InHand(c)'
      BY <1>2, <3>1, <3>2 DEF InHand, At, Msg
    <3> QED
      BY <1>2, <3>1, <3>3 DEF Watched
  <2> QED
    BY <2>1, <2>2
<1> QED
  BY <1>4, <1>5, <1>6, TrackKept, WatchedKept

(* An answer of no use hides the conversation it was asked for, no other.  *)
LEMMA MisreadSlips ==
  ASSUME Types, Rest, Track, PollMisread
  PROVE  Track' /\ \A c \in Customers : Dropped(c)' => Dropped(c) \/ GivenUp(c)
<1>1. PICK n \in {1, Len(todo)} :
        /\ todo' = SubSeq(todo, n + 1, Len(todo))
        /\ inbox' = [c \in Customers |->
                      IF c = Head(todo) THEN [inbox[c] EXCEPT !.misread = ~inbox[c].changed]
                      ELSE IF \E i \in 2..n : todo[i] = c THEN Unread(inbox[c])
                      ELSE inbox[c]]
  BY DEF PollMisread
<1>2. UNCHANGED <<batch, proc, lastDone>> /\ todo # <<>>
  BY DEF PollMisread
<1>3. \A m : Polled(m)' <=> Polled(m)
  BY <1>2 DEF Polled, At, Msg
<1>4. \A c \in Customers : /\ inbox'[c].last = inbox[c].last
                           /\ inbox[c].changed => inbox'[c].changed
  BY <1>1 DEF Types, Unread
<1>5. Track'
  <2>1. \A m \in Msgs : From[m] \in Customers
    BY FromAssumption
  <2> QED
    BY <1>3, <1>4, <2>1 DEF Track
<1>6. ASSUME NEW c \in Customers, c # Head(todo)
      PROVE  Watched(c)
  <2>1. CASE \E i \in 2..n : todo[i] = c
    BY <1>1, <1>6, <2>1 DEF Watched, Types, Unread
  <2>2. CASE ~\E i \in 2..n : todo[i] = c
    <3>1. inbox'[c] = inbox[c]
      BY <1>1, <1>6, <2>2
    <3>2. ~\E i \in 1..n : todo[i] = c
      <4>1. todo[1] = Head(todo) /\ n \in Nat
        BY <1>1, <1>2 DEF Rest
      <4> QED
        BY <1>6, <2>2, <4>1
    <3>3. ASSUME NEW i \in 1..Len(todo), todo[i] = c
          PROVE  \E j \in 1..Len(todo') : todo'[j] = c
      BY <1>1, <3>2, <3>3, StillToRead
    <3>4. InHand(c) => InHand(c)'
      BY <1>2, <3>1, <3>3 DEF InHand, At, Msg
    <3> QED
      BY <1>2, <3>1, <3>4 DEF Watched
  <2> QED
    BY <2>1, <2>2
<1>7. \A c \in Customers : c = Head(todo) => GivenUp(c)
  BY DEF GivenUp
<1> QED
  BY <1>5, <1>6, <1>7, WatchedKept

(* The first message goes from the batch to the Poller's call.             *)
LEMMA TakeSlips ==
  ASSUME Types, Track, PollTake
  PROVE  Track' /\ \A c \in Customers : Dropped(c)' => Dropped(c)
<1>1. /\ batch # <<>> /\ batch' = Tail(batch)
      /\ proc[Poller].step = "idle"
      /\ proc' = [proc EXCEPT ![Poller] = [step |-> "dedup", msg |-> Head(batch)]]
      /\ UNCHANGED <<todo, inbox, lastDone>>
  BY DEF PollTake, Start, Go, remote
<1>2. proc'[Poller].step = "dedup" /\ proc'[Poller].msg = Head(batch)
  BY <1>1 DEF Types, Workers
<1>3. batch \in Seq(Msgs)
  BY DEF Types
<1>4. /\ 1 \in 1..Len(batch) /\ Head(batch) = batch[1]
      /\ \A i \in 1..Len(batch') : i + 1 \in 1..Len(batch) /\ batch'[i] = batch[i + 1]
      /\ \A i \in 1..Len(batch) : i # 1 => i - 1 \in 1..Len(batch') /\ batch'[i - 1] = batch[i]
  BY <1>1, <1>3, HeadTailProperties
<1>5. \A m : Polled(m)' => Polled(m)
  BY <1>2, <1>4 DEF Polled, At, Msg
<1>6. ASSUME NEW c \in Customers, InHand(c)
      PROVE  InHand(c)'
  <2>1. CASE \E i \in 1..Len(todo) : todo[i] = c
    BY <1>1, <2>1 DEF InHand
  <2>2. ASSUME NEW i \in 1..Len(batch), batch[i] = inbox[c].last
        PROVE  InHand(c)'
    <3>1. CASE i = 1
      BY <1>1, <1>2, <1>4, <2>2, <3>1 DEF InHand, At, Msg
    <3>2. CASE i # 1
      BY <1>1, <1>4, <2>2, <3>2 DEF InHand
    <3> QED
      BY <3>1, <3>2
  <2> QED
    BY <1>1, <1>6, <2>1, <2>2 DEF InHand, At
<1>7. \A c \in Customers : Watched(c)
  BY <1>1, <1>6 DEF Watched
<1> QED
  BY <1>1, <1>5, <1>7, TrackKept, WatchedKept, AloneTouches

(* A skipped message is given up.                                          *)
LEMMA SkipSlips ==
  ASSUME Types, Track, PollSkip
  PROVE  Track' /\ \A c \in Customers : Dropped(c)' => Dropped(c) \/ GivenUp(c)
<1>1. /\ broken /\ batch # <<>> /\ batch' = Tail(batch)
      /\ UNCHANGED <<todo, inbox, proc, lastDone>>
  BY DEF PollSkip, remote
<1>2. batch \in Seq(Msgs)
  BY DEF Types
<1>3. /\ Head(batch) = batch[1]
      /\ \A i \in 1..Len(batch') : i + 1 \in 1..Len(batch) /\ batch'[i] = batch[i + 1]
      /\ \A i \in 1..Len(batch) : i # 1 => i - 1 \in 1..Len(batch') /\ batch'[i - 1] = batch[i]
  BY <1>1, <1>2, HeadTailProperties
<1>4. \A m : Polled(m)' => Polled(m)
  BY <1>1, <1>3 DEF Polled, At, Msg
<1>5. ASSUME NEW c \in Customers, ~GivenUp(c)
      PROVE  Watched(c)
  <2>1. Head(batch) # inbox[c].last
    BY <1>1, <1>5 DEF GivenUp
  <2>2. InHand(c) => InHand(c)'
    BY <1>1, <1>3, <2>1 DEF InHand, At, Msg
  <2> QED
    BY <1>1, <2>2 DEF Watched
<1> QED
  BY <1>1, <1>4, <1>5, TrackKept, WatchedKept, AloneTouches

(* A step of a call leaves the poll's lists alone, answers at most in its  *)
(* own conversation, and goes on with its message or ends.                 *)
LEMMA ProcessHand ==
  ASSUME Types, NEW w \in Workers, Process(w)
  PROVE  /\ proc[w].step # "idle"
         /\ todo' = todo /\ batch' = batch
         /\ Touched
         /\ \/ Finish(w)
            \/ \E b \in BOOLEAN : Raise(w, b)
            \/ \E work : /\ Continue(w, work) /\ work.step # "idle"
                         /\ work.msg = proc[w].msg
<1> DEFINE Goes == \E work : /\ Continue(w, work) /\ work.step # "idle"
                             /\ work.msg = proc[w].msg
<1>1. CASE \/ KnownMessage(w) \/ NewMessage(w) \/ StoreRefused(w)
  <2>1. proc[w].step # "idle" /\ (Finish(w) \/ Goes)
    BY <1>1 DEF KnownMessage, NewMessage, StoreRefused, At, Msg
  <2>2. UNCHANGED <<todo, batch, inbox>>
    BY <1>1 DEF KnownMessage, NewMessage, StoreRefused, world, remote
  <2> QED
    BY <2>1, <2>2, AloneTouches
<1>2. CASE FindCustomer(w)
  <2>1. proc[w].step # "idle" /\ UNCHANGED <<todo, batch, inbox>>
    BY <1>2 DEF FindCustomer, At, world, remote
  <2>2. Goes
    <3>1. CASE customers[Sender(w)].pk = 0
      BY <1>2, <3>1 DEF FindCustomer, Msg
    <3>2. CASE customers[Sender(w)].pk # 0
      <4>1. PICK next \in {"store", "rename"} :
              Continue(w, [step |-> next, msg |-> Msg(w), pk |-> customers[Sender(w)].pk])
        BY <1>2, <3>2 DEF FindCustomer
      <4> QED
        BY <4>1 DEF Msg
    <3> QED
      BY <3>1, <3>2
  <2> QED
    BY <2>1, <2>2, AloneTouches
<1>3. CASE CreateCustomer(w)
  <2>1. proc[w].step # "idle" /\ UNCHANGED <<todo, batch, inbox>>
    BY <1>3 DEF CreateCustomer, At, world, remote
  <2>2. Goes \/ Raise(w, TRUE)
    <3>1. CASE Continue(w, [step |-> "store", msg |-> Msg(w), pk |-> lastPk + 1])
      <4>1. Goes
        BY <3>1 DEF Msg
      <4> QED
        BY <4>1
    <3>2. CASE Raise(w, TRUE)
      BY <3>2
    <3> QED
      BY <1>3, <3>1, <3>2 DEF CreateCustomer
  <2> QED
    BY <2>1, <2>2, AloneTouches
<1>4. CASE RenameCustomer(w) \/ StoreMessage(w)
  <2>1. proc[w].step # "idle" /\ UNCHANGED <<todo, batch, inbox>>
    BY <1>4 DEF RenameCustomer, StoreMessage, At, world, remote
  <2>2. proc[w] \in [step : {"rename", "store", "decide"}, msg : Msgs, pk : Nat]
    BY <1>4 DEF RenameCustomer, StoreMessage, At, Types, Work
  <2>3. ASSUME NEW step \in {"store", "decide"}
        PROVE  /\ [proc[w] EXCEPT !.step = step].step # "idle"
               /\ [proc[w] EXCEPT !.step = step].msg = proc[w].msg
    BY <2>2
  <2>4. \/ Raise(w, TRUE)
        \/ \E step \in {"store", "decide"} : Continue(w, [proc[w] EXCEPT !.step = step])
    BY <1>4 DEF RenameCustomer, StoreMessage
  <2>5. Goes \/ Raise(w, TRUE)
    BY <2>3, <2>4
  <2> QED
    BY <2>1, <2>5, AloneTouches
<1>5. CASE Decide(w)
  <2>1. proc[w].step # "idle" /\ UNCHANGED <<todo, batch, inbox>>
    BY <1>5 DEF Decide, At, world, remote
  <2>2. Goes \/ Raise(w, FALSE) \/ Finish(w)
    <3>1. ASSUME NEW text, Continue(w, [step |-> "record", msg |-> Msg(w),
                                        pk |-> proc[w].pk, text |-> text])
          PROVE  Goes
      BY <3>1 DEF Msg
    <3> HIDE DEF Goes
    <3> QED
      BY <1>5, <3>1 DEF Decide
  <2> QED
    BY <2>1, <2>2, AloneTouches
<1>6. CASE RecordReply(w)
  <2>1. proc[w].step # "idle" /\ UNCHANGED <<todo, batch, inbox>>
    BY <1>6 DEF RecordReply, At, world, remote
  <2>2. Goes \/ Raise(w, TRUE)
    <3>1. CASE Continue(w, [step |-> "send", msg |-> Msg(w), pk |-> proc[w].pk,
                            text |-> proc[w].text, tries |-> Attempts])
      <4>1. Goes
        BY <3>1 DEF Msg
      <4> QED
        BY <4>1
    <3> HIDE DEF Goes
    <3> QED
      BY <1>6, <3>1 DEF RecordReply
  <2> QED
    BY <2>1, <2>2, AloneTouches
<1>7. CASE SendAccepted(w)
  <2>1. proc[w].step # "idle" /\ UNCHANGED <<todo, batch>> /\ Finish(w)
    BY <1>7 DEF SendAccepted, At, around
  <2>2. Touched
    BY <1>7, <2>1, MidType, AnswerTouches DEF SendAccepted
  <2> QED
    BY <2>1, <2>2
<1>8. CASE SendFails(w)
  <2>1. proc[w].step = "send" /\ UNCHANGED <<todo, batch>>
    BY <1>8 DEF SendFails, At, around
  <2>2. Touched
    BY <1>8, <2>1, MidType, AnswerTouches, AloneTouches DEF SendFails
  <2>3. Goes
    <3>1. CASE proc[w].tries > 1
      <4>1. proc[w] \in [step : {"send"}, msg : Msgs, pk : Nat, text : BotTexts, tries : Nat]
        BY <2>1 DEF Types, Work
      <4> DEFINE again == [proc[w] EXCEPT !.tries = @ - 1]
      <4>2. again.step # "idle" /\ again.msg = proc[w].msg
        BY <4>1
      <4>3. Continue(w, again)
        BY <1>8, <3>1 DEF SendFails
      <4> HIDE DEF again
      <4> QED
        BY <4>2, <4>3
    <3>2. CASE ~(proc[w].tries > 1)
      BY <1>8, <3>2 DEF SendFails, Msg
    <3> QED
      BY <3>1, <3>2
  <2> QED
    BY <2>1, <2>2, <2>3
<1>9. CASE NoConversation(w) \/ PickUnsent(w) \/ EraseUnsent(w)
  <2>1. proc[w].step # "idle" /\ UNCHANGED <<todo, batch, inbox>>
    BY <1>9 DEF NoConversation, PickUnsent, EraseUnsent, At, around
  <2>2. Goes \/ Finish(w)
    <3>1. CASE Continue(w, [step |-> "pick", msg |-> Msg(w), text |-> proc[w].text])
      <4>1. Goes
        BY <3>1 DEF Msg
      <4> QED
        BY <4>1
    <3>2. ASSUME NEW r, Continue(w, [step |-> "erase", msg |-> Msg(w), row |-> r.id])
          PROVE  Goes
      BY <3>2 DEF Msg
    <3> HIDE DEF Goes
    <3> QED
      BY <1>9, <3>1, <3>2 DEF NoConversation, PickUnsent, EraseUnsent
  <2> QED
    BY <2>1, <2>2, AloneTouches
<1> QED
  BY <1>1, <1>2, <1>3, <1>4, <1>5, <1>6, <1>7, <1>8, <1>9 DEF Process

LEMMA ProcessSlips ==
  ASSUME Types, Rest, Track, NEW w \in Workers, Process(w)
  PROVE  Track' /\ \A c \in Customers : Dropped(c)' => Dropped(c) \/ GivenUp(c)
<1>1. /\ proc[w].step # "idle" /\ todo' = todo /\ batch' = batch /\ Touched
      /\ \A v \in Workers \ {w} : proc'[v] = proc[v]
  BY ProcessHand DEF Finish, Raise, Continue, Go, Types
<1>2. CASE w # Poller
  <2>1. proc'[Poller] = proc[Poller]
    BY <1>1, <1>2 DEF Workers
  <2>2. lastDone' = lastDone
    BY <1>2, ProcessHand DEF Finish, Raise, Continue
  <2> QED
    BY <1>1, <2>1, <2>2, HandKept DEF SameHand
<1>3. CASE w = Poller
  <2>1. Msg(Poller) \in Msgs /\ ~At(Poller, "idle")
    BY <1>1, <1>3, WorkType DEF At
  <2>2. /\ \/ proc'[Poller] = Idle
           \/ proc'[Poller].step # "idle" /\ proc'[Poller].msg = Msg(Poller)
    BY <1>3, ProcessHand DEF Finish, Raise, Continue, Go, Types, Msg
  <2>3. \A m \in Msgs : Polled(m)' => Polled(m)
    BY <1>1, <2>1, <2>2 DEF Polled, At, Msg, Idle
  <2>4. Track'
    BY <1>1, <2>3, TrackKept
  <2>5. ASSUME NEW c \in Customers, inbox'[c] = inbox[c], InHand(c),
               Msg(Poller) # inbox[c].last
        PROVE  InHand(c)'
    BY <1>1, <2>5 DEF InHand
  <2>6. CASE Finish(Poller)
    <3>1. lastDone' = [lastDone EXCEPT ![From[Msg(Poller)]] = Msg(Poller)]
      BY <2>6 DEF Finish, Sender
    <3>2. ASSUME NEW c \in Customers, Dropped(c)'
          PROVE  Dropped(c)
      <4>1. inbox'[c] = inbox[c] /\ ~inbox[c].changed
        BY <1>1, <3>2 DEF Touched, Dropped
      <4>2. CASE c = From[Msg(Poller)]
        <5>1. inbox[c].last = Msg(Poller)
          BY <2>1, <4>1, <4>2 DEF Track, Polled
        <5>2. lastDone'[c] = inbox'[c].last
          BY <3>1, <4>1, <4>2, <5>1 DEF Rest
        <5> QED
          BY <3>2, <5>2 DEF Dropped, Unhandled
      <4>3. CASE c # From[Msg(Poller)]
        <5>1. lastDone'[c] = lastDone[c]
          BY <3>1, <4>3 DEF Rest
        <5>2. Msg(Poller) # inbox[c].last
          BY <2>1, <4>3, NoneAssumption DEF Track
        <5>3. InHand(c) => InHand(c)'
          BY <2>5, <4>1, <5>2
        <5> QED
          BY <3>2, <4>1, <5>1, <5>3, WatchedKept DEF Watched
      <4> QED
        BY <4>2, <4>3
    <3> QED
      BY <2>4, <3>2
  <2>7. CASE \E b \in BOOLEAN : Raise(Poller, b)
    <3>1. lastDone' = lastDone /\ proc'[Poller] = Idle
      BY <2>7 DEF Raise, Go, Types, Workers
    <3>2. ASSUME NEW c \in Customers, Dropped(c)', ~GivenUp(c)
          PROVE  Dropped(c)
      <4>1. inbox'[c] = inbox[c]
        BY <1>1, <3>2 DEF Touched, Dropped
      <4>2. Msg(Poller) # inbox[c].last
        BY <2>1, <3>1, <3>2 DEF GivenUp
      <4> QED
        BY <2>5, <3>1, <3>2, <4>1, <4>2, WatchedKept DEF Watched
    <3> QED
      BY <2>4, <3>2
  <2>8. CASE \E work : /\ Continue(Poller, work) /\ work.step # "idle"
                       /\ work.msg = proc[Poller].msg
    <3>1. /\ lastDone' = lastDone /\ proc'[Poller].step # "idle"
          /\ proc'[Poller].msg = proc[Poller].msg
      BY <2>8 DEF Continue, Go, Types, Workers
    <3>2. ASSUME NEW c \in Customers, Dropped(c)'
          PROVE  Dropped(c)
      <4>1. inbox'[c] = inbox[c]
        BY <1>1, <3>2 DEF Touched, Dropped
      <4>2. InHand(c) => InHand(c)'
        BY <1>1, <2>1, <3>1, <4>1 DEF InHand, At, Msg
      <4> QED
        BY <3>1, <3>2, <4>1, <4>2, WatchedKept DEF Watched
    <3> QED
      BY <2>4, <3>2
  <2> QED
    BY <1>3, <2>6, <2>7, <2>8, ProcessHand
<1> QED
  BY <1>2, <1>3

LEMMA RestartSlips ==
  ASSUME Types, Track, Restart
  PROVE  Track' /\ \A c \in Customers : Dropped(c)' => Dropped(c)
<1>1. /\ batch' = <<>>
      /\ proc' = [v \in Workers |-> Idle]
      /\ inbox' = [c \in Customers |-> IF inbox[c].last # None
                     THEN Unread(inbox[c]) ELSE inbox[c]]
  BY DEF Restart
<1>2. \A m : ~Polled(m)'
  BY <1>1 DEF Polled, At, Idle, Workers
<1>3. \A c \in Customers : /\ inbox'[c].last = inbox[c].last
                           /\ inbox[c].last # None => inbox'[c].changed
  BY <1>1 DEF Types, Unread
<1> QED
  BY <1>2, <1>3 DEF Track, Dropped, Unhandled

LEMMA SlipsStep ==
  ASSUME Types, Rest, Track, [Next]_vars
  PROVE  Track' /\ \A c \in Customers : Dropped(c)' => Dropped(c) \/ GivenUp(c)
<1>1. CASE Tick
  BY <1>1, HandKept, AloneTouches DEF Tick, SameHand, poll, remote
<1>2. CASE UNCHANGED vars
  BY <1>2, HandKept, AloneTouches DEF vars, SameHand, poll, remote
<1>3. CASE Poll
  BY <1>3, ListSlips, ReadSlips, FailSlips, MisreadSlips, TakeSlips, SkipSlips DEF Poll
<1> QED
  BY <1>1, <1>2, <1>3, PanelSlips, ArriveSlips, ProcessSlips, RestartSlips DEF Next

(* Whatever comes in while a poll runs, and however its requests fail, a   *)
(* message is only passed over when the session is broken, its call raises *)
(* or the answer that should have held it is of no use.                    *)
THEOREM NoPollSlips == Spec => NothingSlipsThrough
<1>1. Init => Types /\ Rest /\ Track
  BY TypesInit, RestInit, TrackInit
<1>2. Types /\ Rest /\ Track /\ [Next]_vars => (Types /\ Rest /\ Track)'
  BY TypesStep, RestStep, SlipsStep
<1>3. Types /\ Rest /\ Track /\ [Next]_vars =>
        [\A c \in Customers : Dropped(c)' => Dropped(c) \/ GivenUp(c)]_vars
  BY SlipsStep
<1> QED
  BY <1>1, <1>2, <1>3, PTL DEF Spec, NothingSlipsThrough

-------------------------------------------------------------------------------
(* ChatPipeline implements Conversation.                                   *)

Enrolled == {c \in Customers : customers[c].pk # 0}
Known == {i \in Mids : Stored(i)}
Writer == [i \in Mids |-> From[i[1]]]

LEMMA HistoryInit == Init => History!Init
  BY DEF Init, History!Init, Stored

(* What the history looks like to Conversation.                            *)
LEMMA HistorySame ==
  ASSUME CustRows' = CustRows, answers' = answers,
         \A c \in Customers : customers'[c].pk = customers[c].pk
  PROVE  UNCHANGED History!vars
<1>1. Known' = Known
  <2>1. Known = {i \in Mids : \E r \in CustRows : r.mid = i}
    BY DEF Known, Stored, CustRows
  <2>2. Known' = {i \in Mids : \E r \in CustRows' : r.mid = i}
    BY DEF Known, Stored, CustRows
  <2> QED
    BY <2>1, <2>2
<1>2. Enrolled' = Enrolled
  BY DEF Enrolled
<1> QED
  BY <1>1, <1>2 DEF History!vars, Known, Enrolled

LEMMA HistoryEnrol ==
  ASSUME Types, NEW c \in Customers, customers[c].pk = 0,
         customers' = [customers EXCEPT ![c] = [pk |-> lastPk + 1, paused |-> FALSE]],
         CustRows' = CustRows, answers' = answers
  PROVE  History!Next
<1>1. Known' = Known
  <2>1. Known = {i \in Mids : \E r \in CustRows : r.mid = i}
    BY DEF Known, Stored, CustRows
  <2>2. Known' = {i \in Mids : \E r \in CustRows' : r.mid = i}
    BY DEF Known, Stored, CustRows
  <2> QED
    BY <2>1, <2>2
<1>2. customers'[c].pk = lastPk + 1 /\ lastPk + 1 # 0
  BY DEF Types
<1>3. \A d \in Customers \ {c} : customers'[d] = customers[d]
  BY DEF Types
<1>4. c \notin Enrolled /\ Enrolled' = Enrolled \cup {c}
  BY <1>2, <1>3 DEF Enrolled
<1>5. History!Enrol(c)
  BY <1>1, <1>4 DEF History!Enrol, Known, Enrolled
<1> QED
  BY <1>5 DEF History!Next

LEMMA HistoryDelete ==
  ASSUME Types, Inv, NEW c \in Customers, DeleteCustomer(c)
  PROVE  History!Next
<1>1. /\ customers' = [customers EXCEPT ![c] = [pk |-> 0, paused |-> FALSE]]
      /\ customers[c].pk # 0
      /\ messages' = {r \in messages : r.pk # customers[c].pk}
      /\ answers' = [i \in Mids |-> IF From[i[1]] = c THEN 0 ELSE answers[i]]
  BY DEF DeleteCustomer
<1>2. customers'[c].pk = 0 /\ \A d \in Customers \ {c} : customers'[d] = customers[d]
  BY <1>1 DEF Types
<1>3. c \in Enrolled /\ Enrolled' = Enrolled \ {c}
  BY <1>1, <1>2 DEF Enrolled
<1>4. ASSUME NEW r \in messages, r.sender = "customer"
      PROVE  /\ r.mid \in Mids /\ From[r.mid[1]] \in Customers
             /\ r.pk = customers[c].pk <=> From[r.mid[1]] = c
  <2>1. r \in CustRows
    BY <1>4 DEF CustRows
  <2>2. r.mid \in Mids /\ r.pk = customers[From[r.mid[1]]].pk /\ r.pk # 0
    BY <2>1 DEF Inv, Owned
  <2>3. From[r.mid[1]] \in Customers
    BY <2>2, FromAssumption DEF Mids
  <2> QED
    BY <2>2, <2>3 DEF Inv, Keys
<1>5. Known' = {i \in Known : Writer[i] # c}
  <2>1. \A i \in Mids : Stored(i)' <=> Stored(i) /\ From[i[1]] # c
    BY <1>1, <1>4 DEF Stored
  <2> QED
    BY <2>1 DEF Known, Writer
<1>6. answers' = [i \in Mids |-> IF Writer[i] = c THEN 0 ELSE answers[i]]
  BY <1>1 DEF Writer
<1>7. History!Forget(c)
  BY <1>3, <1>5, <1>6 DEF History!Forget, Known, Enrolled, Writer
<1> QED
  BY <1>7 DEF History!Next

LEMMA HistoryReceive ==
  ASSUME Types, Inv, NEW w \in Workers, StoreMessage(w)
  PROVE  History!Next
<1> DEFINE i == OwnMid(w)
           new == [id |-> lastId', pk |-> proc[w].pk, sender |-> "customer",
                   text |-> Msg(w), mid |-> i]
<1>1. /\ messages' = messages \cup {new} /\ ~Stored(i) /\ Alive(w)
      /\ customers' = customers /\ answers' = answers /\ proc[w].step = "store"
  BY DEF StoreMessage, At
<1>2. new.sender = "customer" /\ new.mid = i
  OBVIOUS
<1>3. i \in Mids /\ i[1] = Msg(w) /\ Sender(w) \in Customers
  BY <1>1, MidType
<1> HIDE DEF i, new
<1>4. \A k \in Mids : Stored(k)' <=> Stored(k) \/ k = i
  BY <1>1, <1>2 DEF Stored
<1>5. i \notin Known /\ Known' = Known \cup {i}
  BY <1>1, <1>3, <1>4 DEF Known
<1>6. Writer[i] \in Enrolled
  <2>1. proc[w].pk \in 1..lastPk
    BY <1>1 DEF Inv, Keys, Holding
  <2>2. Writer[i] = Sender(w)
    BY <1>3 DEF Writer, Sender
  <2> QED
    BY <1>1, <1>3, <2>1, <2>2 DEF Alive, Enrolled, Types
<1>7. Enrolled' = Enrolled
  BY <1>1 DEF Enrolled
<1>8. History!Receive(i)
  BY <1>1, <1>5, <1>6, <1>7 DEF History!Receive, Known, Enrolled, Writer
<1> QED
  BY <1>3, <1>8 DEF History!Next

LEMMA HistoryReply ==
  ASSUME Types, Inv, NEW w \in Workers, RecordReply(w), Alive(w)
  PROVE  History!Next
<1> DEFINE i == OwnMid(w)
<1>1. /\ CustRows' = CustRows /\ customers' = customers
      /\ answers' = [answers EXCEPT ![i] = @ + 1] /\ proc[w].step = "record"
  BY DEF RecordReply, At, CustRows
<1>2. i \in Mids
  BY <1>1, MidType
<1>3. Stored(i) /\ answers[i] = 0
  BY <1>1 DEF Inv, Held, Deciding
<1> HIDE DEF i
<1>4. answers' = [answers EXCEPT ![i] = 1]
  BY <1>1, <1>3
<1>5. Known' = Known
  <2>1. Known = {k \in Mids : \E r \in CustRows : r.mid = k}
    BY DEF Known, Stored, CustRows
  <2>2. Known' = {k \in Mids : \E r \in CustRows' : r.mid = k}
    BY DEF Known, Stored, CustRows
  <2> QED
    BY <1>1, <2>1, <2>2
<1>6. i \in Known /\ Enrolled' = Enrolled
  BY <1>1, <1>2, <1>3 DEF Known, Enrolled
<1>7. History!Reply(i)
  BY <1>3, <1>4, <1>5, <1>6 DEF History!Reply, Known, Enrolled
<1> QED
  BY <1>2, <1>7 DEF History!Next

LEMMA HistoryProcess ==
  ASSUME Types, Inv, NEW w \in Workers, Process(w)
  PROVE  History!Next \/ UNCHANGED History!vars
<1>1. CASE CreateCustomer(w)
  <2>1. CustRows' = CustRows /\ answers' = answers
    BY <1>1 DEF CreateCustomer, CustRows
  <2>2. CASE customers[Sender(w)].pk = 0
    <3>1. Sender(w) \in Customers
      BY <1>1, MidType DEF CreateCustomer, At
    <3>2. customers' = [customers EXCEPT ![Sender(w)] = [pk |-> lastPk + 1,
                                                         paused |-> FALSE]]
      BY <1>1, <2>2 DEF CreateCustomer
    <3> QED
      BY <2>1, <2>2, <3>1, <3>2, HistoryEnrol
  <2>3. CASE customers[Sender(w)].pk # 0
    <3>1. customers' = customers
      BY <1>1, <2>3 DEF CreateCustomer
    <3> QED
      BY <2>1, <3>1, HistorySame
  <2> QED
    BY <2>2, <2>3
<1>2. CASE StoreMessage(w)
  BY <1>2, HistoryReceive
<1>3. CASE RecordReply(w)
  <2>1. CASE ~Alive(w)
    <3>1. CustRows' = CustRows /\ answers' = answers /\ customers' = customers
      BY <1>3, <2>1 DEF RecordReply, CustRows
    <3> QED
      BY <3>1, HistorySame
  <2> QED
    BY <1>3, <2>1, HistoryReply
<1>4. CASE EraseUnsent(w)
  <2>1. CustRows' = CustRows /\ answers' = answers /\ customers' = customers
    BY <1>4 DEF EraseUnsent, CustRows, around
  <2> QED
    BY <2>1, HistorySame
<1>5. CASE \/ KnownMessage(w) \/ NewMessage(w) \/ FindCustomer(w) \/ RenameCustomer(w)
           \/ StoreRefused(w) \/ Decide(w)
  <2>1. UNCHANGED <<customers, messages, answers>>
    BY <1>5 DEF KnownMessage, NewMessage, FindCustomer, RenameCustomer, StoreRefused, Decide,
                db
  <2> QED
    BY <2>1, HistorySame DEF CustRows
<1>6. CASE SendAccepted(w) \/ SendFails(w) \/ NoConversation(w) \/ PickUnsent(w)
  <2>1. UNCHANGED <<customers, messages, answers>>
    BY <1>6 DEF SendAccepted, SendFails, NoConversation, PickUnsent, around
  <2> QED
    BY <2>1, HistorySame DEF CustRows
<1> QED
  BY <1>1, <1>2, <1>3, <1>4, <1>5, <1>6 DEF Process

LEMMA HistoryPanel ==
  ASSUME Types, Inv, Panel
  PROVE  History!Next \/ UNCHANGED History!vars
<1>1. CASE ToggleBot \/ ToggleGate \/ \E c \in Customers : LearnFollower(c)
  <2>1. UNCHANGED <<customers, messages, answers>>
    BY <1>1 DEF ToggleBot, ToggleGate, LearnFollower, db, history
  <2> QED
    BY <2>1, HistorySame DEF CustRows
<1>2. ASSUME NEW c \in Customers, TogglePaused(c)
      PROVE  UNCHANGED History!vars
  <2>1. \A d \in Customers : customers'[d].pk = customers[d].pk
    BY <1>2 DEF TogglePaused, Types
  <2>2. CustRows' = CustRows /\ answers' = answers
    BY <1>2 DEF TogglePaused, CustRows, history
  <2> QED
    BY <2>1, <2>2, HistorySame
<1> QED
  BY <1>1, <1>2, HistoryDelete DEF Panel

LEMMA HistoryArrive ==
  ASSUME Types, Arrive
  PROVE  History!Next \/ UNCHANGED History!vars
<1>1. ASSUME NEW m \in Msgs, Write(m) \/ EnqueueEvent(m)
      PROVE  UNCHANGED History!vars
  BY <1>1, HistorySame DEF Write, EnqueueEvent, db, history, CustRows
<1>2. ASSUME NEW w \in Workers, TakeEvent(w) \/ \E m \in Msgs : ReceiveZernio(w, m)
      PROVE  UNCHANGED History!vars
  BY <1>2, HistorySame DEF TakeEvent, ReceiveZernio, db, history, CustRows
<1>3. ASSUME NEW c \in Customers, NEW text, RecordRemoteGate(c, text)
      PROVE  History!Next \/ UNCHANGED History!vars
  <2>1. CustRows' = CustRows /\ answers' = answers
    BY <1>3 DEF RecordRemoteGate, CustRows, history
  <2>2. CASE customers[c].pk # 0
    <3>1. customers' = customers
      BY <1>3, <2>2 DEF RecordRemoteGate
    <3> QED
      BY <2>1, <3>1, HistorySame
  <2>3. CASE customers[c].pk = 0
    <3>1. customers' = [customers EXCEPT ![c] = [pk |-> lastPk + 1, paused |-> FALSE]]
      BY <1>3, <2>3 DEF RecordRemoteGate
    <3> QED
      BY <2>1, <2>3, <3>1, HistoryEnrol
  <2> QED
    BY <2>2, <2>3
<1> QED
  BY <1>1, <1>2, <1>3 DEF Arrive

LEMMA HistoryStep ==
  ASSUME Types, Inv, [Next]_vars
  PROVE  History!Next \/ UNCHANGED History!vars
<1>1. CASE Tick \/ Restart \/ UNCHANGED vars
  BY <1>1, HistorySame DEF Tick, Restart, vars, db, history, CustRows
<1>2. CASE Poll
  <2>1. UNCHANGED <<db, history>>
    BY <1>2 DEF Poll, PollList, PollRead, PollReadFails, PollMisread, PollTake,
           PollSkip
  <2> QED
    BY <2>1, HistorySame DEF db, history, CustRows
<1> QED
  BY <1>1, <1>2, HistoryPanel, HistoryArrive, HistoryProcess DEF Next

(* All the threads together keep the history that Conversation describes:   *)
(* every step of theirs is one indivisible step of it, or none.            *)
THEOREM PipelineImplementsConversation == Spec => ImplementsConversation
<1>1. Init => Types /\ Inv
  BY TypesInit, InvInit
<1>2. Types /\ Inv /\ [Next]_vars => (Types /\ Inv)'
  BY TypesStep, InvStep
<1>3. Types /\ Inv /\ [Next]_vars => [History!Next]_(History!vars)
  BY HistoryStep
<1> QED
  BY <1>1, <1>2, <1>3, HistoryInit, PTL DEF Spec, ImplementsConversation, History!Spec

=============================================================================
