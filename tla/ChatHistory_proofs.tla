------------------------- MODULE ChatHistory_proofs -------------------------
(***************************************************************************)
(* Proofs about what ChatPipeline leaves in the history: messages that are *)
(* marked as processed are stored, one worker spaces its gate texts, and   *)
(* the rows account for the replies Instagram accepted.                    *)
(***************************************************************************)
EXTENDS ChatPipeline_proofs, FiniteSetTheorems

-----------------------------------------------------------------------------
(* Marks.  As long as no customer was deleted a worker's customer does not *)
(* go away under it, so a refused insert can only mean that the message is *)
(* there, and a worker past its insert can rely on the message.            *)

Past(w) == proc[w].step \in {"decide", "record", "send", "pick", "erase"}

Sound(w) == /\ Holding(w) => Alive(w)
            /\ Past(w) => Stored(OwnMid(w))

Marked(c) == lastDone[c] # None => Stored(<<lastDone[c], "zernio">>)

MarkInv == /\ deletes \in Nat
           /\ lastDone \in [Customers -> Msgs \cup {None}]
           /\ deletes = 0 => /\ \A w \in Workers : Sound(w)
                             /\ \A c \in Customers : Marked(c)

(* Stored messages stay and so do the rows of customers.                   *)
Keeps == /\ deletes' = deletes
         /\ \A i \in Mids : Stored(i) => Stored(i)'
         /\ \A c \in Customers : customers[c].pk # 0 => customers'[c].pk = customers[c].pk

LEMMA KeepsSame ==
  ASSUME deletes' = deletes, CustRows \subseteq CustRows',
         \A c \in Customers : customers[c].pk # 0 => customers'[c].pk = customers[c].pk
  PROVE  Keeps
<1>1. \A i : Stored(i) <=> \E r \in CustRows : r.mid = i
  BY DEF Stored, CustRows
<1>2. \A i : Stored(i)' <=> \E r \in CustRows' : r.mid = i
  BY DEF Stored, CustRows
<1> QED
  BY <1>1, <1>2 DEF Keeps

LEMMA MarkInit == Init => MarkInv
  BY DEF Init, MarkInv, Sound, Marked, Past, Holding, Idle

LEMMA MarksKept ==
  ASSUME Types, Inv, MarkInv, Keeps,
         lastDone' \in [Customers -> Msgs \cup {None}],
         \A w \in Workers : proc'[w] = proc[w] \/ (deletes = 0 => Sound(w)'),
         \A c \in Customers : lastDone'[c] = lastDone[c] \/ (deletes = 0 => Marked(c)')
  PROVE  MarkInv'
<1>1. deletes' = deletes /\ deletes' \in Nat
  BY DEF Keeps, MarkInv
<1>2. ASSUME deletes = 0, NEW w \in Workers, proc'[w] = proc[w]
      PROVE  Sound(w)'
  <2>1. /\ OwnMid(w)' = OwnMid(w) /\ Sender(w)' = Sender(w)
        /\ Holding(w)' <=> Holding(w)
        /\ Past(w)' <=> Past(w)
    BY <1>2 DEF OwnMid, Mid, Channel, Sender, Msg, Holding, Past
  <2>2. Sound(w)
    BY <1>2 DEF MarkInv
  <2>3. ASSUME Holding(w) PROVE Alive(w)'
    <3>1. Alive(w) /\ proc[w].pk \in 1..lastPk
      BY <2>2, <2>3 DEF Sound, Inv, Keys
    <3>2. Sender(w) \in Customers /\ customers[Sender(w)].pk # 0
      BY <2>3, <3>1, MidType DEF Holding, Alive, Types
    <3> QED
      BY <1>2, <2>1, <3>1, <3>2 DEF Keeps, Alive
  <2>4. ASSUME Past(w) PROVE Stored(OwnMid(w))'
    <3>1. OwnMid(w) \in Mids /\ Stored(OwnMid(w))
      BY <2>2, <2>4, MidType DEF Sound, Past
    <3>2. \E r \in messages' : r.sender = "customer" /\ r.mid = OwnMid(w)
      BY <3>1 DEF Keeps, Stored
    <3> QED
      BY <2>1, <3>2 DEF Stored
  <2> QED
    BY <2>1, <2>3, <2>4 DEF Sound
<1>3. ASSUME deletes = 0, NEW c \in Customers, lastDone'[c] = lastDone[c]
      PROVE  Marked(c)'
  <2>1. CASE lastDone[c] # None
    <3>1. <<lastDone[c], "zernio">> \in Mids /\ Stored(<<lastDone[c], "zernio">>)
      BY <1>3, <2>1 DEF MarkInv, Marked, Mids, Channels
    <3>2. \E r \in messages' : r.sender = "customer" /\ r.mid = <<lastDone[c], "zernio">>
      BY <3>1 DEF Keeps, Stored
    <3> QED
      BY <1>3, <3>2 DEF Marked, Stored
  <2> QED
    BY <1>3, <2>1 DEF Marked
<1> QED
  BY <1>1, <1>2, <1>3 DEF MarkInv

(* A step that leaves the pipeline where it is, or ends calls.             *)
LEMMA CalmMarks ==
  ASSUME Types, Inv, MarkInv, Keeps, lastDone' = lastDone,
         \A w \in Workers : proc'[w] = proc[w]
                              \/ proc'[w].step \in {"idle", "dedup", "find", "create"}
  PROVE  MarkInv'
  BY MarksKept DEF MarkInv, Sound, Holding, Past

LEMMA RaiseMarks ==
  ASSUME Types, Inv, MarkInv, Keeps, NEW w \in Workers, NEW b, Raise(w, b)
  PROVE  MarkInv'
  BY CalmMarks DEF Raise, Go, Idle, Types

LEMMA FinishMarks ==
  ASSUME Types, Inv, MarkInv, Keeps, NEW w \in Workers, Finish(w),
         proc[w].step # "idle", deletes = 0 => Stored(OwnMid(w))
  PROVE  MarkInv'
<1>1. /\ proc'[w].step = "idle"
      /\ \A v \in Workers \ {w} : proc'[v] = proc[v]
  BY DEF Finish, Go, Idle, Types
<1>2. \A v \in Workers : proc'[v] = proc[v] \/ Sound(v)'
  BY <1>1 DEF Sound, Holding, Past
<1>3. Msg(w) \in Msgs /\ Sender(w) \in Customers /\ OwnMid(w) \in Mids
  BY MidType, WorkType
<1>4. CASE w # Poller
  BY <1>2, <1>4, MarksKept DEF Finish, MarkInv
<1>5. CASE w = Poller
  <2>1. PICK c \in Customers, m \in Msgs : c = Sender(w) /\ m = Msg(w)
    BY <1>3
  <2>2. lastDone' = [lastDone EXCEPT ![c] = m]
    BY <1>5, <2>1 DEF Finish
  <2>3. /\ lastDone' \in [Customers -> Msgs \cup {None}]
        /\ lastDone'[c] = m
        /\ \A d \in Customers \ {c} : lastDone'[d] = lastDone[d]
    BY <2>2 DEF MarkInv
  <2>4. OwnMid(w) = <<m, "zernio">>
    BY <1>5, <2>1, WorkersAssumption DEF OwnMid, Mid, Channel
  <2>5. ASSUME deletes = 0 PROVE Marked(c)'
    <3>1. <<m, "zernio">> \in Mids /\ Stored(<<m, "zernio">>)
      BY <1>3, <2>4, <2>5
    <3>2. \E r \in messages' : r.sender = "customer" /\ r.mid = <<m, "zernio">>
      BY <3>1 DEF Keeps, Stored
    <3> QED
      BY <2>3, <3>2 DEF Marked, Stored
  <2>6. \A d \in Customers : lastDone'[d] = lastDone[d] \/ (deletes = 0 => Marked(d)')
    <3> TAKE d \in Customers
    <3>1. CASE d = c
      <4>1. deletes = 0 => Marked(c)'
        BY <2>5
      <4> QED
        BY <3>1, <4>1
    <3> QED
      BY <2>3, <3>1
  <2> QED
    BY <1>2, <2>3, <2>6, MarksKept
<1> QED
  BY <1>4, <1>5

LEMMA ContinueMarks ==
  ASSUME Types, Inv, MarkInv, Keeps, NEW w \in Workers, NEW work, Continue(w, work),
         deletes = 0 => Sound(w)'
  PROVE  MarkInv'
<1>1. lastDone' = lastDone /\ \A v \in Workers \ {w} : proc'[v] = proc[v]
  BY DEF Continue, Go, Types
<1> QED
  BY <1>1, MarksKept DEF MarkInv

(* The steps of one worker keep rows of customers and of their messages.   *)
LEMMA ProcessKeeps ==
  ASSUME Types, Inv, MarkInv, NEW w \in Workers, Process(w)
  PROVE  Keeps
<1>1. CASE CreateCustomer(w)
  <2>1. deletes' = deletes /\ messages' = messages
    BY <1>1 DEF CreateCustomer, world
  <2>2. \A c \in Customers : customers[c].pk # 0 => customers'[c].pk = customers[c].pk
    <3>1. CASE customers[Sender(w)].pk = 0
      BY <1>1, <3>1 DEF CreateCustomer, Types
    <3>2. CASE customers[Sender(w)].pk # 0
      BY <1>1, <3>2 DEF CreateCustomer
    <3> QED
      BY <3>1, <3>2
  <2> QED
    BY <2>1, <2>2, KeepsSame DEF CustRows
<1>2. CASE StoreMessage(w) \/ RecordReply(w)
  <2>1. deletes' = deletes /\ customers' = customers /\ messages \subseteq messages'
    BY <1>2 DEF StoreMessage, RecordReply, world
  <2> QED
    BY <2>1, KeepsSame DEF CustRows
<1>3. CASE EraseUnsent(w)
  <2>1. deletes' = deletes /\ customers' = customers
    BY <1>3 DEF EraseUnsent, around
  <2>2. messages' = {r \in messages : r.sender = "bot" => r.id # proc[w].row}
    BY <1>3 DEF EraseUnsent
  <2>3. CustRows \subseteq CustRows'
    BY <2>2 DEF CustRows
  <2> QED
    BY <2>1, <2>3, KeepsSame
<1>4. CASE \/ KnownMessage(w) \/ NewMessage(w) \/ FindCustomer(w) \/ RenameCustomer(w)
           \/ StoreRefused(w) \/ Decide(w)
  <2>1. UNCHANGED <<deletes, customers, messages>>
    BY <1>4 DEF KnownMessage, NewMessage, FindCustomer, RenameCustomer, StoreRefused, Decide,
                db, world
  <2> QED
    BY <2>1, KeepsSame DEF CustRows
<1>5. CASE SendAccepted(w) \/ SendFails(w) \/ NoConversation(w) \/ PickUnsent(w)
  <2>1. UNCHANGED <<deletes, customers, messages>>
    BY <1>5 DEF SendAccepted, SendFails, NoConversation, PickUnsent, around
  <2> QED
    BY <2>1, KeepsSame DEF CustRows
<1> QED
  BY <1>1, <1>2, <1>3, <1>4, <1>5 DEF Process

(* A worker that keeps its message, past the insert or not.                *)
LEMMA NextSound ==
  ASSUME Types, MarkInv, NEW w \in Workers, NEW work, Go(w, work), work.msg = proc[w].msg
  PROVE  /\ proc'[w] = work /\ OwnMid(w)' = OwnMid(w) /\ Sender(w)' = Sender(w)
         /\ work.step \in {"dedup", "find", "create"} => Sound(w)'
<1>1. proc'[w] = work
  BY DEF Go, Types
<1> QED
  BY <1>1 DEF OwnMid, Mid, Channel, Sender, Msg, Sound, Holding, Past

LEMMA PastSound ==
  ASSUME Types, MarkInv, Keeps, NEW w \in Workers, NEW work, Go(w, work),
         work.msg = proc[w].msg, work.step \in {"send", "pick", "erase"},
         deletes = 0 => Stored(OwnMid(w)), OwnMid(w) \in Mids
  PROVE  deletes = 0 => Sound(w)'
<1> SUFFICES ASSUME deletes = 0 PROVE Sound(w)'
  OBVIOUS
<1>1. proc'[w] = work /\ OwnMid(w)' = OwnMid(w)
  BY NextSound
<1>2. \E r \in messages' : r.sender = "customer" /\ r.mid = OwnMid(w)
  BY DEF Keeps, Stored
<1> QED
  BY <1>1, <1>2 DEF Sound, Holding, Past, Stored

LEMMA ProcessMarks ==
  ASSUME Types, Inv, MarkInv, NEW w \in Workers, Process(w)
  PROVE  MarkInv'
<1>0. Keeps
  BY ProcessKeeps
<1>1. CASE KnownMessage(w)
  BY <1>0, <1>1, FinishMarks DEF KnownMessage, At
<1>2. CASE NewMessage(w)
  BY <1>0, <1>2, ContinueMarks, NextSound DEF NewMessage, Continue, Msg
<1>3. CASE FindCustomer(w)
  <2>1. CASE customers[Sender(w)].pk = 0
    BY <1>0, <1>3, <2>1, ContinueMarks, NextSound DEF FindCustomer, Continue, Msg
  <2>2. CASE customers[Sender(w)].pk # 0
    <3>1. PICK next \in {"store", "rename"} :
            Continue(w, [step |-> next, msg |-> Msg(w), pk |-> customers[Sender(w)].pk])
      BY <1>3, <2>2 DEF FindCustomer
    <3> DEFINE work == [step |-> next, msg |-> Msg(w), pk |-> customers[Sender(w)].pk]
    <3>2. /\ work.step = next /\ work.msg = proc[w].msg
          /\ work.pk = customers[Sender(w)].pk
      BY DEF Msg
    <3> HIDE DEF work
    <3>3. proc'[w] = work /\ Sender(w)' = Sender(w)
      BY <3>1, <3>2, NextSound DEF Continue, work
    <3>4. customers' = customers
      BY <1>3 DEF FindCustomer, db
    <3>5. Sound(w)'
      BY <3>2, <3>3, <3>4 DEF Sound, Holding, Past, Alive
    <3> QED
      BY <1>0, <3>1, <3>5, ContinueMarks DEF work
  <2> QED
    BY <2>1, <2>2
<1>4. CASE CreateCustomer(w)
  <2>1. CASE customers[Sender(w)].pk = 0
    <3>1. /\ Continue(w, [step |-> "store", msg |-> Msg(w), pk |-> lastPk + 1])
          /\ customers' = [customers EXCEPT ![Sender(w)] = [pk |-> lastPk + 1,
                                                            paused |-> FALSE]]
      BY <1>4, <2>1 DEF CreateCustomer
    <3> DEFINE work == [step |-> "store", msg |-> Msg(w), pk |-> lastPk + 1]
    <3>2. work.step = "store" /\ work.msg = proc[w].msg /\ work.pk = lastPk + 1
      BY DEF Msg
    <3> HIDE DEF work
    <3>3. proc'[w] = work /\ Sender(w)' = Sender(w)
      BY <3>1, <3>2, NextSound DEF Continue, work
    <3>4. Sender(w) \in Customers
      BY <1>4, MidType DEF CreateCustomer, At
    <3>5. customers'[Sender(w)].pk = lastPk + 1
      BY <3>1, <3>4 DEF Types
    <3>6. Sound(w)'
      BY <3>2, <3>3, <3>5 DEF Sound, Holding, Past, Alive
    <3> QED
      BY <1>0, <3>1, <3>6, ContinueMarks DEF work
  <2>2. CASE customers[Sender(w)].pk # 0
    BY <1>0, <1>4, <2>2, RaiseMarks DEF CreateCustomer
  <2> QED
    BY <2>1, <2>2
<1>5. CASE RenameCustomer(w)
  <2>1. CASE Alive(w)
    <3>1. Continue(w, [proc[w] EXCEPT !.step = "store"]) /\ customers' = customers
      BY <1>5, <2>1 DEF RenameCustomer, db
    <3>2. proc[w] \in [step : {"rename", "store", "decide"}, msg : Msgs, pk : Nat]
      BY <1>5 DEF RenameCustomer, At, Types, Work
    <3> DEFINE work == [proc[w] EXCEPT !.step = "store"]
    <3>3. work.step = "store" /\ work.msg = proc[w].msg /\ work.pk = proc[w].pk
      BY <3>2
    <3> HIDE DEF work
    <3>4. proc'[w] = work /\ Sender(w)' = Sender(w)
      BY <3>1, <3>3, NextSound DEF Continue, work
    <3>5. Sound(w)'
      BY <2>1, <3>1, <3>3, <3>4 DEF Sound, Holding, Past, Alive
    <3> QED
      BY <1>0, <3>1, <3>5, ContinueMarks DEF work
  <2>2. CASE ~Alive(w)
    BY <1>0, <1>5, <2>2, RaiseMarks DEF RenameCustomer
  <2> QED
    BY <2>1, <2>2
<1>6. CASE StoreMessage(w)
  <2>1. /\ Continue(w, [proc[w] EXCEPT !.step = "decide"]) /\ customers' = customers
        /\ Alive(w)
        /\ messages' = messages \cup
             {[id |-> lastId', pk |-> proc[w].pk, sender |-> "customer", text |-> Msg(w),
               mid |-> OwnMid(w)]}
    BY <1>6 DEF StoreMessage
  <2>2. proc[w] \in [step : {"rename", "store", "decide"}, msg : Msgs, pk : Nat]
    BY <1>6 DEF StoreMessage, At, Types, Work
  <2> DEFINE work == [proc[w] EXCEPT !.step = "decide"]
  <2>3. work.step = "decide" /\ work.msg = proc[w].msg /\ work.pk = proc[w].pk
    BY <2>2
  <2> HIDE DEF work
  <2>4. proc'[w] = work /\ Sender(w)' = Sender(w) /\ OwnMid(w)' = OwnMid(w)
    BY <2>1, <2>3, NextSound DEF Continue, work
  <2>5. \E r \in messages' : r.sender = "customer" /\ r.mid = OwnMid(w)
    <3> DEFINE r == [id |-> lastId', pk |-> proc[w].pk, sender |-> "customer",
                     text |-> Msg(w), mid |-> OwnMid(w)]
    <3>1. r \in messages' /\ r.sender = "customer" /\ r.mid = OwnMid(w)
      BY <2>1
    <3> QED
      BY <3>1
  <2>6. Sound(w)'
    BY <2>1, <2>3, <2>4, <2>5 DEF Sound, Holding, Past, Alive, Stored
  <2> QED
    BY <1>0, <2>1, <2>6, ContinueMarks DEF work
<1>7. CASE StoreRefused(w)
  <2>1. deletes = 0 => Alive(w)
    BY <1>7 DEF StoreRefused, At, MarkInv, Sound, Holding
  <2> QED
    BY <1>0, <1>7, <2>1, FinishMarks DEF StoreRefused, At
<1>8. CASE Decide(w)
  <2>1. deletes = 0 => Alive(w) /\ Stored(OwnMid(w))
    BY <1>8 DEF Decide, At, MarkInv, Sound, Holding, Past
  <2>2. CASE Raise(w, FALSE)
    BY <1>0, <2>2, RaiseMarks
  <2>3. CASE Finish(w)
    BY <1>0, <1>8, <2>1, <2>3, FinishMarks DEF Decide, At
  <2>4. ASSUME NEW text \in Reply(w),
               Continue(w, [step |-> "record", msg |-> Msg(w), pk |-> proc[w].pk,
                            text |-> text])
        PROVE  MarkInv'
    <3> DEFINE work == [step |-> "record", msg |-> Msg(w), pk |-> proc[w].pk, text |-> text]
    <3>1. work.step = "record" /\ work.msg = proc[w].msg /\ work.pk = proc[w].pk
      BY DEF Msg
    <3> HIDE DEF work
    <3>2. proc'[w] = work /\ Sender(w)' = Sender(w) /\ OwnMid(w)' = OwnMid(w)
      BY <2>4, <3>1, NextSound DEF Continue, work
    <3>3. customers' = customers /\ messages' = messages
      BY <1>8 DEF Decide, db
    <3>4. deletes = 0 => Sound(w)'
      BY <2>1, <3>1, <3>2, <3>3 DEF Sound, Holding, Past, Alive, Stored
    <3> QED
      BY <1>0, <2>4, <3>4, ContinueMarks DEF work
  <2> QED
    BY <1>8, <2>2, <2>3, <2>4 DEF Decide
<1>9. CASE \/ RecordReply(w) \/ SendAccepted(w) \/ SendFails(w) \/ NoConversation(w)
           \/ PickUnsent(w) \/ EraseUnsent(w)
  <2>1. proc[w].step \in {"record", "send", "pick", "erase"}
    BY <1>9 DEF RecordReply, SendAccepted, SendFails, NoConversation, PickUnsent,
                EraseUnsent, At
  <2>2. OwnMid(w) \in Mids /\ (deletes = 0 => Stored(OwnMid(w)))
    BY <2>1, MidType DEF MarkInv, Sound, Past
  <2>3. ASSUME Finish(w) PROVE MarkInv'
    BY <1>0, <2>1, <2>2, <2>3, FinishMarks
  <2>4. ASSUME NEW work, Continue(w, work), work.msg = proc[w].msg,
               work.step \in {"send", "pick", "erase"}
        PROVE  MarkInv'
    <3>1. deletes = 0 => Sound(w)'
      BY <1>0, <2>2, <2>4, PastSound DEF Continue
    <3> QED
      BY <1>0, <2>4, <3>1, ContinueMarks
  <2>5. CASE RecordReply(w)
    <3>1. CASE Alive(w)
      <4>1. Continue(w, [step |-> "send", msg |-> Msg(w), pk |-> proc[w].pk,
                         text |-> proc[w].text, tries |-> Attempts])
        BY <2>5, <3>1 DEF RecordReply
      <4> QED
        BY <2>4, <4>1 DEF Msg
    <3>2. CASE ~Alive(w)
      BY <1>0, <2>5, <3>2, RaiseMarks DEF RecordReply
    <3> QED
      BY <3>1, <3>2
  <2>6. CASE SendFails(w)
    <3>1. CASE proc[w].tries > 1
      <4>1. Continue(w, [proc[w] EXCEPT !.tries = @ - 1])
        BY <2>6, <3>1 DEF SendFails
      <4>2. proc[w] \in Work /\ proc[w].step = "send"
        BY <2>6 DEF SendFails, At, Types
      <4>3. /\ [proc[w] EXCEPT !.tries = @ - 1].msg = proc[w].msg
            /\ [proc[w] EXCEPT !.tries = @ - 1].step = "send"
        BY <4>2 DEF Work
      <4> QED
        BY <2>4, <4>1, <4>3
    <3>2. CASE ~(proc[w].tries > 1)
      <4>1. Continue(w, [step |-> "pick", msg |-> Msg(w), text |-> proc[w].text])
        BY <2>6, <3>2 DEF SendFails
      <4> QED
        BY <2>4, <4>1 DEF Msg
    <3> QED
      BY <3>1, <3>2
  <2>7. CASE NoConversation(w)
    <3>1. Continue(w, [step |-> "pick", msg |-> Msg(w), text |-> proc[w].text])
      BY <2>7 DEF NoConversation
    <3> QED
      BY <2>4, <3>1 DEF Msg
  <2>8. CASE PickUnsent(w)
    <3>1. CASE Finish(w)
      BY <2>3, <3>1
    <3>2. CASE ~Finish(w)
      <4>1. PICK r \in Droppable(w) : Continue(w, [step |-> "erase", msg |-> Msg(w),
                                                   row |-> r.id])
        BY <2>8, <3>2 DEF PickUnsent
      <4> QED
        BY <2>4, <4>1 DEF Msg
    <3> QED
      BY <3>1, <3>2
  <2> QED
    BY <1>9, <2>3, <2>5, <2>6, <2>7, <2>8 DEF SendAccepted, EraseUnsent
<1> QED
  BY <1>1, <1>2, <1>3, <1>4, <1>5, <1>6, <1>7, <1>8, <1>9 DEF Process

LEMMA MarkStep == Types /\ Inv /\ MarkInv /\ [Next]_vars => MarkInv'
<1> SUFFICES ASSUME Types, Inv, MarkInv, [Next]_vars
             PROVE  MarkInv'
  OBVIOUS
<1>1. ASSUME NEW c \in Customers, DeleteCustomer(c) PROVE MarkInv'
  BY <1>1 DEF DeleteCustomer, MarkInv, poll
<1>2. CASE \/ ToggleBot \/ ToggleGate \/ Tick \/ UNCHANGED vars
           \/ \E c \in Customers : TogglePaused(c) \/ LearnFollower(c)
  <2>1. UNCHANGED <<deletes, messages, lastDone, proc>>
    BY <1>2 DEF ToggleBot, ToggleGate, Tick, TogglePaused, LearnFollower, vars, db, poll
  <2>2. \A d \in Customers : customers'[d].pk = customers[d].pk
    <3>1. ASSUME NEW c \in Customers, TogglePaused(c)
          PROVE  \A d \in Customers : customers'[d].pk = customers[d].pk
      BY <3>1 DEF TogglePaused, Types
    <3>2. CASE \/ ToggleBot \/ ToggleGate \/ Tick \/ UNCHANGED vars
               \/ \E c \in Customers : LearnFollower(c)
      BY <3>2 DEF ToggleBot, ToggleGate, Tick, LearnFollower, vars, db
    <3> QED
      BY <1>2, <3>1, <3>2
  <2> QED
    BY <2>1, <2>2, KeepsSame, CalmMarks DEF CustRows
<1>3. CASE Restart
  <2>1. /\ UNCHANGED <<deletes, messages, customers>>
        /\ \A w \in Workers : proc'[w] = Idle
        /\ lastDone' = [c \in Customers |-> None]
    BY <1>3 DEF Restart, db
  <2>2. Keeps
    BY <2>1, KeepsSame DEF CustRows
  <2> QED
    BY <2>1, <2>2, MarksKept DEF Sound, Holding, Past, Idle, Marked
<1>4. CASE Arrive
  <2>1. ASSUME NEW c \in Customers, NEW text \in {"gate", "reminder"},
               RecordRemoteGate(c, text)
        PROVE  MarkInv'
    <3>1. /\ UNCHANGED <<deletes, lastDone, proc>>
          /\ messages \subseteq messages'
      BY <2>1 DEF RecordRemoteGate, poll
    <3>2. \A d \in Customers : customers[d].pk # 0 => customers'[d].pk = customers[d].pk
      BY <2>1 DEF RecordRemoteGate, Types
    <3> QED
      BY <3>1, <3>2, KeepsSame, CalmMarks DEF CustRows
  <2>2. ASSUME NEW m \in Msgs, Write(m) \/ EnqueueEvent(m)
        PROVE  MarkInv'
    <3>1. UNCHANGED <<deletes, lastDone, proc, customers, messages>>
      BY <2>2 DEF Write, EnqueueEvent, db, poll
    <3> QED
      BY <3>1, KeepsSame, CalmMarks DEF CustRows
  <2>3. ASSUME NEW w \in Workers, TakeEvent(w) \/ \E m \in Msgs : ReceiveZernio(w, m)
        PROVE  MarkInv'
    <3>1. UNCHANGED <<deletes, lastDone, customers, messages>>
      BY <2>3 DEF TakeEvent, ReceiveZernio, db, poll
    <3>2. PICK m : Start(w, m)
      BY <2>3 DEF TakeEvent, ReceiveZernio
    <3>3. \A v \in Workers : proc'[v] = proc[v] \/ proc'[v].step = "dedup"
      BY <3>2 DEF Start, Go, Types
    <3> QED
      BY <3>1, <3>3, KeepsSame, CalmMarks DEF CustRows
  <2> QED
    BY <1>4, <2>1, <2>2, <2>3 DEF Arrive
<1>5. CASE Poll
  <2>1. UNCHANGED <<deletes, lastDone, customers, messages>>
    BY <1>5 DEF Poll, PollList, PollRead, PollReadFails, PollMisread, PollTake, PollSkip, db
  <2>2. \A v \in Workers : proc'[v] = proc[v] \/ proc'[v].step = "dedup"
    BY <1>5 DEF Poll, PollList, PollRead, PollReadFails, PollMisread, PollTake, PollSkip, Start, Go, Types
  <2> QED
    BY <2>1, <2>2, KeepsSame, CalmMarks DEF CustRows
<1> QED
  BY <1>1, <1>2, <1>3, <1>4, <1>5, ProcessMarks DEF Next, Panel

(* Whatever the ways in, the restarts and the failures, what the poller    *)
(* marks as processed is in the history as long as no customer is deleted. *)
THEOREM MarksAreTrue == Spec => []MarkedIsStored
<1>1. Init => Types /\ Inv /\ MarkInv
  BY TypesInit, InvInit, MarkInit
<1>2. Types /\ Inv /\ MarkInv /\ [Next]_vars => (Types /\ Inv /\ MarkInv)'
  BY TypesStep, InvStep, MarkStep
<1>3. MarkInv => MarkedIsStored
  BY DEF MarkInv, Marked, MarkedIsStored
<1> QED
  BY <1>1, <1>2, <1>3, PTL DEF Spec

-----------------------------------------------------------------------------
(* Gate texts.  A worker that is about to record one has seen no row of    *)
(* its own within the cooldown, and until it does, nobody else writes a    *)
(* row in its name.                                                        *)

Cleared(w) == proc[w].step = "record" /\ proc[w].text = "gate"
                => \A r \in BotRows(proc[w].pk, {"gate"}) :
                     r.by = w => r.at + Cooldown <= now

GateInv == /\ \A r \in messages : r.sender = "bot" => r.at \in Nat /\ r.at <= now
           /\ \A w \in Workers : Cleared(w)
           /\ GateSpaced

LEMMA GateInit == Init => GateInv
  BY DEF Init, GateInv, GateSpaced, Cleared, Idle

(* Rows go, or come without the name of a worker; time passes.             *)
LEMMA CalmGate ==
  ASSUME Types, GateInv, now' \in Nat, now <= now',
         \A r \in messages' : r.sender = "bot" =>
           r \in messages \/ (r.by = None /\ r.at = now),
         \A w \in Workers : proc'[w] = proc[w] \/ proc'[w].step # "record"
  PROVE  GateInv'
<1>0. now \in Nat /\ Cooldown \in Nat /\ None \notin Workers
  BY CooldownAssumption, NoneAssumption DEF Types
<1>1. \A r \in messages' : r.sender = "bot" => r.at \in Nat /\ r.at <= now'
  BY <1>0 DEF GateInv
<1>2. ASSUME NEW w \in Workers PROVE Cleared(w)'
  <2> SUFFICES ASSUME proc'[w].step = "record", proc'[w].text = "gate",
                      NEW r \in messages', r.sender = "bot", r.pk = proc'[w].pk,
                      r.text = "gate", r.by = w
               PROVE  r.at + Cooldown <= now'
    BY DEF Cleared, BotRows
  <2>1. proc'[w] = proc[w] /\ r \in messages
    BY <1>0
  <2>2. r.at + Cooldown <= now /\ r.at \in Nat
    BY <2>1 DEF GateInv, Cleared, BotRows
  <2> QED
    BY <1>0, <2>2
<1>3. GateSpaced'
  <2> SUFFICES ASSUME NEW r \in messages', NEW s \in messages',
                      r # s, r.sender = "bot", s.sender = "bot",
                      r.text = "gate", s.text = "gate",
                      r.pk = s.pk, r.by = s.by, r.by # None
               PROVE  r.at >= s.at + Cooldown \/ s.at >= r.at + Cooldown
    BY DEF GateSpaced
  <2>1. r \in messages /\ s \in messages
    OBVIOUS
  <2> QED
    BY <2>1 DEF GateInv, GateSpaced
<1> QED
  BY <1>1, <1>2, <1>3 DEF GateInv

LEMMA DecideGate ==
  ASSUME Types, GateInv, NEW w \in Workers, Decide(w)
  PROVE  GateInv'
<1>0. now \in Nat /\ Cooldown \in Nat
  BY CooldownAssumption DEF Types
<1>1. messages' = messages /\ now' = now
  BY DEF Decide, db, world
<1>2. CASE Raise(w, FALSE) \/ Finish(w)
  BY <1>0, <1>1, <1>2, CalmGate DEF Raise, Finish, Go, Idle, Types
<1>3. ASSUME NEW text \in Reply(w), Alive(w),
             Continue(w, [step |-> "record", msg |-> Msg(w), pk |-> proc[w].pk,
                          text |-> text])
      PROVE  GateInv'
  <2>1. /\ proc'[w].pk = proc[w].pk /\ proc'[w].text = text
        /\ \A v \in Workers \ {w} : proc'[v] = proc[v]
    BY <1>3 DEF Continue, Go, Types
  <2>2. Cleared(w)'
    <3> SUFFICES ASSUME text = "gate", NEW r \in messages, r.sender = "bot",
                        r.pk = proc[w].pk, r.text = "gate"
                 PROVE  r.at + Cooldown <= now
      BY <1>1, <2>1 DEF Cleared, BotRows
    <3>1. ~RecentlyGated(proc[w].pk)
      BY <1>3 DEF Reply
    <3>2. r \in BotRows(proc[w].pk, {"gate"})
      BY DEF BotRows
    <3>3. ~(now - r.at < Cooldown)
      BY <3>1, <3>2 DEF RecentlyGated
    <3>4. r.at \in Nat
      BY DEF GateInv
    <3> QED
      BY <1>0, <3>3, <3>4
  <2>3. \A v \in Workers \ {w} : Cleared(v)'
    BY <1>1, <2>1 DEF GateInv, Cleared, BotRows
  <2>4. GateSpaced'
    BY <1>1 DEF GateInv, GateSpaced
  <2> QED
    BY <1>1, <2>2, <2>3, <2>4 DEF GateInv
<1> QED
  BY <1>2, <1>3 DEF Decide

LEMMA RecordGate ==
  ASSUME Types, GateInv, NEW w \in Workers, RecordReply(w)
  PROVE  GateInv'
<1>0. now \in Nat /\ Cooldown \in Nat /\ now' = now
  BY CooldownAssumption DEF Types, RecordReply, world
<1>1. proc'[w].step # "record" /\ \A v \in Workers \ {w} : proc'[v] = proc[v]
  BY DEF RecordReply, Continue, Raise, Go, Idle, Types
<1>2. CASE ~Alive(w)
  BY <1>0, <1>1, <1>2, CalmGate DEF RecordReply
<1>3. CASE Alive(w)
  <2>1. PICK new : /\ messages' = messages \cup {new}
                   /\ new.sender = "bot" /\ new.pk = proc[w].pk
                   /\ new.text = proc[w].text /\ new.at = now /\ new.by = w
    <3> DEFINE new == [id |-> lastId', pk |-> proc[w].pk, sender |-> "bot",
                       text |-> proc[w].text, at |-> now, by |-> w]
    <3>1. messages' = messages \cup {new}
      BY <1>3 DEF RecordReply
    <3>2. /\ new.sender = "bot" /\ new.pk = proc[w].pk
          /\ new.text = proc[w].text /\ new.at = now /\ new.by = w
      OBVIOUS
    <3> HIDE DEF new
    <3> QED
      BY <3>1, <3>2
  <2>2. \A r \in messages' : r.sender = "bot" => r.at \in Nat /\ r.at <= now'
    BY <1>0, <2>1 DEF GateInv
  <2>3. ASSUME NEW v \in Workers PROVE Cleared(v)'
    <3>1. CASE v = w
      BY <1>1, <3>1 DEF Cleared
    <3>2. CASE v # w
      <4> SUFFICES ASSUME proc[v].step = "record", proc[v].text = "gate",
                          NEW r \in messages', r.sender = "bot", r.pk = proc[v].pk,
                          r.text = "gate", r.by = v
                   PROVE  r.at + Cooldown <= now
        BY <1>0, <1>1, <3>2 DEF Cleared, BotRows
      <4>1. r \in messages
        BY <2>1, <3>2
      <4> QED
        BY <4>1 DEF GateInv, Cleared, BotRows
    <3> QED
      BY <3>1, <3>2
  <2>4. ASSUME NEW s \in messages, s.sender = "bot", s.text = "gate",
               new.text = "gate", s.pk = new.pk, s.by = new.by
        PROVE  new.at >= s.at + Cooldown
    <3>1. proc[w].step = "record"
      BY DEF RecordReply, At
    <3>2. s \in BotRows(proc[w].pk, {"gate"})
      BY <2>1, <2>4 DEF BotRows
    <3>3. s.at + Cooldown <= now /\ s.at \in Nat
      BY <2>1, <2>4, <3>1, <3>2 DEF GateInv, Cleared
    <3> QED
      BY <1>0, <2>1, <3>3
  <2>5. GateSpaced'
    <3> SUFFICES ASSUME NEW r \in messages', NEW s \in messages',
                        r # s, r.sender = "bot", s.sender = "bot",
                        r.text = "gate", s.text = "gate",
                        r.pk = s.pk, r.by = s.by, r.by # None
                 PROVE  r.at >= s.at + Cooldown \/ s.at >= r.at + Cooldown
      BY DEF GateSpaced
    <3>1. CASE r \in messages /\ s \in messages
      BY <3>1 DEF GateInv, GateSpaced
    <3>2. CASE r = new
      BY <2>1, <2>4, <3>2
    <3>3. CASE s = new
      BY <2>1, <2>4, <3>3
    <3> QED
      BY <2>1, <3>1, <3>2, <3>3
  <2> QED
    BY <2>2, <2>3, <2>5 DEF GateInv
<1> QED
  BY <1>2, <1>3

LEMMA ProcessGate ==
  ASSUME Types, GateInv, NEW w \in Workers, Process(w)
  PROVE  GateInv'
<1>1. CASE Decide(w) \/ RecordReply(w)
  BY <1>1, DecideGate, RecordGate
<1>2. CASE ~Decide(w) /\ ~RecordReply(w)
  <2>1. now' = now /\ now \in Nat
    BY <1>2 DEF Process, KnownMessage, NewMessage, FindCustomer, CreateCustomer, RenameCustomer,
                StoreMessage, StoreRefused, SendAccepted, SendFails, NoConversation, PickUnsent,
                EraseUnsent, world, around, Types
  <2>2. \A r \in messages' : r.sender = "bot" => r \in messages
    <3>1. CASE StoreMessage(w)
      BY <3>1 DEF StoreMessage
    <3>2. CASE EraseUnsent(w)
      BY <3>2 DEF EraseUnsent
    <3>3. CASE ~StoreMessage(w) /\ ~EraseUnsent(w)
      BY <1>2, <3>3 DEF Process, KnownMessage, NewMessage, FindCustomer, CreateCustomer,
                  RenameCustomer, StoreRefused, SendAccepted, SendFails, NoConversation,
                  PickUnsent, db
    <3> QED
      BY <3>1, <3>2, <3>3
  <2>3. \A v \in Workers : proc'[v] = proc[v] \/ proc'[v].step # "record"
    <3>1. ASSUME NEW work, Go(w, work), work.step # "record"
          PROVE  \A v \in Workers : proc'[v] = proc[v] \/ proc'[v].step # "record"
      BY <3>1 DEF Go, Types
    <3>2. ASSUME Finish(w) \/ \E b : Raise(w, b)
          PROVE  \A v \in Workers : proc'[v] = proc[v] \/ proc'[v].step # "record"
      BY <3>1, <3>2 DEF Finish, Raise, Idle
    <3>3. CASE RenameCustomer(w) \/ StoreMessage(w)
      <4>1. proc[w] \in [step : {"rename", "store", "decide"}, msg : Msgs, pk : Nat]
        BY <3>3 DEF RenameCustomer, StoreMessage, At, Types, Work
      <4>2. /\ [proc[w] EXCEPT !.step = "store"].step = "store"
            /\ [proc[w] EXCEPT !.step = "decide"].step = "decide"
        BY <4>1
      <4> QED
        BY <3>1, <3>2, <3>3, <4>2 DEF RenameCustomer, StoreMessage, Continue
    <3>4. CASE SendFails(w)
      <4>1. proc[w] \in Work /\ proc[w].step = "send"
        BY <3>4 DEF SendFails, At, Types
      <4>2. [proc[w] EXCEPT !.tries = @ - 1].step = "send"
        BY <4>1 DEF Work
      <4> QED
        BY <3>1, <3>4, <4>2 DEF SendFails, Continue
    <3>5. CASE FindCustomer(w) \/ CreateCustomer(w)
      BY <3>1, <3>2, <3>5 DEF FindCustomer, CreateCustomer, Continue
    <3>6. CASE NewMessage(w) \/ NoConversation(w)
      BY <3>1, <3>6 DEF NewMessage, NoConversation, Continue
    <3>7. CASE PickUnsent(w)
      BY <3>1, <3>2, <3>7 DEF PickUnsent, Continue
    <3>8. CASE KnownMessage(w) \/ StoreRefused(w) \/ SendAccepted(w) \/ EraseUnsent(w)
      BY <3>2, <3>8 DEF KnownMessage, StoreRefused, SendAccepted, EraseUnsent
    <3> QED
      BY <1>2, <3>3, <3>4, <3>5, <3>6, <3>7, <3>8 DEF Process
  <2> QED
    BY <2>1, <2>2, <2>3, CalmGate
<1> QED
  BY <1>1, <1>2

LEMMA GateStep == Types /\ GateInv /\ [Next]_vars => GateInv'
<1> SUFFICES ASSUME Types, GateInv, [Next]_vars
             PROVE  GateInv'
  OBVIOUS
<1>0. now \in Nat /\ now <= now + 1 /\ now + 1 \in Nat
  BY DEF Types
<1>1. CASE Panel \/ UNCHANGED vars
  <2>1. messages' \subseteq messages /\ UNCHANGED <<proc, now>>
    BY <1>1 DEF Panel, ToggleBot, ToggleGate, TogglePaused, LearnFollower, DeleteCustomer,
                vars, db
  <2> QED
    BY <1>0, <2>1, CalmGate
<1>2. CASE Tick
  <2>1. UNCHANGED <<messages, proc>> /\ now' = now + 1
    BY <1>2 DEF Tick, db
  <2> QED
    BY <1>0, <2>1, CalmGate
<1>3. CASE Restart
  <2>1. UNCHANGED <<messages, now>> /\ \A w \in Workers : proc'[w].step = "idle"
    BY <1>3 DEF Restart, db, Idle
  <2> QED
    BY <1>0, <2>1, CalmGate
<1>4. CASE Arrive
  <2>1. ASSUME NEW c \in Customers, NEW text \in {"gate", "reminder"},
               RecordRemoteGate(c, text)
        PROVE  GateInv'
    <3>1. UNCHANGED <<proc, now>>
      BY <2>1 DEF RecordRemoteGate
    <3>2. PICK new : messages' = messages \cup {new} /\ new.by = None /\ new.at = now
      <4> DEFINE new == [id |-> lastId', pk |-> customers'[c].pk, sender |-> "bot",
                         text |-> text, at |-> now, by |-> None]
      <4>1. messages' = messages \cup {new}
        BY <2>1 DEF RecordRemoteGate
      <4>2. new.by = None /\ new.at = now
        OBVIOUS
      <4> HIDE DEF new
      <4> QED
        BY <4>1, <4>2
    <3> QED
      BY <1>0, <3>1, <3>2, CalmGate
  <2>2. ASSUME NEW m \in Msgs, Write(m) \/ EnqueueEvent(m)
        PROVE  GateInv'
    <3>1. UNCHANGED <<proc, now, messages>>
      BY <2>2 DEF Write, EnqueueEvent, db
    <3> QED
      BY <1>0, <3>1, CalmGate
  <2>3. ASSUME NEW w \in Workers, TakeEvent(w) \/ \E m \in Msgs : ReceiveZernio(w, m)
        PROVE  GateInv'
    <3>1. UNCHANGED <<now, messages>>
      BY <2>3 DEF TakeEvent, ReceiveZernio, db
    <3>2. PICK m : Start(w, m)
      BY <2>3 DEF TakeEvent, ReceiveZernio
    <3>3. \A v \in Workers : proc'[v] = proc[v] \/ proc'[v].step = "dedup"
      BY <3>2 DEF Start, Go, Types
    <3> QED
      BY <1>0, <3>1, <3>3, CalmGate
  <2> QED
    BY <1>4, <2>1, <2>2, <2>3 DEF Arrive
<1>5. CASE Poll
  <2>1. UNCHANGED <<now, messages>>
    BY <1>5 DEF Poll, PollList, PollRead, PollReadFails, PollMisread, PollTake, PollSkip, db
  <2>2. \A v \in Workers : proc'[v] = proc[v] \/ proc'[v].step = "dedup"
    BY <1>5 DEF Poll, PollList, PollRead, PollReadFails, PollMisread, PollTake, PollSkip, Start, Go, Types
  <2> QED
    BY <1>0, <2>1, <2>2, CalmGate
<1> QED
  BY <1>1, <1>2, <1>3, <1>4, <1>5, ProcessGate DEF Next

(* However many messages of one customer a worker answers, its gate texts  *)
(* to that customer are at least the cooldown apart.                       *)
THEOREM GateTextsAreSpaced == Spec => []GateSpaced
<1>1. Init => Types /\ GateInv
  BY TypesInit, GateInit
<1>2. Types /\ GateInv /\ [Next]_vars => (Types /\ GateInv)'
  BY TypesStep, GateStep
<1>3. GateInv => GateSpaced
  BY DEF GateInv
<1> QED
  BY <1>1, <1>2, <1>3, PTL DEF Spec

-----------------------------------------------------------------------------
(* Accepted replies.  Per customer and text the rows pay for the replies   *)
(* Instagram accepted and for the workers that may still take a row back:  *)
(* a reply on its way, a failed one looking for its row, and one that has  *)
(* picked a row which is still there.  Whoever erases a row leaves, and so *)
(* does every other worker that had picked the same one.                   *)

BotAll == {r \in messages : r.sender = "bot"}
Rows(c, t) == BotRows(customers[c].pk, {t})

Owes(w, c, t) ==
  /\ proc[w].step \in {"send", "pick", "erase"}
  /\ Sender(w) = c
  /\ proc[w].step \in {"send", "pick"} => proc[w].text = t
  /\ proc[w].step = "erase" => \E r \in Rows(c, t) : r.id = proc[w].row

Owing(c, t) == {w \in Workers : Owes(w, c, t)}

Balanced(c, t) == Cardinality(Rows(c, t)) >= accepted[c][t] + Cardinality(Owing(c, t))

Numbered == /\ \A r \in BotAll : r.id \in 1..lastId /\ r.pk \in 1..lastPk
            /\ \A r, s \in BotAll : r.id = s.id => r = s

ChosenBy(w) == /\ proc[w].row <= lastId
               /\ \A r \in BotAll : r.id = proc[w].row => r.pk = customers[Sender(w)].pk

Chosen == \A w \in Workers : proc[w].step = "erase" => ChosenBy(w)

Reached == \A c \in Customers \ severed : customers[c].pk = 0 =>
             /\ \A t \in BotTexts : accepted[c][t] = 0
             /\ \A w \in Workers : proc[w].step \in {"send", "pick"} => Sender(w) # c

Book == /\ accepted \in [Customers -> [BotTexts -> Nat]]
        /\ IsFiniteSet(messages)
        /\ Numbered /\ Chosen /\ Reached

KeptInv == Book /\ \A c \in Customers \ severed, t \in BotTexts : Balanced(c, t)

LEMMA WorkersFinite == IsFiniteSet(Workers)
  BY ThreadsAssumption, FS_AddElement DEF Workers

LEMMA BookCards ==
  ASSUME IsFiniteSet(messages), NEW c, NEW t
  PROVE  /\ IsFiniteSet(Rows(c, t)) /\ Cardinality(Rows(c, t)) \in Nat
         /\ IsFiniteSet(Owing(c, t)) /\ Cardinality(Owing(c, t)) \in Nat
<1>1. Rows(c, t) \subseteq messages /\ Owing(c, t) \subseteq Workers
  BY DEF Rows, BotRows, Owing
<1> QED
  BY <1>1, WorkersFinite, FS_Subset, FS_CardinalityType

(* One reply more is accepted.                                             *)
LEMMA OneMoreAccepted ==
  ASSUME accepted \in [Customers -> [BotTexts -> Nat]],
         NEW c \in Customers, NEW t \in BotTexts,
         accepted' = [accepted EXCEPT ![c][t] = @ + 1]
  PROVE  /\ accepted' \in [Customers -> [BotTexts -> Nat]]
         /\ accepted'[c][t] = accepted[c][t] + 1
         /\ \A d \in Customers, u \in BotTexts : d # c \/ u # t =>
              accepted'[d][u] = accepted[d][u]
         /\ \A d \in Customers : d # c => accepted'[d] = accepted[d]
<1>1. accepted[c] \in [BotTexts -> Nat]
  OBVIOUS
<1> DEFINE heard == [accepted[c] EXCEPT ![t] = @ + 1]
<1>2. /\ heard \in [BotTexts -> Nat]
      /\ heard[t] = accepted[c][t] + 1
      /\ \A u \in BotTexts : u # t => heard[u] = accepted[c][u]
  BY <1>1
<1>3. accepted' = [accepted EXCEPT ![c] = heard]
  OBVIOUS
<1> HIDE DEF heard
<1> QED
  BY <1>2, <1>3

LEMMA KeptInit == Init => KeptInv
<1> SUFFICES ASSUME Init PROVE KeptInv
  OBVIOUS
<1>1. Book
  BY FS_EmptySet DEF Init, Book, Numbered, Chosen, Reached, BotAll, Idle, Unheard
<1>2. ASSUME NEW c \in Customers, NEW t \in BotTexts PROVE Balanced(c, t)
  <2>1. Owing(c, t) = {} /\ Rows(c, t) = {} /\ accepted[c][t] = 0
    BY DEF Init, Owing, Owes, Idle, Unheard, Rows, BotRows
  <2> QED
    BY <2>1, FS_EmptySet DEF Balanced
<1> QED
  BY <1>1, <1>2 DEF KeptInv

(* Rows that come and workers that let go leave the balance in order.      *)
LEMMA BalanceKept ==
  ASSUME Book, IsFiniteSet(messages'), NEW c \in Customers, NEW t \in BotTexts, Balanced(c, t),
         Rows(c, t) \subseteq Rows(c, t)', Owing(c, t)' \subseteq Owing(c, t),
         accepted'[c][t] = accepted[c][t]
  PROVE  Balanced(c, t)'
<1>1. /\ IsFiniteSet(Owing(c, t)) /\ Cardinality(Owing(c, t)) \in Nat
      /\ Cardinality(Rows(c, t)) \in Nat
  BY BookCards DEF Book
<1>2. IsFiniteSet(Rows(c, t)')
  <2>1. Rows(c, t)' \subseteq messages'
    BY DEF Rows, BotRows
  <2> QED
    BY <2>1, FS_Subset
<1>3. /\ Cardinality(Rows(c, t)) <= Cardinality(Rows(c, t)')
      /\ Cardinality(Rows(c, t)') \in Nat
  BY <1>2, FS_Subset, FS_CardinalityType
<1>4. /\ Cardinality(Owing(c, t)') <= Cardinality(Owing(c, t))
      /\ Cardinality(Owing(c, t)') \in Nat
  BY <1>1, FS_Subset, FS_CardinalityType
<1>5. accepted[c][t] \in Nat
  BY DEF Book
<1>6. Cardinality(Rows(c, t)) >= accepted[c][t] + Cardinality(Owing(c, t))
  BY DEF Balanced
<1>7. Cardinality(Rows(c, t)') >= accepted'[c][t] + Cardinality(Owing(c, t)')
  BY <1>1, <1>3, <1>4, <1>5, <1>6
<1> QED
  BY <1>7 DEF Balanced

(* A worker that owes a row after a step already did before it, unless it  *)
(* has just recorded a reply or picked a row.                              *)
LEMMA OwedBefore ==
  ASSUME Types, Chosen, NEW w \in Workers, NEW c \in Customers, NEW t \in BotTexts,
         customers'[c].pk = customers[c].pk,
         \A r \in BotAll' : r \in BotAll \/ r.id > lastId,
         proc'[w].step \in {"send", "pick", "erase"} =>
           \/ proc'[w] = proc[w]
           \/ /\ proc[w].step = "send" /\ proc'[w].step \in {"send", "pick"}
              /\ proc'[w].msg = proc[w].msg /\ proc'[w].text = proc[w].text,
         Owes(w, c, t)'
  PROVE  Owes(w, c, t)
<1>1. CASE proc'[w] = proc[w] /\ proc[w].step = "erase"
  <2>1. Sender(w) = c /\ proc[w].row <= lastId /\ proc[w].row \in Nat /\ lastId \in Nat
    BY <1>1, WorkType DEF Owes, Sender, Msg, Chosen, ChosenBy, Types
  <2>2. PICK r \in Rows(c, t)' : r.id = proc[w].row
    BY <1>1 DEF Owes
  <2>3. r \in BotAll' /\ r.pk = customers'[c].pk /\ r.text = t
    BY DEF Rows, BotRows, BotAll
  <2>4. r \in BotAll
    BY <2>1, <2>2, <2>3
  <2>5. r \in Rows(c, t)
    BY <2>3, <2>4 DEF Rows, BotRows, BotAll
  <2> QED
    BY <1>1, <2>1, <2>2, <2>5 DEF Owes
<1>2. CASE proc'[w] = proc[w] /\ proc[w].step # "erase"
  BY <1>2 DEF Owes, Sender, Msg
<1>3. CASE /\ proc[w].step = "send" /\ proc'[w].step \in {"send", "pick"}
           /\ proc'[w].msg = proc[w].msg /\ proc'[w].text = proc[w].text
  BY <1>3 DEF Owes, Sender, Msg
<1> QED
  BY <1>1, <1>2, <1>3 DEF Owes

(* Rows keep their numbers, customers their keys; a customer without a row *)
(* may get one.                                                            *)
Grown == /\ lastId \in Nat /\ lastId' \in Nat /\ lastId <= lastId'
         /\ lastPk \in Nat /\ lastPk' \in Nat /\ lastPk <= lastPk'
         /\ \A r \in BotAll' : \/ r \in BotAll
                               \/ /\ r.id = lastId' /\ lastId' = lastId + 1
                                  /\ r.pk \in 1..lastPk'
                                  /\ \A s \in BotAll' : s \in BotAll \/ s = r
         /\ \A c \in Customers : \/ customers'[c].pk = customers[c].pk
                                 \/ customers[c].pk = 0 /\ customers'[c].pk = lastPk + 1
         /\ IsFiniteSet(messages')
         /\ severed' = severed

LEMMA BookKept ==
  ASSUME Types, Book, Grown,
         \A w \in Workers : proc'[w].step = "erase" => proc'[w] = proc[w] \/ ChosenBy(w)',
         \A w \in Workers : proc'[w].step \in {"send", "pick"} =>
           \/ proc[w].step \in {"send", "pick"} /\ proc'[w].msg = proc[w].msg
           \/ customers'[From[proc'[w].msg]].pk # 0,
         accepted' \in [Customers -> [BotTexts -> Nat]],
         \A c \in Customers : customers'[c].pk = 0 => accepted'[c] = accepted[c]
  PROVE  Book'
<1>1. \A r \in BotAll : r.id \in 1..lastId /\ r.pk \in 1..lastPk
  BY DEF Book, Numbered
<1>2. Numbered'
  <2>1. \A r \in BotAll' : r.id \in 1..lastId' /\ r.pk \in 1..lastPk'
    BY <1>1 DEF Grown
  <2>2. ASSUME NEW r \in BotAll', NEW s \in BotAll', r.id = s.id PROVE r = s
    <3>1. CASE r \in BotAll /\ s \in BotAll
      BY <2>2, <3>1 DEF Book, Numbered
    <3>2. CASE r \notin BotAll
      <4>1. r.id = lastId + 1 /\ (s \in BotAll \/ s = r)
        BY <3>2 DEF Grown
      <4>2. s \in BotAll => s.id \in 1..lastId
        BY <1>1
      <4> QED
        BY <2>2, <4>1, <4>2 DEF Grown
    <3>3. CASE s \notin BotAll
      <4>1. s.id = lastId + 1 /\ (r \in BotAll \/ s = r)
        BY <3>3 DEF Grown
      <4>2. r \in BotAll => r.id \in 1..lastId
        BY <1>1
      <4> QED
        BY <2>2, <4>1, <4>2 DEF Grown
    <3> QED
      BY <3>1, <3>2, <3>3
  <2> QED
    BY <2>1, <2>2 DEF Numbered
<1>3. ASSUME NEW w \in Workers, proc'[w].step = "erase" PROVE ChosenBy(w)'
  <2> SUFFICES ASSUME proc'[w] = proc[w] PROVE ChosenBy(w)'
    BY <1>3
  <2>1. /\ proc[w].row \in Nat /\ proc[w].row <= lastId
        /\ \A r \in BotAll : r.id = proc[w].row => r.pk = customers[Sender(w)].pk
    BY <1>3, WorkType DEF Book, Chosen, ChosenBy
  <2>2. Sender(w) \in Customers /\ Sender(w)' = Sender(w)
    BY <1>3, MidType DEF Sender, Msg
  <2>3. proc'[w].row <= lastId'
    BY <2>1 DEF Grown
  <2>4. ASSUME NEW r \in BotAll', r.id = proc'[w].row
        PROVE  r.pk = customers'[Sender(w)].pk
    <3>1. r \in BotAll
      BY <2>1, <2>4 DEF Grown
    <3>2. r.pk = customers[Sender(w)].pk /\ r.pk # 0
      BY <1>1, <2>1, <2>4, <3>1 DEF Grown
    <3> QED
      BY <2>2, <3>2 DEF Grown
  <2> QED
    BY <2>2, <2>3, <2>4 DEF ChosenBy
<1>4. Reached'
  <2> SUFFICES ASSUME NEW c \in Customers \ severed, customers'[c].pk = 0
               PROVE  /\ \A t \in BotTexts : accepted'[c][t] = 0
                      /\ \A w \in Workers : proc'[w].step \in {"send", "pick"} =>
                           From[proc'[w].msg] # c
    BY DEF Reached, Grown, Sender, Msg
  <2>1. customers[c].pk = 0
    BY DEF Grown
  <2>2. \A t \in BotTexts : accepted[c][t] = 0
    BY <2>1 DEF Book, Reached
  <2>3. \A w \in Workers : proc[w].step \in {"send", "pick"} => From[proc[w].msg] # c
    BY <2>1 DEF Book, Reached, Sender, Msg
  <2> QED
    BY <2>2, <2>3
<1> QED
  BY <1>2, <1>3, <1>4 DEF Book, Chosen, Grown

(* Nobody owes a row to a customer that has just got one.                  *)
LEMMA NothingOwed ==
  ASSUME Types, Book, Grown, NEW c \in Customers \ severed, NEW t \in BotTexts,
         customers[c].pk = 0, customers'[c].pk = lastPk + 1,
         \A w \in Workers : proc'[w].step \in {"send", "pick", "erase"} =>
           \/ proc'[w] = proc[w]
           \/ proc[w].step = "send" /\ proc'[w].step # "erase" /\ proc'[w].msg = proc[w].msg
  PROVE  Owing(c, t)' = {}
<1>1. ASSUME NEW w \in Workers, Owes(w, c, t)' PROVE FALSE
  <2>1. proc'[w].step \in {"send", "pick", "erase"} /\ From[proc'[w].msg] = c
    BY <1>1 DEF Owes, Sender, Msg
  <2>2. ~(proc[w].step \in {"send", "pick"} /\ From[proc[w].msg] = c)
    BY DEF Book, Reached, Sender, Msg
  <2>3. proc'[w] = proc[w] /\ proc[w].step = "erase"
    BY <2>1, <2>2
  <2>4. PICK r \in Rows(c, t)' : r.id = proc[w].row
    BY <1>1, <2>3 DEF Owes
  <2>5. r \in BotAll' /\ r.pk = lastPk + 1
    BY DEF Rows, BotRows, BotAll
  <2>6. proc[w].row <= lastId /\ proc[w].row \in Nat
    BY <2>3, WorkType DEF Book, Chosen, ChosenBy
  <2>7. r \in BotAll
    BY <2>4, <2>5, <2>6 DEF Grown
  <2> QED
    BY <2>5, <2>7 DEF Book, Numbered, Grown
<1> QED
  BY <1>1 DEF Owing

(* The balance of a customer that has just got a row starts at zero.       *)
LEMMA BalanceStarts ==
  ASSUME Types, Book, Grown, NEW c \in Customers \ severed, NEW t \in BotTexts,
         customers[c].pk = 0, customers'[c].pk = lastPk + 1, accepted'[c] = accepted[c],
         \A w \in Workers : proc'[w].step \in {"send", "pick", "erase"} =>
           \/ proc'[w] = proc[w]
           \/ proc[w].step = "send" /\ proc'[w].step # "erase" /\ proc'[w].msg = proc[w].msg
  PROVE  Balanced(c, t)'
<1>2. Owing(c, t)' = {}
  BY NothingOwed
<1>3. accepted'[c][t] = 0
  BY DEF Book, Reached
<1>4. IsFiniteSet(Rows(c, t)')
  <2>1. Rows(c, t)' \subseteq messages'
    BY DEF Rows, BotRows
  <2> QED
    BY <2>1, FS_Subset DEF Grown
<1>5. Cardinality(Rows(c, t)') \in Nat
  BY <1>4, FS_CardinalityType
<1>6. Cardinality(Rows(c, t)') >= accepted'[c][t] + Cardinality(Owing(c, t)')
  BY <1>2, <1>3, <1>5, FS_EmptySet
<1> QED
  BY <1>6 DEF Balanced

(* Steps that take no row back and record, accept or pick nothing.         *)
Moving == \A w \in Workers : proc'[w].step \in {"send", "pick", "erase"} =>
            \/ proc'[w] = proc[w]
            \/ /\ proc[w].step = "send" /\ proc'[w].step \in {"send", "pick"}
               /\ proc'[w].msg = proc[w].msg /\ proc'[w].text = proc[w].text

LEMMA CalmKept ==
  ASSUME Types, KeptInv, Grown, BotAll \subseteq BotAll', accepted' = accepted, Moving
  PROVE  KeptInv'
<1>1. Book'
  BY BookKept DEF KeptInv, Book, Moving
<1>2. ASSUME NEW c \in Customers \ severed', NEW t \in BotTexts
      PROVE  Balanced(c, t)'
  <2>1. c \in Customers \ severed /\ Balanced(c, t)
    BY DEF Grown, KeptInv
  <2>2. CASE customers'[c].pk = customers[c].pk
    <3>1. Rows(c, t) \subseteq Rows(c, t)'
      BY <2>2 DEF Rows, BotRows, BotAll
    <3>2. \A r \in BotAll' : r \in BotAll \/ r.id > lastId
      BY DEF Grown
    <3>3. Owing(c, t)' \subseteq Owing(c, t)
      BY <2>2, <3>2, OwedBefore DEF Owing, Moving, KeptInv, Book
    <3> QED
      BY <2>1, <3>1, <3>3, BalanceKept DEF KeptInv, Grown
  <2>3. CASE customers'[c].pk # customers[c].pk
    BY <2>1, <2>3, BalanceStarts DEF Grown, KeptInv, Moving
  <2> QED
    BY <2>2, <2>3
<1> QED
  BY <1>1, <1>2 DEF KeptInv

(* No row of the bot's comes or goes.                                      *)
LEMMA QuietKept ==
  ASSUME Types, KeptInv, Moving, IsFiniteSet(messages'), BotAll' = BotAll,
         lastId' \in {lastId, lastId + 1}, lastPk' \in {lastPk, lastPk + 1},
         \A c \in Customers : \/ customers'[c].pk = customers[c].pk
                              \/ customers[c].pk = 0 /\ customers'[c].pk = lastPk + 1,
         severed' = severed, accepted' = accepted
  PROVE  KeptInv'
<1>1. lastId \in Nat /\ lastPk \in Nat
  BY DEF Types
<1>2. Grown
  BY <1>1 DEF Grown
<1> QED
  BY <1>2, CalmKept

LEMMA StillKept ==
  ASSUME Types, KeptInv, Moving, UNCHANGED <<messages, lastId, lastPk, severed, accepted>>,
         \A c \in Customers : customers'[c].pk = customers[c].pk
  PROVE  KeptInv'
<1>1. BotAll' = BotAll
  BY DEF BotAll
<1> QED
  BY <1>1, QuietKept DEF KeptInv, Book

LEMMA MovingGo ==
  ASSUME Types, NEW w \in Workers, NEW work, Go(w, work),
         work.step \notin {"send", "pick", "erase"}
  PROVE  Moving
<1>1. proc'[w] = work /\ \A v \in Workers \ {w} : proc'[v] = proc[v]
  BY DEF Go, Types
<1> QED
  BY <1>1 DEF Moving

LEMMA MovingFinish ==
  ASSUME Types, NEW w \in Workers, Finish(w) \/ \E b : Raise(w, b)
  PROVE  Moving
<1>1. Go(w, Idle) /\ Idle.step = "idle"
  BY DEF Finish, Raise, Idle
<1> QED
  BY <1>1, MovingGo

LEMMA MovingStill == ASSUME proc' = proc PROVE Moving
  BY DEF Moving

(* A gate text that Zernio sent is one row more for its customer.          *)
LEMMA RemoteGateRow ==
  ASSUME Types, Inv, KeptInv, NEW c \in Customers, NEW text, RecordRemoteGate(c, text)
  PROVE  /\ Grown /\ IsFiniteSet(messages')
         /\ customers'[c].pk # 0
         /\ \A d \in Customers \ {c} : customers'[d].pk # customers'[c].pk
         /\ \E new \in BotAll' : /\ messages' = messages \cup {new}
                                 /\ BotAll' = BotAll \cup {new}
                                 /\ new.id = lastId' /\ new.pk = customers'[c].pk
                                 /\ new.text = text /\ new \notin messages
<1> DEFINE new == [id |-> lastId', pk |-> customers'[c].pk, sender |-> "bot", text |-> text,
                   at |-> now, by |-> None]
<1>1. /\ messages' = messages \cup {new}
      /\ lastId' = lastId + 1 /\ lastId \in Nat /\ lastPk \in Nat
      /\ UNCHANGED <<proc, severed>>
  BY DEF RecordRemoteGate, Types
<1>2. new.id = lastId' /\ new.pk = customers'[c].pk /\ new.sender = "bot" /\ new.text = text
  OBVIOUS
<1> HIDE DEF new
<1>3. /\ lastPk' \in {lastPk, lastPk + 1}
      /\ customers'[c].pk \in 1..lastPk'
      /\ \A d \in Customers : \/ customers'[d].pk = customers[d].pk
                              \/ customers[d].pk = 0 /\ customers'[d].pk = lastPk + 1
      /\ \A d \in Customers \ {c} : customers'[d].pk # customers'[c].pk
  <2>1. CASE customers[c].pk # 0
    BY <2>1 DEF RecordRemoteGate, Inv, Keys, Types
  <2>2. CASE customers[c].pk = 0
    <3>1. /\ lastPk' = lastPk + 1
          /\ customers' = [customers EXCEPT ![c] = [pk |-> lastPk', paused |-> FALSE]]
      BY <2>2 DEF RecordRemoteGate
    <3>2. /\ customers'[c].pk = lastPk'
          /\ \A d \in Customers \ {c} : customers'[d].pk = customers[d].pk
      BY <3>1 DEF Types
    <3>3. \A d \in Customers : customers[d].pk <= lastPk
      BY DEF Inv, Keys, Types
    <3>4. \A d \in Customers : customers[d].pk \in Nat
      BY DEF Types
    <3>5. \A d \in Customers \ {c} : customers'[d].pk # customers'[c].pk
      BY <1>1, <3>1, <3>2, <3>3, <3>4
    <3> QED
      BY <1>1, <2>2, <3>1, <3>2, <3>5
  <2> QED
    BY <2>1, <2>2
<1>4. BotAll' = BotAll \cup {new} /\ new \in BotAll'
  BY <1>1, <1>2 DEF BotAll
<1>5. IsFiniteSet(messages')
  BY <1>1, FS_AddElement DEF KeptInv, Book
<1>6. Grown
  BY <1>1, <1>2, <1>3, <1>4, <1>5 DEF Grown
<1>7. new \notin messages
  <2>1. new \in BotAll => new.id \in 1..lastId
    BY DEF KeptInv, Book, Numbered
  <2> QED
    BY <1>1, <1>2, <2>1 DEF BotAll
<1>8. customers'[c].pk # 0
  BY <1>1, <1>3
<1> QED
  BY <1>1, <1>2, <1>3, <1>4, <1>5, <1>6, <1>7, <1>8

LEMMA RemoteGateKept ==
  ASSUME Types, Inv, KeptInv, NEW c \in Customers, NEW text \in {"gate", "reminder"},
         RecordRemoteGate(c, text)
  PROVE  KeptInv'
<1>1. /\ accepted' = [accepted EXCEPT ![c][text] = @ + 1]
      /\ UNCHANGED <<proc, severed>>
  BY DEF RecordRemoteGate
<1>2. PICK new \in BotAll' : /\ messages' = messages \cup {new}
                             /\ BotAll' = BotAll \cup {new}
                             /\ new.id = lastId' /\ new.pk = customers'[c].pk
                             /\ new.text = text /\ new \notin messages
  BY RemoteGateRow
<1>5. IsFiniteSet(messages')
  BY RemoteGateRow
<1>6. Grown
  BY RemoteGateRow
<1>7. text \in BotTexts /\ customers'[c].pk # 0
  BY RemoteGateRow DEF BotTexts
<1>8. /\ accepted' \in [Customers -> [BotTexts -> Nat]]
      /\ accepted'[c][text] = accepted[c][text] + 1
      /\ \A d \in Customers, t \in BotTexts : d # c \/ t # text =>
           accepted'[d][t] = accepted[d][t]
      /\ \A d \in Customers : d # c => accepted'[d] = accepted[d]
  BY <1>1, <1>7, OneMoreAccepted DEF KeptInv, Book
<1>9. Book'
  <2>1. \A d \in Customers : customers'[d].pk = 0 => accepted'[d] = accepted[d]
    BY <1>7, <1>8
  <2> QED
    BY <1>1, <1>6, <1>8, <2>1, BookKept DEF KeptInv
<1>10. ASSUME NEW d \in Customers \ severed', NEW t \in BotTexts
       PROVE  Balanced(d, t)'
  <2>1. d \in Customers \ severed /\ Balanced(d, t)
    BY <1>1 DEF KeptInv
  <2>2. \A r \in BotAll' : r \in BotAll \/ r.id > lastId
    BY <1>6 DEF Grown
  <2>3. ASSUME customers'[d].pk = customers[d].pk
        PROVE  Owing(d, t)' \subseteq Owing(d, t) /\ Rows(d, t) \subseteq Rows(d, t)'
    <3>1. Owing(d, t)' \subseteq Owing(d, t)
      BY <1>1, <2>2, <2>3, OwedBefore DEF Owing, KeptInv, Book
    <3>2. Rows(d, t) \subseteq Rows(d, t)'
      BY <1>2, <2>3 DEF Rows, BotRows
    <3> QED
      BY <3>1, <3>2
  <2>4. ASSUME customers'[d].pk # customers[d].pk
        PROVE  /\ Owing(d, t)' = {}
               /\ accepted[d][t] = 0
    <3>1. customers[d].pk = 0 /\ customers'[d].pk = lastPk + 1
      BY <1>6, <2>4 DEF Grown
    <3>2. accepted[d][t] = 0
      BY <2>1, <3>1 DEF KeptInv, Book, Reached
    <3>3. Owing(d, t)' = {}
      BY <1>1, <1>6, <3>1, NothingOwed DEF KeptInv
    <3> QED
      BY <3>2, <3>3
  <2>5. /\ IsFiniteSet(Rows(d, t)) /\ Cardinality(Rows(d, t)) \in Nat
        /\ IsFiniteSet(Owing(d, t)) /\ Cardinality(Owing(d, t)) \in Nat
        /\ accepted[d][t] \in Nat
    BY BookCards DEF KeptInv, Book
  <2>6. IsFiniteSet(Rows(d, t)') /\ Cardinality(Rows(d, t)') \in Nat
    <3>1. Rows(d, t)' \subseteq messages'
      BY DEF Rows, BotRows
    <3> QED
      BY <1>5, <3>1, FS_Subset, FS_CardinalityType
  <2>7. CASE d # c \/ t # text
    <3>1. accepted'[d][t] = accepted[d][t]
      BY <1>8, <2>7
    <3>2. CASE customers'[d].pk = customers[d].pk
      BY <1>5, <2>1, <2>3, <3>1, <3>2, BalanceKept DEF KeptInv
    <3>3. CASE customers'[d].pk # customers[d].pk
      <4>1. Owing(d, t)' = {} /\ accepted'[d][t] = 0
        BY <2>4, <3>1, <3>3
      <4>2. Cardinality(Rows(d, t)') >= accepted'[d][t] + Cardinality(Owing(d, t)')
        BY <2>6, <4>1, FS_EmptySet
      <4> QED
        BY <4>2 DEF Balanced
    <3> QED
      BY <3>2, <3>3
  <2>8. CASE d = c /\ t = text
    <3>1. new \in Rows(c, text)'
      BY <1>2 DEF Rows, BotRows, BotAll
    <3>2. accepted'[d][t] = accepted[d][t] + 1
      BY <1>8, <2>8
    <3>3. CASE customers'[d].pk = customers[d].pk
      <4>1. new \notin Rows(d, t)
        BY <1>2 DEF Rows, BotRows
      <4>2. Cardinality(Rows(d, t) \cup {new}) = Cardinality(Rows(d, t)) + 1
        BY <2>5, <4>1, FS_AddElement
      <4>3. Rows(d, t) \cup {new} \subseteq Rows(d, t)'
        BY <2>3, <2>8, <3>1, <3>3
      <4>4. Cardinality(Rows(d, t)) + 1 <= Cardinality(Rows(d, t)')
        BY <2>6, <4>2, <4>3, FS_Subset
      <4>5. /\ Cardinality(Owing(d, t)') <= Cardinality(Owing(d, t))
            /\ Cardinality(Owing(d, t)') \in Nat
        BY <2>3, <2>5, <3>3, FS_Subset, FS_CardinalityType
      <4>6. Cardinality(Rows(d, t)) >= accepted[d][t] + Cardinality(Owing(d, t))
        BY <2>1 DEF Balanced
      <4>7. Cardinality(Rows(d, t)') >= accepted'[d][t] + Cardinality(Owing(d, t)')
        BY <2>5, <2>6, <3>2, <4>4, <4>5, <4>6
      <4> QED
        BY <4>7 DEF Balanced
    <3>4. CASE customers'[d].pk # customers[d].pk
      <4>1. {new} \subseteq Rows(d, t)' /\ Cardinality({new}) = 1
        BY <2>8, <3>1, FS_Singleton
      <4>2. 1 <= Cardinality(Rows(d, t)')
        BY <2>6, <4>1, FS_Subset
      <4>3. Owing(d, t)' = {} /\ accepted'[d][t] = 1
        BY <2>4, <3>2, <3>4
      <4>4. Cardinality(Rows(d, t)') >= accepted'[d][t] + Cardinality(Owing(d, t)')
        BY <2>6, <4>2, <4>3, FS_EmptySet
      <4> QED
        BY <4>4 DEF Balanced
    <3> QED
      BY <3>3, <3>4
  <2> QED
    BY <2>7, <2>8
<1> QED
  BY <1>9, <1>10 DEF KeptInv

LEMMA ArriveKept ==
  ASSUME Types, Inv, KeptInv, Arrive
  PROVE  KeptInv'
<1>1. ASSUME NEW m \in Msgs, Write(m) \/ EnqueueEvent(m)
      PROVE  KeptInv'
  BY <1>1, StillKept, MovingStill DEF Write, EnqueueEvent, db, history
<1>2. ASSUME NEW w \in Workers, TakeEvent(w) \/ \E m \in Msgs : ReceiveZernio(w, m)
      PROVE  KeptInv'
  <2>1. PICK m : Go(w, [step |-> "dedup", msg |-> m])
    BY <1>2 DEF TakeEvent, ReceiveZernio, Start
  <2>2. Moving
    BY <2>1, MovingGo
  <2>3. UNCHANGED <<db, history>>
    BY <1>2 DEF TakeEvent, ReceiveZernio
  <2> QED
    BY <2>2, <2>3, StillKept DEF db, history
<1> QED
  BY <1>1, <1>2, RemoteGateKept DEF Arrive

LEMMA PollKept ==
  ASSUME Types, KeptInv, Poll
  PROVE  KeptInv'
<1>1. CASE PollList \/ PollReadFails \/ PollMisread \/ PollSkip \/ \E c \in Customers : PollRead(c)
  BY <1>1, StillKept, MovingStill DEF PollList, PollReadFails, PollMisread, PollSkip, PollRead, db,
     history
<1>2. CASE PollTake
  <2>1. Poller \in Workers
    BY DEF Workers
  <2>2. PICK m : Go(Poller, [step |-> "dedup", msg |-> m])
    BY <1>2 DEF PollTake, Start
  <2>3. Moving
    BY <2>1, <2>2, MovingGo
  <2> QED
    BY <1>2, <2>3, StillKept DEF PollTake, db, history
<1> QED
  BY <1>1, <1>2 DEF Poll

(* The rows go with the customer, and with them every claim on them: a     *)
(* reply still on its way severs the customer.                             *)
LEMMA DeleteKept ==
  ASSUME Types, Inv, KeptInv, NEW c0 \in Customers, DeleteCustomer(c0)
  PROVE  KeptInv'
<1>1. /\ customers' = [customers EXCEPT ![c0] = [pk |-> 0, paused |-> FALSE]]
      /\ customers[c0].pk # 0
      /\ messages' = {r \in messages : r.pk # customers[c0].pk}
      /\ accepted' = [accepted EXCEPT ![c0] = Unheard]
      /\ UNCHANGED <<proc, lastPk, lastId>>
  BY DEF DeleteCustomer
<1>2. /\ customers'[c0].pk = 0
      /\ \A d \in Customers \ {c0} : customers'[d].pk = customers[d].pk
  BY <1>1 DEF Types
<1>3. /\ severed \subseteq severed'
      /\ c0 \notin severed' => \A w \in Workers : proc[w].step \in {"send", "pick"} =>
                                                    Sender(w) # c0
  BY DEF DeleteCustomer, Sender, Msg
<1>4. BotAll' = {r \in BotAll : r.pk # customers[c0].pk}
  BY <1>1 DEF BotAll
<1>5. \A r \in BotAll : r.pk \in 1..lastPk /\ r.id \in 1..lastId
  BY DEF KeptInv, Book, Numbered
<1>6. IsFiniteSet(messages')
  <2>1. messages' \subseteq messages
    BY <1>1
  <2> QED
    BY <2>1, FS_Subset DEF KeptInv, Book
<1>7. /\ accepted'[c0] = Unheard
      /\ \A d \in Customers \ {c0} : accepted'[d] = accepted[d]
      /\ accepted' \in [Customers -> [BotTexts -> Nat]]
  BY <1>1 DEF KeptInv, Book, Unheard
<1>8. Numbered'
  BY <1>1, <1>4 DEF KeptInv, Book, Numbered
<1>9. Chosen'
  <2> SUFFICES ASSUME NEW w \in Workers, proc[w].step = "erase" PROVE ChosenBy(w)'
    BY <1>1 DEF Chosen
  <2>1. ChosenBy(w) /\ Sender(w) \in Customers /\ Sender(w)' = Sender(w)
    BY <1>1, MidType DEF KeptInv, Book, Chosen, Sender, Msg
  <2>2. \A r \in BotAll' : r.id = proc'[w].row => r.pk = customers'[Sender(w)].pk
    BY <1>1, <1>2, <1>4, <2>1 DEF ChosenBy
  <2> QED
    BY <1>1, <2>1, <2>2 DEF ChosenBy
<1>10. Reached'
  <2> SUFFICES ASSUME NEW c \in Customers \ severed', customers'[c].pk = 0
               PROVE  /\ \A t \in BotTexts : accepted'[c][t] = 0
                      /\ \A w \in Workers : proc'[w].step \in {"send", "pick"} => Sender(w)' # c
    BY DEF Reached
  <2>1. \A w \in Workers : Sender(w)' = Sender(w)
    BY <1>1 DEF Sender, Msg
  <2>2. CASE c = c0
    BY <1>1, <1>3, <1>7, <2>1, <2>2 DEF Unheard
  <2>3. CASE c # c0
    <3>1. customers[c].pk = 0 /\ c \notin severed /\ accepted'[c] = accepted[c]
      BY <1>2, <1>3, <1>7, <2>3
    <3> QED
      BY <1>1, <2>1, <3>1 DEF KeptInv, Book, Reached
  <2> QED
    BY <2>2, <2>3
<1>11. Book'
  BY <1>6, <1>7, <1>8, <1>9, <1>10 DEF Book
<1>12. ASSUME NEW c \in Customers \ severed', NEW t \in BotTexts
       PROVE  Balanced(c, t)'
  <2>1. CASE c = c0
    <3>1. Rows(c, t)' = {}
      BY <1>2, <1>4, <1>5, <2>1 DEF Rows, BotRows, BotAll
    <3>2. Owing(c, t)' = {}
      <4>1. ASSUME NEW w \in Workers, Owes(w, c, t)' PROVE FALSE
        <5>1. \A v \in Workers : Sender(v)' = Sender(v)
          BY <1>1 DEF Sender, Msg
        <5> QED
          BY <1>1, <1>3, <2>1, <3>1, <4>1, <5>1 DEF Owes
      <4> QED
        BY <4>1 DEF Owing
    <3>3. accepted'[c][t] = 0
      BY <1>7, <2>1 DEF Unheard
    <3>4. Cardinality(Rows(c, t)') >= accepted'[c][t] + Cardinality(Owing(c, t)')
      BY <3>1, <3>2, <3>3, FS_EmptySet
    <3> QED
      BY <3>4 DEF Balanced
  <2>2. CASE c # c0
    <3>1. /\ customers'[c].pk = customers[c].pk
          /\ customers[c].pk # customers[c0].pk
      BY <1>1, <1>2, <2>2 DEF Inv, Keys
    <3>2. Rows(c, t) \subseteq Rows(c, t)'
      BY <1>1, <3>1 DEF Rows, BotRows
    <3>3. \A r \in BotAll' : r \in BotAll \/ r.id > lastId
      BY <1>4
    <3>4. Owing(c, t)' \subseteq Owing(c, t)
      BY <1>1, <3>1, <3>3, OwedBefore DEF Owing, KeptInv, Book
    <3>5. c \in Customers \ severed
      BY <1>3
    <3> QED
      BY <1>6, <1>7, <2>2, <3>2, <3>4, <3>5, BalanceKept DEF KeptInv
  <2> QED
    BY <2>1, <2>2
<1> QED
  BY <1>11, <1>12 DEF KeptInv

LEMMA PanelKept ==
  ASSUME Types, Inv, KeptInv, Panel
  PROVE  KeptInv'
<1>1. CASE ToggleBot \/ ToggleGate
  BY <1>1, StillKept, MovingStill DEF ToggleBot, ToggleGate, db, history
<1>2. ASSUME NEW c \in Customers, TogglePaused(c)
      PROVE  KeptInv'
  <2>1. \A d \in Customers : customers'[d].pk = customers[d].pk
    BY <1>2 DEF TogglePaused, Types
  <2> QED
    BY <1>2, <2>1, StillKept, MovingStill DEF TogglePaused, history
<1>3. ASSUME NEW c \in Customers, LearnFollower(c)
      PROVE  KeptInv'
  BY <1>3, StillKept, MovingStill DEF LearnFollower, db, history
<1> QED
  BY <1>1, <1>2, <1>3, DeleteKept DEF Panel

(* A recorded reply is a row more, and one the worker may take back.       *)
LEMMA RecordKept ==
  ASSUME Types, Inv, KeptInv, NEW w \in Workers, RecordReply(w), Alive(w)
  PROVE  KeptInv'
<1> DEFINE new == [id |-> lastId', pk |-> proc[w].pk, sender |-> "bot",
                   text |-> proc[w].text, at |-> now, by |-> w]
<1> DEFINE work == [step |-> "send", msg |-> Msg(w), pk |-> proc[w].pk,
                    text |-> proc[w].text, tries |-> Attempts]
<1>1. /\ proc[w].step = "record"
      /\ messages' = messages \cup {new}
      /\ lastId' = lastId + 1 /\ lastId \in Nat /\ lastPk \in Nat
      /\ Go(w, work)
      /\ UNCHANGED <<customers, lastPk, accepted, severed>>
  BY DEF RecordReply, At, Continue, world, Types
<1>2. /\ new.id = lastId' /\ new.pk = proc[w].pk /\ new.sender = "bot"
      /\ new.text = proc[w].text
      /\ work.step = "send" /\ work.msg = Msg(w) /\ work.text = proc[w].text
  OBVIOUS
<1> HIDE DEF new, work
<1>3. proc'[w] = work /\ \A v \in Workers \ {w} : proc'[v] = proc[v]
  BY <1>1 DEF Go, Types
<1>4. /\ Sender(w) \in Customers /\ proc[w].text \in BotTexts
      /\ proc[w].pk \in 1..lastPk /\ customers[Sender(w)].pk = proc[w].pk
  BY <1>1, MidType, WorkType DEF Alive, Inv, Keys, Holding
<1>5. BotAll' = BotAll \cup {new}
  BY <1>1, <1>2 DEF BotAll
<1>6. IsFiniteSet(messages')
  BY <1>1, FS_AddElement DEF KeptInv, Book
<1>7. Grown
  BY <1>1, <1>2, <1>4, <1>5, <1>6 DEF Grown
<1>8. Book'
  <2>1. From[proc'[w].msg] = Sender(w)
    BY <1>2, <1>3 DEF Sender
  <2>2. \A v \in Workers : proc'[v].step \in {"send", "pick"} =>
          \/ proc[v].step \in {"send", "pick"} /\ proc'[v].msg = proc[v].msg
          \/ customers'[From[proc'[v].msg]].pk # 0
    BY <1>1, <1>3, <1>4, <2>1
  <2>3. \A v \in Workers : proc'[v].step = "erase" => proc'[v] = proc[v]
    BY <1>2, <1>3
  <2> QED
    BY <1>1, <1>7, <2>2, <2>3, BookKept DEF KeptInv, Book
<1>9. ASSUME NEW c \in Customers \ severed', NEW t \in BotTexts
      PROVE  Balanced(c, t)'
  <2>1. c \in Customers \ severed /\ Balanced(c, t)
    BY <1>1 DEF KeptInv
  <2>2. Rows(c, t) \subseteq Rows(c, t)'
    BY <1>1 DEF Rows, BotRows
  <2>3. \A r \in BotAll' : r \in BotAll \/ r.id > lastId
    BY <1>1, <1>2, <1>5
  <2>4. ASSUME NEW v \in Workers, v # w, Owes(v, c, t)' PROVE Owes(v, c, t)
    BY <1>1, <1>3, <2>3, <2>4, OwedBefore DEF KeptInv, Book
  <2>5. CASE ~(c = Sender(w) /\ t = proc[w].text)
    <3>1. ~Owes(w, c, t)'
      BY <1>2, <1>3, <2>5 DEF Owes, Sender, Msg
    <3>2. Owing(c, t)' \subseteq Owing(c, t)
      BY <2>4, <3>1 DEF Owing
    <3> QED
      BY <1>1, <1>6, <2>1, <2>2, <3>2, BalanceKept DEF KeptInv
  <2>6. CASE c = Sender(w) /\ t = proc[w].text
    <3>1. Rows(c, t)' = Rows(c, t) \cup {new}
      BY <1>1, <1>2, <1>4, <2>6 DEF Rows, BotRows
    <3>2. new \notin Rows(c, t)
      <4>1. \A r \in Rows(c, t) : r.id \in 1..lastId
        BY DEF KeptInv, Book, Numbered, Rows, BotRows, BotAll
      <4> QED
        BY <1>1, <1>2, <4>1
    <3>3. w \notin Owing(c, t)
      BY <1>1 DEF Owing, Owes
    <3>4. Owing(c, t)' \subseteq Owing(c, t) \cup {w}
      BY <2>4 DEF Owing
    <3>5. /\ IsFiniteSet(Rows(c, t)) /\ Cardinality(Rows(c, t)) \in Nat
          /\ IsFiniteSet(Owing(c, t)) /\ Cardinality(Owing(c, t)) \in Nat
      BY BookCards DEF KeptInv, Book
    <3>6. Cardinality(Rows(c, t)') = Cardinality(Rows(c, t)) + 1
      BY <3>1, <3>2, <3>5, FS_AddElement
    <3>7. /\ IsFiniteSet(Owing(c, t) \cup {w})
          /\ Cardinality(Owing(c, t) \cup {w}) = Cardinality(Owing(c, t)) + 1
      BY <3>3, <3>5, FS_AddElement
    <3>8. /\ Cardinality(Owing(c, t)') <= Cardinality(Owing(c, t)) + 1
          /\ Cardinality(Owing(c, t)') \in Nat
      BY <3>4, <3>7, FS_Subset, FS_CardinalityType
    <3>9. accepted[c][t] \in Nat /\ accepted'[c][t] = accepted[c][t]
      BY <1>1 DEF KeptInv, Book
    <3>10. Cardinality(Rows(c, t)) >= accepted[c][t] + Cardinality(Owing(c, t))
      BY <2>1 DEF Balanced
    <3>11. Cardinality(Rows(c, t)') >= accepted'[c][t] + Cardinality(Owing(c, t)')
      BY <3>5, <3>6, <3>8, <3>9, <3>10
    <3> QED
      BY <3>11 DEF Balanced
  <2> QED
    BY <2>5, <2>6
<1> QED
  BY <1>8, <1>9 DEF KeptInv

(* Acceptance turns the worker's claim into an accepted reply.             *)
LEMMA AcceptKept ==
  ASSUME Types, Inv, KeptInv, NEW w \in Workers, SendAccepted(w), Alive(w)
  PROVE  KeptInv'
<1>1. /\ proc[w].step = "send"
      /\ Go(w, Idle)
      /\ accepted' = [accepted EXCEPT ![Sender(w)][proc[w].text] = @ + 1]
      /\ UNCHANGED <<customers, lastPk, lastId, messages, severed>>
  BY DEF SendAccepted, At, Finish, around
<1>2. proc'[w] = Idle /\ \A v \in Workers \ {w} : proc'[v] = proc[v]
  BY <1>1 DEF Go, Types
<1>3. /\ Sender(w) \in Customers /\ proc[w].text \in BotTexts
  BY <1>1, MidType, WorkType
<1>4. /\ accepted' \in [Customers -> [BotTexts -> Nat]]
      /\ accepted'[Sender(w)][proc[w].text] = accepted[Sender(w)][proc[w].text] + 1
      /\ \A c \in Customers, t \in BotTexts : c # Sender(w) \/ t # proc[w].text =>
           accepted'[c][t] = accepted[c][t]
      /\ \A c \in Customers : c # Sender(w) => accepted'[c] = accepted[c]
  BY <1>1, <1>3, OneMoreAccepted DEF KeptInv, Book
<1>5. IsFiniteSet(messages') /\ BotAll' = BotAll
  BY <1>1 DEF KeptInv, Book, BotAll
<1>6. Grown
  BY <1>1, <1>5 DEF Grown, Types
<1>7. \A v \in Workers : proc'[v].step \in {"send", "pick", "erase"} =>
                           v # w /\ proc'[v] = proc[v]
  BY <1>2 DEF Idle
<1>8. ASSUME NEW c \in Customers \ severed', NEW t \in BotTexts
      PROVE  Balanced(c, t)'
  <2>1. c \in Customers \ severed /\ Balanced(c, t)
    BY <1>1 DEF KeptInv
  <2>2. Rows(c, t)' = Rows(c, t)
    BY <1>1 DEF Rows, BotRows
  <2>3. ASSUME NEW v \in Workers, Owes(v, c, t)' PROVE v # w /\ Owes(v, c, t)
    <3>1. v # w /\ proc'[v] = proc[v]
      BY <1>7, <2>3 DEF Owes
    <3> QED
      BY <1>1, <1>5, <2>3, <3>1, OwedBefore DEF KeptInv, Book
  <2>4. Owing(c, t)' \subseteq Owing(c, t) \ {w}
    BY <2>3 DEF Owing
  <2>5. CASE c # Sender(w) \/ t # proc[w].text
    <3>1. accepted'[c][t] = accepted[c][t]
      BY <1>4, <2>5
    <3> QED
      BY <1>5, <2>1, <2>2, <2>4, <3>1, BalanceKept DEF KeptInv
  <2>6. CASE c = Sender(w) /\ t = proc[w].text
    <3>1. w \in Owing(c, t)
      BY <1>1, <2>6 DEF Owing, Owes
    <3>2. /\ IsFiniteSet(Rows(c, t)) /\ Cardinality(Rows(c, t)) \in Nat
          /\ IsFiniteSet(Owing(c, t)) /\ Cardinality(Owing(c, t)) \in Nat
      BY BookCards DEF KeptInv, Book
    <3>3. /\ IsFiniteSet(Owing(c, t) \ {w})
          /\ Cardinality(Owing(c, t) \ {w}) = Cardinality(Owing(c, t)) - 1
      BY <3>1, <3>2, FS_RemoveElement
    <3>4. /\ Cardinality(Owing(c, t)') <= Cardinality(Owing(c, t)) - 1
          /\ Cardinality(Owing(c, t)') \in Nat
      BY <2>4, <3>3, FS_Subset, FS_CardinalityType
    <3>5. accepted[c][t] \in Nat /\ accepted'[c][t] = accepted[c][t] + 1
      BY <1>4, <2>6 DEF KeptInv, Book
    <3>6. Cardinality(Rows(c, t)) >= accepted[c][t] + Cardinality(Owing(c, t))
      BY <2>1 DEF Balanced
    <3>7. Cardinality(Rows(c, t)') >= accepted'[c][t] + Cardinality(Owing(c, t)')
      BY <2>2, <3>2, <3>4, <3>5, <3>6
    <3> QED
      BY <3>7 DEF Balanced
  <2> QED
    BY <2>5, <2>6
<1>9. Book'
  <2>1. CASE Sender(w) \notin severed
    <3>1. customers[Sender(w)].pk # 0
      BY <1>1, <1>3, <2>1 DEF KeptInv, Book, Reached
    <3>2. \A c \in Customers : customers'[c].pk = 0 => accepted'[c] = accepted[c]
      BY <1>1, <1>4, <3>1
    <3> QED
      BY <1>4, <1>6, <1>7, <3>2, BookKept DEF KeptInv
  <2>2. CASE Sender(w) \in severed
    <3>1. Numbered' /\ Chosen'
      BY <1>1, <1>5, <1>7 DEF KeptInv, Book, Numbered, Chosen, ChosenBy, Sender, Msg
    <3>2. ASSUME NEW c \in Customers \ severed', customers'[c].pk = 0
          PROVE  /\ \A t \in BotTexts : accepted'[c][t] = 0
                 /\ \A v \in Workers : proc'[v].step \in {"send", "pick"} => Sender(v)' # c
      <4>1. c \in Customers \ severed /\ customers[c].pk = 0 /\ c # Sender(w)
        BY <1>1, <2>2, <3>2
      <4>2. /\ \A t \in BotTexts : accepted[c][t] = 0
            /\ \A v \in Workers : proc[v].step \in {"send", "pick"} => Sender(v) # c
        BY <4>1 DEF KeptInv, Book, Reached
      <4>3. accepted'[c] = accepted[c]
        BY <1>4, <4>1
      <4>4. ASSUME NEW v \in Workers, proc'[v].step \in {"send", "pick"}
            PROVE  Sender(v)' # c
        <5>1. proc'[v] = proc[v]
          BY <1>7, <4>4
        <5> QED
          BY <4>2, <4>4, <5>1 DEF Sender, Msg
      <4> QED
        BY <4>2, <4>3, <4>4
    <3>3. Reached'
      BY <3>2 DEF Reached
    <3> QED
      BY <1>4, <1>5, <3>1, <3>3 DEF Book
  <2> QED
    BY <2>1, <2>2
<1> QED
  BY <1>8, <1>9 DEF KeptInv

(* Whoever picks a row keeps the claim it had as a failed sender.          *)
LEMMA PickKept ==
  ASSUME Types, Inv, KeptInv, NEW w \in Workers, PickUnsent(w), ~Finish(w)
  PROVE  KeptInv'
<1>1. /\ proc[w].step = "pick"
      /\ UNCHANGED <<customers, lastPk, lastId, messages, accepted, severed>>
  BY DEF PickUnsent, At, around
<1>2. PICK r \in Droppable(w) : Go(w, [step |-> "erase", msg |-> Msg(w), row |-> r.id])
  BY DEF PickUnsent, Continue
<1>3. /\ proc'[w].step = "erase" /\ proc'[w].msg = Msg(w) /\ proc'[w].row = r.id
      /\ \A v \in Workers \ {w} : proc'[v] = proc[v]
  BY <1>2 DEF Go, Types
<1>4. r \in BotAll /\ r.pk = customers[Sender(w)].pk /\ r.text = proc[w].text
  BY DEF Droppable, BotRows, BotAll
<1>5. IsFiniteSet(messages') /\ BotAll' = BotAll
  BY <1>1 DEF KeptInv, Book, BotAll
<1>6. Grown
  BY <1>1, <1>5 DEF Grown, Types
<1>7. ChosenBy(w)'
  <2>1. Sender(w)' = Sender(w)
    BY <1>3 DEF Sender, Msg
  <2>2. r.id <= lastId /\ \A s \in BotAll : s.id = r.id => s = r
    BY <1>4 DEF KeptInv, Book, Numbered
  <2> QED
    BY <1>1, <1>3, <1>4, <1>5, <2>1, <2>2 DEF ChosenBy
<1>8. Book'
  <2>1. /\ \A v \in Workers : proc'[v].step = "erase" => proc'[v] = proc[v] \/ ChosenBy(v)'
        /\ \A v \in Workers : proc'[v].step \in {"send", "pick"} => proc'[v] = proc[v]
    BY <1>3, <1>7
  <2> QED
    BY <1>1, <1>6, <2>1, BookKept DEF KeptInv, Book
<1>9. ASSUME NEW c \in Customers \ severed', NEW t \in BotTexts
      PROVE  Balanced(c, t)'
  <2>1. c \in Customers \ severed /\ Balanced(c, t)
    BY <1>1 DEF KeptInv
  <2>2. Rows(c, t)' = Rows(c, t)
    BY <1>1 DEF Rows, BotRows
  <2>3. ASSUME NEW v \in Workers, v # w, Owes(v, c, t)' PROVE Owes(v, c, t)
    BY <1>1, <1>3, <1>5, <2>3, OwedBefore DEF KeptInv, Book
  <2>4. ASSUME Owes(w, c, t)' PROVE Owes(w, c, t)
    <3>1. Sender(w)' = Sender(w) /\ Sender(w) = c
      BY <1>3, <2>4 DEF Owes, Sender, Msg
    <3>2. PICK s \in Rows(c, t) : s.id = r.id
      BY <1>3, <2>2, <2>4 DEF Owes
    <3>3. s \in BotAll /\ s.text = t
      BY DEF Rows, BotRows, BotAll
    <3>4. s = r
      BY <1>4, <3>2, <3>3 DEF KeptInv, Book, Numbered
    <3> QED
      BY <1>1, <1>4, <3>1, <3>3, <3>4 DEF Owes
  <2>5. Owing(c, t)' \subseteq Owing(c, t)
    BY <2>3, <2>4 DEF Owing
  <2> QED
    BY <1>1, <1>5, <2>1, <2>2, <2>5, BalanceKept DEF KeptInv
<1> QED
  BY <1>8, <1>9 DEF KeptInv

(* The row goes, and with it the claims of all who had picked it.          *)
LEMMA EraseKept ==
  ASSUME Types, Inv, KeptInv, NEW w \in Workers, EraseUnsent(w)
  PROVE  KeptInv'
<1>1. /\ proc[w].step = "erase"
      /\ messages' = {r \in messages : r.sender = "bot" => r.id # proc[w].row}
      /\ Go(w, Idle)
      /\ UNCHANGED <<customers, lastPk, lastId, accepted, severed>>
  BY DEF EraseUnsent, At, Finish, around
<1>2. proc'[w] = Idle /\ \A v \in Workers \ {w} : proc'[v] = proc[v]
  BY <1>1 DEF Go, Types
<1>3. BotAll' = {r \in BotAll : r.id # proc[w].row}
  BY <1>1 DEF BotAll
<1>4. IsFiniteSet(messages')
  <2>1. messages' \subseteq messages
    BY <1>1
  <2> QED
    BY <2>1, FS_Subset DEF KeptInv, Book
<1>5. Grown
  BY <1>1, <1>3, <1>4 DEF Grown, Types
<1>6. \A v \in Workers : proc'[v].step \in {"send", "pick", "erase"} =>
                           v # w /\ proc'[v] = proc[v]
  BY <1>2 DEF Idle
<1>7. Book'
  BY <1>1, <1>5, <1>6, BookKept DEF KeptInv, Book
<1>8. Sender(w) \in Customers /\ ChosenBy(w)
  BY <1>1, MidType DEF KeptInv, Book, Chosen
<1>9. ASSUME NEW c \in Customers \ severed', NEW t \in BotTexts
      PROVE  Balanced(c, t)'
  <2>1. c \in Customers \ severed /\ Balanced(c, t)
    BY <1>1 DEF KeptInv
  <2>2. Rows(c, t)' = {r \in Rows(c, t) : r.id # proc[w].row}
    BY <1>1 DEF Rows, BotRows
  <2>3. ASSUME NEW v \in Workers, Owes(v, c, t)' PROVE v # w /\ Owes(v, c, t)
    <3>1. v # w /\ proc'[v] = proc[v]
      BY <1>6, <2>3 DEF Owes
    <3> QED
      BY <1>1, <1>3, <2>3, <3>1, OwedBefore DEF KeptInv, Book
  <2>4. Owing(c, t)' \subseteq Owing(c, t) \ {w}
    BY <2>3 DEF Owing
  <2>5. CASE \A r \in Rows(c, t) : r.id # proc[w].row
    BY <1>1, <1>4, <2>1, <2>2, <2>4, <2>5, BalanceKept DEF KeptInv
  <2>6. CASE \E r \in Rows(c, t) : r.id = proc[w].row
    <3>1. PICK r \in Rows(c, t) : r.id = proc[w].row
      BY <2>6
    <3>2. r \in BotAll /\ r.pk = customers[c].pk
      BY DEF Rows, BotRows, BotAll
    <3>3. r.pk = customers[Sender(w)].pk /\ r.pk # 0
      BY <1>8, <3>1, <3>2 DEF ChosenBy, KeptInv, Book, Numbered
    <3>4. Sender(w) = c
      BY <1>8, <3>2, <3>3 DEF Inv, Keys
    <3>5. w \in Owing(c, t)
      BY <1>1, <2>6, <3>4 DEF Owing, Owes
    <3>6. \A s \in Rows(c, t) : s.id = r.id => s = r
      BY <3>2 DEF KeptInv, Book, Numbered, Rows, BotRows, BotAll
    <3>7. Rows(c, t)' = Rows(c, t) \ {r}
      BY <2>2, <3>1, <3>6
    <3>8. /\ IsFiniteSet(Rows(c, t)) /\ Cardinality(Rows(c, t)) \in Nat
          /\ IsFiniteSet(Owing(c, t)) /\ Cardinality(Owing(c, t)) \in Nat
      BY BookCards DEF KeptInv, Book
    <3>9. Cardinality(Rows(c, t)') = Cardinality(Rows(c, t)) - 1
      BY <3>1, <3>7, <3>8, FS_RemoveElement
    <3>10. /\ IsFiniteSet(Owing(c, t) \ {w})
           /\ Cardinality(Owing(c, t) \ {w}) = Cardinality(Owing(c, t)) - 1
      BY <3>5, <3>8, FS_RemoveElement
    <3>11. /\ Cardinality(Owing(c, t)') <= Cardinality(Owing(c, t)) - 1
           /\ Cardinality(Owing(c, t)') \in Nat
      BY <2>4, <3>10, FS_Subset, FS_CardinalityType
    <3>12. accepted[c][t] \in Nat /\ accepted'[c][t] = accepted[c][t]
      BY <1>1 DEF KeptInv, Book
    <3>13. Cardinality(Rows(c, t)) >= accepted[c][t] + Cardinality(Owing(c, t))
      BY <2>1 DEF Balanced
    <3>14. Cardinality(Rows(c, t)') >= accepted'[c][t] + Cardinality(Owing(c, t)')
      BY <3>8, <3>9, <3>11, <3>12, <3>13
    <3> QED
      BY <3>14 DEF Balanced
  <2> QED
    BY <2>5, <2>6
<1> QED
  BY <1>7, <1>9 DEF KeptInv

(* Steps of a call that neither record a reply nor send or take one back.  *)
Plain(w) ==
  \/ KnownMessage(w) \/ NewMessage(w) \/ FindCustomer(w) \/ CreateCustomer(w)
  \/ RenameCustomer(w) \/ StoreMessage(w) \/ StoreRefused(w) \/ Decide(w)
  \/ (RecordReply(w) /\ ~Alive(w))

Aside(w) == /\ proc[w].step \notin {"send", "pick", "erase"}
            /\ \E work : Go(w, work) /\ work.step \notin {"send", "pick", "erase"}

LEMMA AsideEnds ==
  ASSUME NEW w \in Workers, proc[w].step \notin {"send", "pick", "erase"},
         Finish(w) \/ \E b : Raise(w, b)
  PROVE  Aside(w)
<1>1. Go(w, Idle) /\ Idle.step = "idle"
  BY DEF Finish, Raise, Idle
<1> QED
  BY <1>1 DEF Aside

LEMMA PlainAside ==
  ASSUME Types, NEW w \in Workers, Plain(w)
  PROVE  Aside(w)
<1>0. proc[w].step \notin {"send", "pick", "erase"}
  BY DEF Plain, KnownMessage, NewMessage, FindCustomer, CreateCustomer, RenameCustomer,
         StoreMessage, StoreRefused, Decide, RecordReply, At
<1>1. CASE KnownMessage(w) \/ StoreRefused(w) \/ (RecordReply(w) /\ ~Alive(w))
  BY <1>0, <1>1, AsideEnds DEF KnownMessage, StoreRefused, RecordReply
<1>2. CASE NewMessage(w)
  BY <1>0, <1>2 DEF NewMessage, Continue, Aside
<1>3. CASE FindCustomer(w)
  <2>1. CASE Continue(w, [step |-> "create", msg |-> Msg(w)])
    BY <1>0, <2>1 DEF Continue, Aside
  <2>2. ASSUME NEW next \in {"store", "rename"},
               Continue(w, [step |-> next, msg |-> Msg(w), pk |-> customers[Sender(w)].pk])
        PROVE  Aside(w)
    BY <1>0, <2>2 DEF Continue, Aside
  <2> QED
    BY <1>3, <2>1, <2>2 DEF FindCustomer
<1>4. CASE CreateCustomer(w)
  <2>1. CASE Continue(w, [step |-> "store", msg |-> Msg(w), pk |-> lastPk + 1])
    BY <1>0, <2>1 DEF Continue, Aside
  <2>2. CASE Raise(w, TRUE)
    BY <1>0, <2>2, AsideEnds
  <2> QED
    BY <1>4, <2>1, <2>2 DEF CreateCustomer
<1>5. CASE RenameCustomer(w)
  <2>1. CASE Alive(w)
    <3>1. Go(w, [proc[w] EXCEPT !.step = "store"])
      BY <1>5, <2>1 DEF RenameCustomer, Continue
    <3>2. proc[w] \in [step : {"rename", "store", "decide"}, msg : Msgs, pk : Nat]
      BY <1>5 DEF RenameCustomer, At, Types, Work
    <3>3. [proc[w] EXCEPT !.step = "store"].step = "store"
      BY <3>2
    <3> QED
      BY <1>0, <3>1, <3>3 DEF Aside
  <2>2. CASE ~Alive(w)
    BY <1>0, <1>5, <2>2, AsideEnds DEF RenameCustomer
  <2> QED
    BY <2>1, <2>2
<1>6. CASE StoreMessage(w)
  <2>1. Go(w, [proc[w] EXCEPT !.step = "decide"])
    BY <1>6 DEF StoreMessage, Continue
  <2>2. proc[w] \in [step : {"rename", "store", "decide"}, msg : Msgs, pk : Nat]
    BY <1>6 DEF StoreMessage, At, Types, Work
  <2>3. [proc[w] EXCEPT !.step = "decide"].step = "decide"
    BY <2>2
  <2> QED
    BY <1>0, <2>1, <2>3 DEF Aside
<1>7. CASE Decide(w)
  <2>1. CASE Finish(w) \/ Raise(w, FALSE)
    BY <1>0, <2>1, AsideEnds
  <2>2. ASSUME NEW text, Continue(w, [step |-> "record", msg |-> Msg(w), pk |-> proc[w].pk,
                                      text |-> text])
        PROVE  Aside(w)
    BY <1>0, <2>2 DEF Continue, Aside
  <2> QED
    BY <1>7, <2>1, <2>2 DEF Decide
<1> QED
  BY <1>1, <1>2, <1>3, <1>4, <1>5, <1>6, <1>7 DEF Plain

LEMMA PlainKeeps ==
  ASSUME Types, IsFiniteSet(messages), NEW w \in Workers, Plain(w)
  PROVE  /\ BotAll' = BotAll /\ IsFiniteSet(messages')
         /\ lastId' \in {lastId, lastId + 1} /\ lastPk' \in {lastPk, lastPk + 1}
         /\ \A c \in Customers : \/ customers'[c].pk = customers[c].pk
                                 \/ customers[c].pk = 0 /\ customers'[c].pk = lastPk + 1
         /\ UNCHANGED <<severed, accepted, haunted>>
<1>0. UNCHANGED <<severed, accepted, haunted>>
  BY DEF Plain, KnownMessage, NewMessage, FindCustomer, CreateCustomer, RenameCustomer,
         StoreMessage, StoreRefused, Decide, RecordReply, world
<1>1. CASE \/ KnownMessage(w) \/ NewMessage(w) \/ FindCustomer(w) \/ RenameCustomer(w)
           \/ StoreRefused(w) \/ Decide(w) \/ (RecordReply(w) /\ ~Alive(w))
  <2>1. UNCHANGED <<customers, lastPk, messages, lastId>>
    BY <1>1 DEF KnownMessage, NewMessage, FindCustomer, RenameCustomer, StoreRefused,
                Decide, RecordReply, db
  <2> QED
    BY <1>0, <2>1 DEF BotAll
<1>2. CASE CreateCustomer(w)
  <2>1. Sender(w) \in Customers
    BY <1>2, MidType DEF CreateCustomer, At
  <2>2. UNCHANGED <<messages, lastId>>
    BY <1>2 DEF CreateCustomer
  <2>3. BotAll' = BotAll
    BY <2>2 DEF BotAll
  <2>4. CASE customers[Sender(w)].pk = 0
    <3>1. /\ lastPk' = lastPk + 1
          /\ customers' = [customers EXCEPT ![Sender(w)] = [pk |-> lastPk + 1,
                                                            paused |-> FALSE]]
      BY <1>2, <2>4 DEF CreateCustomer
    <3>2. \A c \in Customers : \/ customers'[c].pk = customers[c].pk
                               \/ customers[c].pk = 0 /\ customers'[c].pk = lastPk + 1
      BY <2>1, <2>4, <3>1 DEF Types
    <3> QED
      BY <1>0, <2>2, <2>3, <3>1, <3>2
  <2>5. CASE customers[Sender(w)].pk # 0
    BY <1>0, <1>2, <2>2, <2>3, <2>5 DEF CreateCustomer
  <2> QED
    BY <2>4, <2>5
<1>3. CASE StoreMessage(w)
  <2> DEFINE new == [id |-> lastId', pk |-> proc[w].pk, sender |-> "customer",
                     text |-> Msg(w), mid |-> OwnMid(w)]
  <2>1. /\ messages' = messages \cup {new}
        /\ lastId' = lastId + 1
        /\ UNCHANGED <<customers, lastPk>>
    BY <1>3 DEF StoreMessage
  <2>2. new.sender # "bot"
    OBVIOUS
  <2> HIDE DEF new
  <2>3. BotAll' = BotAll
    BY <2>1, <2>2 DEF BotAll
  <2>4. IsFiniteSet(messages')
    BY <2>1, FS_AddElement
  <2> QED
    BY <1>0, <2>1, <2>3, <2>4
<1> QED
  BY <1>1, <1>2, <1>3 DEF Plain

(* A failed send is tried again or given up.                               *)
LEMMA FailedSend ==
  ASSUME Types, NEW w \in Workers, SendFails(w) \/ NoConversation(w)
  PROVE  /\ proc[w].step = "send" /\ proc'[w].step \in {"send", "pick"}
         /\ proc'[w].msg = proc[w].msg /\ proc'[w].text = proc[w].text
         /\ proc'[w].step = "send" => proc'[w].pk = proc[w].pk
         /\ \A v \in Workers \ {w} : proc'[v] = proc[v]
         /\ UNCHANGED <<customers, messages, lastId, lastPk, severed, accepted, haunted>>
<1>1. /\ proc[w].step = "send"
      /\ UNCHANGED <<customers, messages, lastId, lastPk, severed, accepted, haunted>>
  BY DEF SendFails, NoConversation, At, around
<1>2. PICK work : /\ Go(w, work) /\ work.step \in {"send", "pick"}
                  /\ work.msg = proc[w].msg /\ work.text = proc[w].text
                  /\ work.step = "send" => work.pk = proc[w].pk
  <2>1. CASE Continue(w, [step |-> "pick", msg |-> Msg(w), text |-> proc[w].text])
    BY <2>1 DEF Continue, Msg
  <2>2. CASE Continue(w, [proc[w] EXCEPT !.tries = @ - 1])
    <3>1. proc[w] \in [step : {"send"}, msg : Msgs, pk : Nat, text : BotTexts, tries : Nat]
      BY <1>1 DEF Types, Work
    <3> DEFINE again == [proc[w] EXCEPT !.tries = @ - 1]
    <3>2. /\ again.step = "send" /\ again.msg = proc[w].msg /\ again.text = proc[w].text
          /\ again.pk = proc[w].pk
      BY <3>1
    <3>3. Go(w, again)
      BY <2>2 DEF Continue
    <3> HIDE DEF again
    <3> QED
      BY <3>2, <3>3
  <2> QED
    BY <2>1, <2>2 DEF SendFails, NoConversation
<1>3. proc'[w] = work /\ \A v \in Workers \ {w} : proc'[v] = proc[v]
  BY <1>2 DEF Go, Types
<1> QED
  BY <1>1, <1>2, <1>3

LEMMA ProcessKept ==
  ASSUME Types, Inv, KeptInv, NEW w \in Workers, Process(w)
  PROVE  KeptInv'
<1>1. CASE Plain(w)
  <2>1. Moving
    BY <1>1, PlainAside, MovingGo DEF Aside
  <2> QED
    BY <1>1, <2>1, PlainKeeps, QuietKept DEF KeptInv, Book
<1>2. CASE RecordReply(w) /\ Alive(w)
  BY <1>2, RecordKept
<1>3. CASE SendAccepted(w)
  <2>1. CASE ~Alive(w)
    BY <1>3, <2>1, MovingFinish, StillKept DEF SendAccepted, around
  <2> QED
    BY <1>3, <2>1, AcceptKept
<1>4. CASE SendFails(w) \/ NoConversation(w)
  <2>1. Moving
    BY <1>4, FailedSend DEF Moving
  <2> QED
    BY <1>4, <2>1, FailedSend, StillKept
<1>5. CASE PickUnsent(w)
  <2>1. CASE Finish(w)
    BY <1>5, <2>1, MovingFinish, StillKept DEF PickUnsent, around
  <2> QED
    BY <1>5, <2>1, PickKept
<1> QED
  BY <1>1, <1>2, <1>3, <1>4, <1>5, EraseKept DEF Process, Plain

LEMMA KeptStep == Types /\ Inv /\ KeptInv /\ [Next]_vars => KeptInv'
<1> SUFFICES ASSUME Types, Inv, KeptInv, [Next]_vars
             PROVE  KeptInv'
  OBVIOUS
<1>1. CASE Tick
  BY <1>1, StillKept, MovingStill DEF Tick, db, history
<1>2. CASE Restart
  <2>1. Moving
    BY <1>2 DEF Restart, Moving, Idle
  <2> QED
    BY <1>2, <2>1, StillKept DEF Restart, db, history
<1>3. CASE UNCHANGED vars
  BY <1>3, StillKept, MovingStill DEF vars, db, history
<1> QED
  BY <1>1, <1>2, <1>3, PanelKept, ArriveKept, PollKept, ProcessKept DEF Next

LEMMA KeptFact == KeptInv => AcceptedAreKept
<1> SUFFICES ASSUME KeptInv, NEW c \in Customers \ severed, NEW t \in BotTexts
             PROVE  Cardinality(Rows(c, t)) >= accepted[c][t]
  BY DEF AcceptedAreKept, Rows
<1>1. /\ Cardinality(Rows(c, t)) \in Nat /\ Cardinality(Owing(c, t)) \in Nat
  BY BookCards DEF KeptInv, Book
<1>2. Cardinality(Rows(c, t)) >= accepted[c][t] + Cardinality(Owing(c, t))
  BY DEF KeptInv, Balanced
<1>3. accepted[c][t] \in Nat
  BY DEF KeptInv, Book
<1> QED
  BY <1>1, <1>2, <1>3

(* However many replies fail at once and whichever rows their workers take *)
(* back, the rows left account for every reply Instagram accepted, unless  *)
(* the customer was deleted while a reply was on its way.                  *)
THEOREM RepliesAreAccounted == Spec => []AcceptedAreKept
<1>1. Init => Types /\ Inv /\ KeptInv
  BY TypesInit, InvInit, KeptInit
<1>2. Types /\ Inv /\ KeptInv /\ [Next]_vars => (Types /\ Inv /\ KeptInv)'
  BY TypesStep, InvStep, KeptStep
<1> QED
  BY <1>1, <1>2, KeptFact, PTL DEF Spec

-----------------------------------------------------------------------------
(* Unsent replies.  The same counts from above: a row is paid for by an    *)
(* accepted reply or by the worker that has it under way, unless two       *)
(* workers take the same row back, or none does.                           *)
Coming(c, t) == {w \in Workers : UnderWay(w, c, t)}

Covered(c, t) == Cardinality(Rows(c, t)) <= accepted[c][t] + Cardinality(Coming(c, t))

(* No two workers take back the same row of a customer, except a haunted one. *)
Lone == \A c \in Customers \ haunted, v, w \in Workers :
          (v # w /\ At(v, "erase") /\ At(w, "erase") /\ proc[v].row = proc[w].row)
          => \A r \in BotAll : r.id = proc[w].row => r.pk # customers[c].pk

GhostInv == Lone /\ \A c \in Customers \ haunted, t \in BotTexts : Covered(c, t)

LEMMA ComingCards ==
  ASSUME NEW c, NEW t
  PROVE  IsFiniteSet(Coming(c, t)) /\ Cardinality(Coming(c, t)) \in Nat
<1>1. Coming(c, t) \subseteq Workers
  BY DEF Coming
<1> QED
  BY <1>1, WorkersFinite, FS_Subset, FS_CardinalityType

LEMMA ComingCardsNext ==
  ASSUME NEW c, NEW t
  PROVE  IsFiniteSet(Coming(c, t)') /\ Cardinality(Coming(c, t)') \in Nat
<1>1. Coming(c, t)' \subseteq Workers
  BY DEF Coming
<1> QED
  BY <1>1, WorkersFinite, FS_Subset, FS_CardinalityType

LEMMA GhostInit == Init => GhostInv
<1> SUFFICES ASSUME Init PROVE GhostInv
  OBVIOUS
<1>1. Lone
  BY DEF Init, Lone, At, Idle
<1>2. ASSUME NEW c \in Customers, NEW t \in BotTexts PROVE Covered(c, t)
  <2>1. Rows(c, t) = {} /\ accepted[c][t] = 0
    BY <1>2 DEF Init, Unheard, Rows, BotRows
  <2> QED
    BY <2>1, ComingCards, FS_EmptySet DEF Covered
<1> QED
  BY <1>1, <1>2 DEF GhostInv

(* Rows that go and replies that come leave the rows covered.              *)
LEMMA CoverKept ==
  ASSUME Book, NEW c \in Customers, NEW t \in BotTexts, Covered(c, t),
         Rows(c, t)' \subseteq Rows(c, t), accepted'[c][t] = accepted[c][t],
         \A w \in Workers : UnderWay(w, c, t) => UnderWay(w, c, t)'
  PROVE  Covered(c, t)'
<1>1. /\ IsFiniteSet(Rows(c, t)) /\ Cardinality(Rows(c, t)) \in Nat
      /\ accepted[c][t] \in Nat
  BY BookCards DEF Book
<1>2. /\ Cardinality(Rows(c, t)') <= Cardinality(Rows(c, t))
      /\ Cardinality(Rows(c, t)') \in Nat
  BY <1>1, FS_Subset, FS_CardinalityType
<1>3. Coming(c, t) \subseteq Coming(c, t)'
  BY DEF Coming
<1>4. /\ Cardinality(Coming(c, t)) <= Cardinality(Coming(c, t)')
      /\ Cardinality(Coming(c, t)) \in Nat /\ Cardinality(Coming(c, t)') \in Nat
  BY <1>3, ComingCards, ComingCardsNext, FS_Subset
<1>5. Cardinality(Rows(c, t)) <= accepted[c][t] + Cardinality(Coming(c, t))
  BY DEF Covered
<1>6. Cardinality(Rows(c, t)') <= accepted'[c][t] + Cardinality(Coming(c, t)')
  BY <1>1, <1>2, <1>4, <1>5
<1> QED
  BY <1>6 DEF Covered

LEMMA NoRowsCovered ==
  ASSUME NEW c \in Customers, NEW t \in BotTexts, Rows(c, t)' = {}, accepted'[c][t] \in Nat
  PROVE  Covered(c, t)'
<1>1. Cardinality(Rows(c, t)') = 0 /\ Cardinality(Coming(c, t)') \in Nat
  BY ComingCardsNext, FS_EmptySet
<1>2. Cardinality(Rows(c, t)') <= accepted'[c][t] + Cardinality(Coming(c, t)')
  BY <1>1
<1> QED
  BY <1>2 DEF Covered

(* A worker goes on with a reply under way.                                *)
LEMMA StaysUnderWay ==
  ASSUME NEW w \in Workers, NEW c \in Customers, NEW t \in BotTexts, UnderWay(w, c, t),
         customers'[c].pk = customers[c].pk,
         \/ /\ proc'[w] = proc[w]
            /\ At(w, "erase") => \A r \in Rows(c, t) : r.id = proc[w].row => r \in messages'
         \/ /\ proc[w].step = "send" /\ proc'[w].step \in {"send", "pick"}
            /\ proc'[w].msg = proc[w].msg /\ proc'[w].text = proc[w].text
            /\ proc'[w].step = "send" => proc'[w].pk = proc[w].pk
  PROVE  UnderWay(w, c, t)'
<1>1. Sender(w) = c /\ Sender(w)' = c
  BY DEF UnderWay, Sender, Msg
<1>2. CASE proc'[w] = proc[w] /\ proc[w].step = "erase"
  <2>1. PICK r \in Rows(c, t) : r.id = proc[w].row
    BY <1>2 DEF UnderWay, At, Rows
  <2>2. r \in BotRows(customers[c].pk, {t})'
    BY <1>2, <2>1 DEF Rows, BotRows, At
  <2> QED
    BY <1>1, <1>2, <2>1, <2>2 DEF UnderWay, Replying, At
<1>3. CASE proc'[w] = proc[w] /\ proc[w].step # "erase"
  BY <1>1, <1>3 DEF UnderWay, Replying, At, Alive
<1>4. CASE /\ proc[w].step = "send" /\ proc'[w].step \in {"send", "pick"}
           /\ proc'[w].text = proc[w].text
           /\ proc'[w].step = "send" => proc'[w].pk = proc[w].pk
  BY <1>1, <1>4 DEF UnderWay, Replying, At, Alive
<1> QED
  BY <1>2, <1>3, <1>4

LEMMA LoneKept ==
  ASSUME Types, Book, Lone, Grown, haunted \subseteq haunted',
         \A w \in Workers : At(w, "erase")' => proc'[w] = proc[w]
  PROVE  Lone'
<1> SUFFICES ASSUME NEW c \in Customers \ haunted', NEW v \in Workers, NEW w \in Workers, v # w,
                    At(v, "erase")', At(w, "erase")', proc'[v].row = proc'[w].row,
                    NEW r \in BotAll', r.id = proc'[w].row
             PROVE  r.pk # customers'[c].pk
  BY DEF Lone
<1>1. proc'[v] = proc[v] /\ proc'[w] = proc[w] /\ At(v, "erase") /\ At(w, "erase")
  BY DEF At
<1>2. proc[w].row <= lastId /\ proc[w].row \in Nat
  BY <1>1, WorkType DEF Book, Chosen, ChosenBy, At
<1>3. r \in BotAll
  BY <1>1, <1>2 DEF Grown
<1>4. r.pk # customers[c].pk
  BY <1>1, <1>3 DEF Lone
<1>5. r.pk \in 1..lastPk
  BY <1>3 DEF Book, Numbered
<1> QED
  BY <1>4, <1>5 DEF Grown

(* Workers come to nothing that was under way and drop nothing of it.      *)
Steady == \A w \in Workers :
            \/ proc'[w] = proc[w]
            \/ /\ proc[w].step \notin {"send", "pick", "erase"}
               /\ proc'[w].step # "erase"
            \/ /\ proc[w].step = "send" /\ proc'[w].step \in {"send", "pick"}
               /\ proc'[w].msg = proc[w].msg /\ proc'[w].text = proc[w].text
               /\ proc'[w].step = "send" => proc'[w].pk = proc[w].pk

LEMMA SteadyAside ==
  ASSUME Types, NEW w \in Workers, Aside(w)
  PROVE  Steady
<1>1. PICK work : Go(w, work) /\ work.step \notin {"send", "pick", "erase"}
  BY DEF Aside
<1>2. proc'[w] = work /\ \A v \in Workers \ {w} : proc'[v] = proc[v]
  BY <1>1 DEF Go, Types
<1> QED
  BY <1>1, <1>2 DEF Steady, Aside

LEMMA SteadyStill == ASSUME proc' = proc PROVE Steady
  BY DEF Steady

LEMMA QuietGhost ==
  ASSUME Types, KeptInv, GhostInv, Steady, IsFiniteSet(messages'), BotAll' = BotAll,
         lastId' \in {lastId, lastId + 1}, lastPk' \in {lastPk, lastPk + 1},
         \A c \in Customers : \/ customers'[c].pk = customers[c].pk
                              \/ customers[c].pk = 0 /\ customers'[c].pk = lastPk + 1,
         severed' = severed, accepted' = accepted, haunted' = haunted
  PROVE  GhostInv'
<1>1. lastId \in Nat /\ lastPk \in Nat
  BY DEF Types
<1>2. Grown
  BY <1>1 DEF Grown
<1>3. Lone'
  BY <1>2, LoneKept DEF KeptInv, GhostInv, Steady, At
<1>4. ASSUME NEW c \in Customers \ haunted', NEW t \in BotTexts PROVE Covered(c, t)'
  <2>1. Covered(c, t)
    BY DEF GhostInv
  <2>2. CASE customers'[c].pk = customers[c].pk
    <3>1. Rows(c, t)' = Rows(c, t)
      BY <2>2 DEF Rows, BotRows, BotAll
    <3>2. ASSUME NEW w \in Workers, UnderWay(w, c, t) PROVE UnderWay(w, c, t)'
      <4>1. \A r \in Rows(c, t) : r \in messages'
        BY <3>1 DEF Rows, BotRows
      <4>2. proc[w].step \in {"send", "pick", "erase"}
        BY <3>2 DEF UnderWay, Replying
      <4> QED
        BY <2>2, <3>2, <4>1, <4>2, StaysUnderWay DEF Steady
    <3> QED
      BY <2>1, <3>1, <3>2, CoverKept DEF KeptInv
  <2>3. CASE customers'[c].pk = lastPk + 1
    <3>1. \A r \in BotAll : r.pk \in 1..lastPk
      BY DEF KeptInv, Book, Numbered
    <3>2. Rows(c, t)' = {}
      BY <1>1, <2>3, <3>1 DEF Rows, BotRows, BotAll
    <3> QED
      BY <3>2, NoRowsCovered DEF KeptInv, Book
  <2> QED
    BY <2>2, <2>3
<1> QED
  BY <1>3, <1>4 DEF GhostInv

LEMMA StillGhost ==
  ASSUME Types, KeptInv, GhostInv, Steady,
         UNCHANGED <<messages, lastId, lastPk, severed, accepted, haunted>>,
         \A c \in Customers : customers'[c].pk = customers[c].pk
  PROVE  GhostInv'
<1>1. BotAll' = BotAll
  BY DEF BotAll
<1> QED
  BY <1>1, QuietGhost DEF KeptInv, Book

LEMMA AtMostOneMore ==
  ASSUME NEW S, NEW T, NEW x, IsFiniteSet(S), T \subseteq S \cup {x}
  PROVE  /\ Cardinality(T) <= Cardinality(S) + 1
         /\ Cardinality(T) \in Nat /\ Cardinality(S) \in Nat
<1>1. IsFiniteSet(S \cup {x}) /\ Cardinality(S \cup {x}) <= Cardinality(S) + 1
  <2>0. Cardinality(S) \in Nat
    BY FS_CardinalityType
  <2>1. CASE x \in S
    <3>1. S \cup {x} = S
      BY <2>1
    <3> QED
      BY <2>0, <3>1
  <2>2. CASE x \notin S
    <3>1. IsFiniteSet(S \cup {x}) /\ Cardinality(S \cup {x}) = Cardinality(S) + 1
      BY <2>2, FS_AddElement
    <3> QED
      BY <2>0, <3>1
  <2> QED
    BY <2>1, <2>2
<1>2. /\ Cardinality(T) <= Cardinality(S \cup {x}) /\ Cardinality(T) \in Nat
      /\ Cardinality(S) \in Nat /\ Cardinality(S \cup {x}) \in Nat
  BY <1>1, FS_Subset, FS_CardinalityType
<1> QED
  BY <1>1, <1>2

(* Zernio reports a sent gate text: one row and one accepted reply more.   *)
LEMMA RemoteGateGhost ==
  ASSUME Types, Inv, KeptInv, GhostInv, NEW c \in Customers, NEW text \in {"gate", "reminder"},
         RecordRemoteGate(c, text)
  PROVE  GhostInv'
<1>1. /\ accepted' = [accepted EXCEPT ![c][text] = @ + 1]
      /\ UNCHANGED <<proc, severed, haunted>>
  BY DEF RecordRemoteGate
<1>2. PICK new \in BotAll' : /\ messages' = messages \cup {new}
                             /\ BotAll' = BotAll \cup {new}
                             /\ new.id = lastId' /\ new.pk = customers'[c].pk
                             /\ new.text = text /\ new \notin messages
  BY RemoteGateRow
<1>3. Grown
  BY RemoteGateRow
<1>4. text \in BotTexts
  BY DEF BotTexts
<1>5. /\ accepted' \in [Customers -> [BotTexts -> Nat]]
      /\ accepted'[c][text] = accepted[c][text] + 1
      /\ \A d \in Customers, t \in BotTexts : d # c \/ t # text =>
           accepted'[d][t] = accepted[d][t]
  BY <1>1, <1>4, OneMoreAccepted DEF KeptInv, Book
<1>6. Lone'
  BY <1>1, <1>3, LoneKept DEF KeptInv, GhostInv, At
<1>7. \A r \in BotAll : r.id \in 1..lastId /\ r.pk \in 1..lastPk
  BY DEF KeptInv, Book, Numbered
<1>8. ASSUME NEW d \in Customers \ haunted', NEW t \in BotTexts PROVE Covered(d, t)'
  <2>1. Covered(d, t)
    BY <1>1 DEF GhostInv
  <2>2. ASSUME customers'[d].pk = customers[d].pk, NEW w \in Workers, UnderWay(w, d, t)
        PROVE  UnderWay(w, d, t)'
    <3>1. \A r \in Rows(d, t) : r \in messages'
      BY <1>2 DEF Rows, BotRows
    <3> QED
      BY <1>1, <2>2, <3>1, StaysUnderWay
  <2>3. ASSUME customers'[d].pk # customers[d].pk
        PROVE  \A r \in Rows(d, t)' : r = new
    <3>1. customers'[d].pk = lastPk + 1
      BY <1>3, <2>3 DEF Grown
    <3> QED
      BY <1>2, <1>3, <1>7, <3>1 DEF Grown, Rows, BotRows, BotAll
  <2>4. CASE d # c \/ t # text
    <3>1. accepted'[d][t] = accepted[d][t]
      BY <1>5, <2>4
    <3>2. new \notin Rows(d, t)'
      <4>1. d # c => customers'[d].pk # customers'[c].pk
        BY RemoteGateRow
      <4> QED
        BY <1>2, <2>4, <4>1 DEF Rows, BotRows
    <3>3. CASE customers'[d].pk = customers[d].pk
      <4>1. Rows(d, t)' \subseteq Rows(d, t)
        BY <1>2, <3>2, <3>3 DEF Rows, BotRows
      <4> QED
        BY <2>1, <2>2, <3>1, <3>3, <4>1, CoverKept DEF KeptInv
    <3>4. CASE customers'[d].pk # customers[d].pk
      <4>1. Rows(d, t)' = {}
        BY <2>3, <3>2, <3>4
      <4> QED
        BY <1>5, <4>1, NoRowsCovered
    <3> QED
      BY <3>3, <3>4
  <2>5. CASE d = c /\ t = text
    <3>1. accepted'[d][t] = accepted[d][t] + 1 /\ accepted[d][t] \in Nat
      BY <1>5, <2>5 DEF KeptInv, Book
    <3>2. Cardinality(Coming(d, t)') \in Nat
      BY ComingCardsNext
    <3>3. CASE customers'[d].pk = customers[d].pk
      <4>1. Rows(d, t)' \subseteq Rows(d, t) \cup {new}
        BY <1>2, <3>3 DEF Rows, BotRows
      <4>2. Coming(d, t) \subseteq Coming(d, t)'
        BY <2>2, <3>3 DEF Coming
      <4>3. /\ Cardinality(Rows(d, t)') <= Cardinality(Rows(d, t)) + 1
            /\ Cardinality(Rows(d, t)) \in Nat /\ Cardinality(Rows(d, t)') \in Nat
        BY <4>1, AtMostOneMore, BookCards DEF KeptInv, Book
      <4>4. /\ Cardinality(Coming(d, t)) <= Cardinality(Coming(d, t)')
            /\ Cardinality(Coming(d, t)) \in Nat
        BY <4>2, ComingCards, ComingCardsNext, FS_Subset
      <4>5. Cardinality(Rows(d, t)) <= accepted[d][t] + Cardinality(Coming(d, t))
        BY <2>1 DEF Covered
      <4>6. Cardinality(Rows(d, t)') <= accepted'[d][t] + Cardinality(Coming(d, t)')
        BY <3>1, <3>2, <4>3, <4>4, <4>5
      <4> QED
        BY <4>6 DEF Covered
    <3>4. CASE customers'[d].pk # customers[d].pk
      <4>0. IsFiniteSet({}) /\ Cardinality({}) = 0
        BY FS_EmptySet
      <4>1. Rows(d, t)' \subseteq {} \cup {new}
        BY <2>3, <3>4
      <4>2. Cardinality(Rows(d, t)') <= 0 + 1 /\ Cardinality(Rows(d, t)') \in Nat
        BY <4>0, <4>1, AtMostOneMore
      <4>3. Cardinality(Rows(d, t)') <= accepted'[d][t] + Cardinality(Coming(d, t)')
        BY <3>1, <3>2, <4>2
      <4> QED
        BY <4>3 DEF Covered
    <3> QED
      BY <3>3, <3>4
  <2> QED
    BY <2>4, <2>5
<1> QED
  BY <1>6, <1>8 DEF GhostInv

(* The rows go with the customer, and with them what haunts it.            *)
LEMMA DeleteGhost ==
  ASSUME Types, Inv, KeptInv, GhostInv, NEW c0 \in Customers, DeleteCustomer(c0)
  PROVE  GhostInv'
<1>1. /\ customers' = [customers EXCEPT ![c0] = [pk |-> 0, paused |-> FALSE]]
      /\ customers[c0].pk # 0
      /\ messages' = {r \in messages : r.pk # customers[c0].pk}
      /\ accepted' = [accepted EXCEPT ![c0] = Unheard]
      /\ haunted' = haunted \ {c0}
      /\ UNCHANGED proc
  BY DEF DeleteCustomer
<1>2. /\ customers'[c0].pk = 0
      /\ \A d \in Customers \ {c0} : customers'[d].pk = customers[d].pk
  BY <1>1 DEF Types
<1>3. BotAll' = {r \in BotAll : r.pk # customers[c0].pk}
  BY <1>1 DEF BotAll
<1>4. \A r \in BotAll : r.pk # 0
  BY DEF KeptInv, Book, Numbered
<1>5. Lone'
  <2> SUFFICES ASSUME NEW c \in Customers \ haunted', NEW v \in Workers, NEW w \in Workers,
                      v # w, At(v, "erase"), At(w, "erase"), proc[v].row = proc[w].row,
                      NEW r \in BotAll', r.id = proc[w].row
               PROVE  r.pk # customers'[c].pk
    BY <1>1 DEF Lone, At
  <2>1. r \in BotAll
    BY <1>3
  <2>2. c # c0 => c \notin haunted
    BY <1>1
  <2> QED
    BY <1>2, <1>4, <2>1, <2>2 DEF GhostInv, Lone
<1>6. ASSUME NEW c \in Customers \ haunted', NEW t \in BotTexts PROVE Covered(c, t)'
  <2>1. CASE c = c0
    <3>1. Rows(c, t)' = {}
      BY <1>2, <1>3, <1>4, <2>1 DEF Rows, BotRows, BotAll
    <3>2. accepted'[c][t] = 0
      BY <1>1, <2>1 DEF Unheard, KeptInv, Book
    <3> QED
      BY <3>1, <3>2, NoRowsCovered
  <2>2. CASE c # c0
    <3>1. c \notin haunted /\ accepted'[c] = accepted[c]
      BY <1>1, <2>2 DEF KeptInv, Book
    <3>2. customers'[c].pk = customers[c].pk /\ customers[c].pk # customers[c0].pk
      BY <1>1, <1>2, <2>2 DEF Inv, Keys
    <3>3. Rows(c, t)' = Rows(c, t)
      BY <1>1, <3>2 DEF Rows, BotRows
    <3>4. ASSUME NEW w \in Workers, UnderWay(w, c, t) PROVE UnderWay(w, c, t)'
      <4>1. \A r \in Rows(c, t) : r \in messages'
        BY <3>3 DEF Rows, BotRows
      <4> QED
        BY <1>1, <3>2, <3>4, <4>1, StaysUnderWay
    <3> QED
      BY <3>1, <3>3, <3>4, CoverKept DEF KeptInv, GhostInv
  <2> QED
    BY <2>1, <2>2
<1> QED
  BY <1>5, <1>6 DEF GhostInv

(* A restart forgets replies under way, and haunts their customers.        *)
LEMMA RestartGhost ==
  ASSUME Types, KeptInv, GhostInv, Restart
  PROVE  GhostInv'
<1>1. /\ proc' = [w \in Workers |-> Idle]
      /\ haunted' = haunted \cup {From[proc[w].msg] : w \in Replying}
      /\ UNCHANGED <<customers, messages, accepted>>
  BY DEF Restart, db
<1>2. Lone'
  BY <1>1 DEF Lone, At, Idle
<1>3. ASSUME NEW c \in Customers \ haunted', NEW t \in BotTexts PROVE Covered(c, t)'
  <2>1. \A w \in Workers : ~UnderWay(w, c, t)
    BY <1>1 DEF UnderWay, Sender, Msg
  <2>2. Rows(c, t)' = Rows(c, t) /\ accepted'[c][t] = accepted[c][t]
    BY <1>1 DEF Rows, BotRows
  <2>3. Covered(c, t)
    BY <1>1 DEF GhostInv
  <2> QED
    BY <2>1, <2>2, <2>3, CoverKept DEF KeptInv
<1> QED
  BY <1>2, <1>3 DEF GhostInv

LEMMA AllButOne ==
  ASSUME NEW S, NEW T, NEW x, IsFiniteSet(S), IsFiniteSet(T), S \ {x} \subseteq T
  PROVE  Cardinality(S) - 1 <= Cardinality(T)
<1>1. S \subseteq T \cup {x}
  OBVIOUS
<1>2. Cardinality(S) <= Cardinality(T) + 1 /\ Cardinality(S) \in Nat /\ Cardinality(T) \in Nat
  BY <1>1, AtMostOneMore
<1> QED
  BY <1>2

(* A recorded reply is a row more, and one more under way.                 *)
LEMMA RecordGhost ==
  ASSUME Types, Inv, KeptInv, GhostInv, NEW w \in Workers, RecordReply(w), Alive(w)
  PROVE  GhostInv'
<1> DEFINE new == [id |-> lastId', pk |-> proc[w].pk, sender |-> "bot",
                   text |-> proc[w].text, at |-> now, by |-> w]
<1> DEFINE work == [step |-> "send", msg |-> Msg(w), pk |-> proc[w].pk,
                    text |-> proc[w].text, tries |-> Attempts]
<1>1. /\ proc[w].step = "record"
      /\ messages' = messages \cup {new}
      /\ lastId' = lastId + 1 /\ lastId \in Nat /\ lastPk \in Nat
      /\ Go(w, work)
      /\ UNCHANGED <<customers, lastPk, accepted, severed, haunted>>
  BY DEF RecordReply, At, Continue, world, Types
<1>2. /\ new.id = lastId' /\ new.pk = proc[w].pk /\ new.sender = "bot"
      /\ new.text = proc[w].text
      /\ work.step = "send" /\ work.msg = Msg(w) /\ work.text = proc[w].text
      /\ work.pk = proc[w].pk
  OBVIOUS
<1> HIDE DEF new, work
<1>3. proc'[w] = work /\ \A v \in Workers \ {w} : proc'[v] = proc[v]
  BY <1>1 DEF Go, Types
<1>4. /\ Sender(w) \in Customers /\ proc[w].text \in BotTexts
      /\ proc[w].pk \in 1..lastPk /\ customers[Sender(w)].pk = proc[w].pk
  BY <1>1, MidType, WorkType DEF Alive, Inv, Keys, Holding
<1>5. BotAll' = BotAll \cup {new}
  BY <1>1, <1>2 DEF BotAll
<1>6. IsFiniteSet(messages')
  BY <1>1, FS_AddElement DEF KeptInv, Book
<1>7. Grown
  BY <1>1, <1>2, <1>4, <1>5, <1>6 DEF Grown
<1>8. Lone'
  BY <1>1, <1>2, <1>3, <1>7, LoneKept DEF KeptInv, GhostInv, At
<1>9. ASSUME NEW c \in Customers \ haunted', NEW t \in BotTexts PROVE Covered(c, t)'
  <2>1. Covered(c, t)
    BY <1>1 DEF GhostInv
  <2>2. ASSUME NEW v \in Workers, UnderWay(v, c, t) PROVE UnderWay(v, c, t)'
    <3>1. v # w
      BY <1>1, <2>2 DEF UnderWay, Replying
    <3>2. \A r \in Rows(c, t) : r \in messages'
      BY <1>1 DEF Rows, BotRows
    <3> QED
      BY <1>1, <1>3, <2>2, <3>1, <3>2, StaysUnderWay
  <2>3. CASE new \notin Rows(c, t)'
    <3>1. Rows(c, t)' \subseteq Rows(c, t)
      BY <1>1, <2>3 DEF Rows, BotRows
    <3> QED
      BY <1>1, <2>1, <2>2, <3>1, CoverKept DEF KeptInv
  <2>4. CASE new \in Rows(c, t)'
    <3>1. c = Sender(w) /\ t = proc[w].text
      <4>1. proc[w].pk = customers[c].pk /\ t = proc[w].text
        BY <1>1, <1>2, <2>4 DEF Rows, BotRows
      <4> QED
        BY <1>4, <4>1 DEF Inv, Keys
    <3>2. Rows(c, t)' \subseteq Rows(c, t) \cup {new}
      BY <1>1 DEF Rows, BotRows
    <3>3. UnderWay(w, c, t)'
      BY <1>1, <1>2, <1>3, <1>4, <3>1 DEF UnderWay, Replying, At, Alive, Sender, Msg
    <3>4. w \notin Coming(c, t)
      BY <1>1 DEF Coming, UnderWay, Replying
    <3>5. Coming(c, t) \cup {w} \subseteq Coming(c, t)'
      BY <2>2, <3>3 DEF Coming
    <3>6. /\ IsFiniteSet(Coming(c, t)) /\ Cardinality(Coming(c, t)) \in Nat
          /\ IsFiniteSet(Coming(c, t)') /\ Cardinality(Coming(c, t)') \in Nat
      BY ComingCards, ComingCardsNext
    <3>7. Cardinality(Coming(c, t) \cup {w}) = Cardinality(Coming(c, t)) + 1
      BY <3>4, <3>6, FS_AddElement
    <3>8. Cardinality(Coming(c, t)) + 1 <= Cardinality(Coming(c, t)')
      BY <3>5, <3>6, <3>7, FS_Subset
    <3>9. /\ Cardinality(Rows(c, t)') <= Cardinality(Rows(c, t)) + 1
          /\ Cardinality(Rows(c, t)) \in Nat /\ Cardinality(Rows(c, t)') \in Nat
      BY <3>2, AtMostOneMore, BookCards DEF KeptInv, Book
    <3>10. accepted[c][t] \in Nat /\ accepted'[c][t] = accepted[c][t]
      BY <1>1 DEF KeptInv, Book
    <3>11. Cardinality(Rows(c, t)) <= accepted[c][t] + Cardinality(Coming(c, t))
      BY <2>1 DEF Covered
    <3>12. Cardinality(Rows(c, t)') <= accepted'[c][t] + Cardinality(Coming(c, t)')
      BY <3>6, <3>8, <3>9, <3>10, <3>11
    <3> QED
      BY <3>12 DEF Covered
  <2> QED
    BY <2>3, <2>4
<1> QED
  BY <1>8, <1>9 DEF GhostInv

(* The others carry on when one worker stops.                              *)
LEMMA OthersUnderWay ==
  ASSUME NEW w \in Workers, NEW c \in Customers, NEW t \in BotTexts,
         \A v \in Workers \ {w} : proc'[v] = proc[v], customers'[c].pk = customers[c].pk,
         messages' = messages
  PROVE  Coming(c, t) \ {w} \subseteq Coming(c, t)'
<1> SUFFICES ASSUME NEW v \in Workers, v # w, UnderWay(v, c, t) PROVE UnderWay(v, c, t)'
  BY DEF Coming
<1>1. \A r \in Rows(c, t) : r \in messages'
  BY DEF Rows, BotRows
<1> QED
  BY <1>1, StaysUnderWay

(* Acceptance turns a reply under way into an accepted one.                *)
LEMMA AcceptGhost ==
  ASSUME Types, KeptInv, GhostInv, NEW w \in Workers, SendAccepted(w)
  PROVE  GhostInv'
<1>1. /\ proc[w].step = "send"
      /\ Go(w, Idle)
      /\ UNCHANGED <<customers, lastPk, lastId, messages, severed, haunted>>
  BY DEF SendAccepted, At, Finish, around
<1>2. proc'[w] = Idle /\ \A v \in Workers \ {w} : proc'[v] = proc[v]
  BY <1>1 DEF Go, Types
<1>3. /\ Sender(w) \in Customers /\ proc[w].text \in BotTexts
  BY <1>1, MidType, WorkType
<1>4. IsFiniteSet(messages') /\ BotAll' = BotAll
  BY <1>1 DEF KeptInv, Book, BotAll
<1>5. Grown
  BY <1>1, <1>4 DEF Grown, Types
<1>6. Lone'
  BY <1>1, <1>2, <1>5, LoneKept DEF KeptInv, GhostInv, At, Idle
<1>7. ASSUME NEW c \in Customers, NEW t \in BotTexts
      PROVE  /\ accepted[c][t] \in Nat
             /\ accepted'[c][t] = IF Alive(w) /\ c = Sender(w) /\ t = proc[w].text
                                    THEN accepted[c][t] + 1 ELSE accepted[c][t]
  <2>1. accepted \in [Customers -> [BotTexts -> Nat]]
    BY DEF KeptInv, Book
  <2>2. CASE Alive(w)
    <3>1. accepted' = [accepted EXCEPT ![Sender(w)][proc[w].text] = @ + 1]
      BY <2>2 DEF SendAccepted
    <3> QED
      BY <1>3, <2>1, <2>2, <3>1, OneMoreAccepted
  <2>3. CASE ~Alive(w)
    BY <2>1, <2>3 DEF SendAccepted
  <2> QED
    BY <2>2, <2>3
<1>8. ASSUME NEW c \in Customers \ haunted', NEW t \in BotTexts PROVE Covered(c, t)'
  <2>1. Covered(c, t) /\ Rows(c, t)' = Rows(c, t)
    BY <1>1 DEF GhostInv, Rows, BotRows
  <2>2. Coming(c, t) \ {w} \subseteq Coming(c, t)'
    BY <1>1, <1>2, OthersUnderWay
  <2>3. /\ Cardinality(Rows(c, t)) \in Nat
        /\ IsFiniteSet(Coming(c, t)) /\ Cardinality(Coming(c, t)) \in Nat
        /\ IsFiniteSet(Coming(c, t)') /\ Cardinality(Coming(c, t)') \in Nat
    BY BookCards, ComingCards, ComingCardsNext DEF KeptInv, Book
  <2>4. Cardinality(Rows(c, t)) <= accepted[c][t] + Cardinality(Coming(c, t))
    BY <2>1 DEF Covered
  <2>5. CASE w \notin Coming(c, t)
    <3>1. Coming(c, t) \subseteq Coming(c, t)'
      BY <2>2, <2>5
    <3>2. Cardinality(Coming(c, t)) <= Cardinality(Coming(c, t)')
      BY <2>3, <3>1, FS_Subset
    <3>3. Cardinality(Rows(c, t)') <= accepted'[c][t] + Cardinality(Coming(c, t)')
      BY <1>7, <2>1, <2>3, <2>4, <3>2
    <3> QED
      BY <3>3 DEF Covered
  <2>6. CASE w \in Coming(c, t)
    <3>1. Alive(w) /\ c = Sender(w) /\ t = proc[w].text
      BY <1>1, <2>6 DEF Coming, UnderWay, At
    <3>2. /\ IsFiniteSet(Coming(c, t) \ {w})
          /\ Cardinality(Coming(c, t) \ {w}) = Cardinality(Coming(c, t)) - 1
      BY <2>3, <2>6, FS_RemoveElement
    <3>3. Cardinality(Coming(c, t)) - 1 <= Cardinality(Coming(c, t)')
      BY <2>2, <2>3, <3>2, FS_Subset
    <3>4. accepted'[c][t] = accepted[c][t] + 1 /\ accepted[c][t] \in Nat
      BY <1>7, <3>1
    <3>5. Cardinality(Rows(c, t)') <= accepted'[c][t] + Cardinality(Coming(c, t)')
      BY <2>1, <2>3, <2>4, <3>3, <3>4
    <3> QED
      BY <3>5 DEF Covered
  <2> QED
    BY <2>5, <2>6
<1> QED
  BY <1>6, <1>8 DEF GhostInv

(* A worker that finds no row it may take back leaves none, or haunts.     *)
LEMMA NothingPickedGhost ==
  ASSUME Types, KeptInv, GhostInv, NEW w \in Workers, PickUnsent(w),
         customers[Sender(w)].pk = 0 \/ Droppable(w) = {}
  PROVE  GhostInv'
<1>1. /\ proc[w].step = "pick"
      /\ Go(w, Idle)
      /\ Haunt(w, BotRows(customers[Sender(w)].pk, {proc[w].text}) # {})
      /\ UNCHANGED <<customers, lastPk, lastId, messages, accepted, severed>>
  BY DEF PickUnsent, At, Finish, around
<1>2. proc'[w] = Idle /\ \A v \in Workers \ {w} : proc'[v] = proc[v]
  BY <1>1 DEF Go, Types
<1>3. IsFiniteSet(messages') /\ BotAll' = BotAll
  BY <1>1 DEF KeptInv, Book, BotAll
<1>4. Grown
  BY <1>1, <1>3 DEF Grown, Types
<1>5. haunted \subseteq haunted'
  BY <1>1 DEF Haunt
<1>6. Lone'
  BY <1>2, <1>4, <1>5, LoneKept DEF KeptInv, GhostInv, At, Idle
<1>7. ASSUME NEW c \in Customers \ haunted', NEW t \in BotTexts PROVE Covered(c, t)'
  <2>1. Covered(c, t) /\ Rows(c, t)' = Rows(c, t) /\ accepted'[c][t] = accepted[c][t]
    BY <1>1, <1>5 DEF GhostInv, Rows, BotRows
  <2>2. CASE UnderWay(w, c, t)
    <3>1. c = Sender(w) /\ t = proc[w].text
      BY <1>1, <2>2 DEF UnderWay, At
    <3>2. Rows(c, t) = {}
      BY <1>1, <3>1 DEF Haunt, Rows
    <3> QED
      BY <2>1, <3>2, NoRowsCovered DEF KeptInv, Book
  <2>3. CASE ~UnderWay(w, c, t)
    <3>1. \A v \in Workers : UnderWay(v, c, t) => UnderWay(v, c, t)'
      BY <1>1, <1>2, <2>3, OthersUnderWay DEF Coming
    <3> QED
      BY <2>1, <3>1, CoverKept DEF KeptInv
  <2> QED
    BY <2>2, <2>3
<1> QED
  BY <1>6, <1>7 DEF GhostInv

(* Whoever picks a row has it under way; two that pick the same one haunt. *)
LEMMA PickGhost ==
  ASSUME Types, Inv, KeptInv, GhostInv, NEW w \in Workers, PickUnsent(w),
         customers[Sender(w)].pk # 0, Droppable(w) # {}
  PROVE  GhostInv'
<1>1. /\ proc[w].step = "pick"
      /\ UNCHANGED <<customers, lastPk, lastId, messages, accepted, severed>>
  BY DEF PickUnsent, At, around
<1>2. PICK r \in Droppable(w) :
        /\ Go(w, [step |-> "erase", msg |-> Msg(w), row |-> r.id])
        /\ Haunt(w, \E v \in Workers : At(v, "erase") /\ proc[v].row = r.id)
  BY DEF PickUnsent, Continue
<1>3. /\ proc'[w].step = "erase" /\ proc'[w].msg = Msg(w) /\ proc'[w].row = r.id
      /\ \A v \in Workers \ {w} : proc'[v] = proc[v]
  BY <1>2 DEF Go, Types
<1>4. r \in BotAll /\ r.pk = customers[Sender(w)].pk /\ r.text = proc[w].text
  BY DEF Droppable, BotRows, BotAll
<1>5. haunted \subseteq haunted' /\ Sender(w) \in Customers
  BY <1>1, <1>2, MidType DEF Haunt
<1>6. BotAll' = BotAll
  BY <1>1 DEF BotAll
<1>7. ASSUME NEW c \in Customers \ haunted', NEW v \in Workers, v # w,
             At(v, "erase"), proc[v].row = r.id
      PROVE  r.pk # customers[c].pk
  <2>1. Sender(w) \in haunted'
    BY <1>2, <1>7 DEF Haunt
  <2> QED
    BY <1>4, <1>5, <2>1 DEF Inv, Keys
<1>8. \A s \in BotAll : s.id = r.id => s = r
  BY <1>4 DEF KeptInv, Book, Numbered
<1>9. Lone'
  <2> SUFFICES ASSUME NEW c \in Customers \ haunted', NEW u \in Workers, NEW v \in Workers,
                      u # v, At(u, "erase")', At(v, "erase")', proc'[u].row = proc'[v].row,
                      NEW s \in BotAll, s.id = proc'[v].row
               PROVE  s.pk # customers[c].pk
    BY <1>1, <1>6 DEF Lone
  <2>1. CASE u = w
    <3>1. proc'[v] = proc[v] /\ At(v, "erase") /\ proc[v].row = r.id /\ s = r
      BY <1>3, <1>8, <2>1 DEF At
    <3> QED
      BY <1>7, <2>1, <3>1
  <2>2. CASE v = w
    <3>1. proc'[u] = proc[u] /\ At(u, "erase") /\ proc[u].row = r.id /\ s = r
      BY <1>3, <1>8, <2>2 DEF At
    <3> QED
      BY <1>7, <2>2, <3>1
  <2>3. CASE u # w /\ v # w
    <3>1. proc'[u] = proc[u] /\ proc'[v] = proc[v] /\ At(u, "erase") /\ At(v, "erase")
      BY <1>3, <2>3 DEF At
    <3> QED
      BY <1>5, <3>1 DEF GhostInv, Lone
  <2> QED
    BY <2>1, <2>2, <2>3
<1>10. ASSUME NEW c \in Customers \ haunted', NEW t \in BotTexts PROVE Covered(c, t)'
  <2>1. Covered(c, t) /\ Rows(c, t)' = Rows(c, t) /\ accepted'[c][t] = accepted[c][t]
    BY <1>1, <1>5 DEF GhostInv, Rows, BotRows
  <2>2. ASSUME UnderWay(w, c, t) PROVE UnderWay(w, c, t)'
    <3>1. c = Sender(w) /\ t = proc[w].text /\ Sender(w)' = c
      BY <1>1, <1>3, <2>2 DEF UnderWay, At, Sender, Msg
    <3>2. r \in BotRows(customers[c].pk, {t})'
      BY <1>1, <3>1 DEF Droppable, BotRows
    <3> QED
      BY <1>3, <3>1, <3>2 DEF UnderWay, Replying, At
  <2>3. \A v \in Workers : UnderWay(v, c, t) => UnderWay(v, c, t)'
    BY <1>1, <1>3, <2>2, OthersUnderWay DEF Coming
  <2> QED
    BY <2>1, <2>3, CoverKept DEF KeptInv
<1> QED
  BY <1>9, <1>10 DEF GhostInv

(* The row goes with the one worker that had it under way.                 *)
LEMMA EraseGhost ==
  ASSUME Types, Inv, KeptInv, GhostInv, NEW w \in Workers, EraseUnsent(w)
  PROVE  GhostInv'
<1>1. /\ proc[w].step = "erase"
      /\ messages' = {r \in messages : r.sender = "bot" => r.id # proc[w].row}
      /\ Go(w, Idle)
      /\ UNCHANGED <<customers, lastPk, lastId, accepted, severed, haunted>>
  BY DEF EraseUnsent, At, Finish, around
<1>2. proc'[w] = Idle /\ \A v \in Workers \ {w} : proc'[v] = proc[v]
  BY <1>1 DEF Go, Types
<1>3. BotAll' = {r \in BotAll : r.id # proc[w].row}
  BY <1>1 DEF BotAll
<1>4. IsFiniteSet(messages')
  <2>1. messages' \subseteq messages
    BY <1>1
  <2> QED
    BY <2>1, FS_Subset DEF KeptInv, Book
<1>5. Grown
  BY <1>1, <1>3, <1>4 DEF Grown, Types
<1>6. Lone'
  BY <1>1, <1>2, <1>5, LoneKept DEF KeptInv, GhostInv, At, Idle
<1>7. ASSUME NEW c \in Customers \ haunted', NEW t \in BotTexts PROVE Covered(c, t)'
  <2>1. Covered(c, t) /\ c \in Customers \ haunted
    BY <1>1 DEF GhostInv
  <2>2. Rows(c, t)' = {r \in Rows(c, t) : r.id # proc[w].row}
    BY <1>1 DEF Rows, BotRows
  <2>3. CASE \A r \in Rows(c, t) : r.id # proc[w].row
    <3>1. Rows(c, t)' = Rows(c, t)
      BY <2>2, <2>3
    <3>2. ~UnderWay(w, c, t)
      BY <1>1, <2>3 DEF UnderWay, At, Rows
    <3>3. ASSUME NEW v \in Workers, UnderWay(v, c, t) PROVE UnderWay(v, c, t)'
      <4>1. v # w
        BY <3>2, <3>3
      <4>2. \A r \in Rows(c, t) : r \in messages'
        BY <3>1 DEF Rows, BotRows
      <4> QED
        BY <1>1, <1>2, <3>3, <4>1, <4>2, StaysUnderWay
    <3> QED
      BY <1>1, <2>1, <3>1, <3>3, CoverKept DEF KeptInv
  <2>4. CASE \E r \in Rows(c, t) : r.id = proc[w].row
    <3>1. PICK r \in Rows(c, t) : r.id = proc[w].row
      BY <2>4
    <3>2. r \in BotAll /\ r.pk = customers[c].pk
      BY DEF Rows, BotRows, BotAll
    <3>3. \A s \in Rows(c, t) : s.id = r.id => s = r
      BY <3>2 DEF KeptInv, Book, Numbered, Rows, BotRows, BotAll
    <3>4. Rows(c, t)' = Rows(c, t) \ {r}
      BY <2>2, <3>1, <3>3
    <3>5. ASSUME NEW v \in Workers, v # w, UnderWay(v, c, t) PROVE UnderWay(v, c, t)'
      <4>1. At(v, "erase") => proc[v].row # proc[w].row
        BY <1>1, <2>1, <3>1, <3>2, <3>5 DEF GhostInv, Lone, At
      <4>2. At(v, "erase") => \A s \in Rows(c, t) : s.id = proc[v].row => s \in messages'
        BY <1>1, <4>1 DEF Rows, BotRows
      <4> QED
        BY <1>1, <1>2, <3>5, <4>2, StaysUnderWay
    <3>6. Coming(c, t) \ {w} \subseteq Coming(c, t)'
      BY <3>5 DEF Coming
    <3>7. /\ IsFiniteSet(Rows(c, t)) /\ Cardinality(Rows(c, t)) \in Nat
          /\ IsFiniteSet(Coming(c, t)) /\ Cardinality(Coming(c, t)) \in Nat
          /\ IsFiniteSet(Coming(c, t)') /\ Cardinality(Coming(c, t)') \in Nat
      BY BookCards, ComingCards, ComingCardsNext DEF KeptInv, Book
    <3>8. Cardinality(Rows(c, t)') = Cardinality(Rows(c, t)) - 1
      BY <3>1, <3>4, <3>7, FS_RemoveElement
    <3>9. Cardinality(Coming(c, t)) - 1 <= Cardinality(Coming(c, t)')
      BY <3>6, <3>7, AllButOne
    <3>10. accepted[c][t] \in Nat /\ accepted'[c][t] = accepted[c][t]
      BY <1>1 DEF KeptInv, Book
    <3>11. Cardinality(Rows(c, t)) <= accepted[c][t] + Cardinality(Coming(c, t))
      BY <2>1 DEF Covered
    <3>12. Cardinality(Rows(c, t)') <= accepted'[c][t] + Cardinality(Coming(c, t)')
      BY <3>7, <3>8, <3>9, <3>10, <3>11
    <3> QED
      BY <3>12 DEF Covered
  <2> QED
    BY <2>3, <2>4
<1> QED
  BY <1>6, <1>7 DEF GhostInv

LEMMA StartSteady ==
  ASSUME Types, NEW w \in Workers, NEW m, Start(w, m)
  PROVE  Steady
<1>1. Aside(w)
  BY DEF Start, Aside
<1> QED
  BY <1>1, SteadyAside

LEMMA ProcessGhost ==
  ASSUME Types, Inv, KeptInv, GhostInv, NEW w \in Workers, Process(w)
  PROVE  GhostInv'
<1>1. CASE Plain(w)
  BY <1>1, PlainAside, SteadyAside, PlainKeeps, QuietGhost DEF KeptInv, Book
<1>2. CASE RecordReply(w) /\ Alive(w)
  BY <1>2, RecordGhost
<1>3. CASE SendFails(w) \/ NoConversation(w)
  <2>1. Steady
    BY <1>3, FailedSend DEF Steady
  <2> QED
    BY <1>3, <2>1, FailedSend, StillGhost
<1>4. CASE PickUnsent(w)
  BY <1>4, NothingPickedGhost, PickGhost
<1> QED
  BY <1>1, <1>2, <1>3, <1>4, AcceptGhost, EraseGhost DEF Process, Plain

LEMMA GhostStep == Types /\ Inv /\ KeptInv /\ GhostInv /\ [Next]_vars => GhostInv'
<1> SUFFICES ASSUME Types, Inv, KeptInv, GhostInv, [Next]_vars
             PROVE  GhostInv'
  OBVIOUS
<1>1. CASE Tick \/ UNCHANGED vars
  BY <1>1, StillGhost, SteadyStill DEF Tick, vars, db, history
<1>2. CASE Panel
  <2>1. CASE ToggleBot \/ ToggleGate
    BY <2>1, StillGhost, SteadyStill DEF ToggleBot, ToggleGate, db, history
  <2>2. ASSUME NEW c \in Customers, TogglePaused(c) \/ LearnFollower(c)
        PROVE  GhostInv'
    <3>1. \A d \in Customers : customers'[d].pk = customers[d].pk
      <4>1. CASE TogglePaused(c)
        BY <4>1 DEF TogglePaused, Types
      <4>2. CASE LearnFollower(c)
        BY <4>2 DEF LearnFollower, db
      <4> QED
        BY <2>2, <4>1, <4>2
    <3> QED
      BY <2>2, <3>1, StillGhost, SteadyStill DEF TogglePaused, LearnFollower, db, history
  <2> QED
    BY <1>2, <2>1, <2>2, DeleteGhost DEF Panel
<1>3. CASE Arrive
  <2>1. ASSUME NEW m \in Msgs, Write(m) \/ EnqueueEvent(m)
        PROVE  GhostInv'
    BY <2>1, StillGhost, SteadyStill DEF Write, EnqueueEvent, db, history
  <2>2. ASSUME NEW w \in Workers, TakeEvent(w) \/ \E m \in Msgs : ReceiveZernio(w, m)
        PROVE  GhostInv'
    <3>1. PICK m : Start(w, m)
      BY <2>2 DEF TakeEvent, ReceiveZernio
    <3>2. Steady
      BY <3>1, StartSteady
    <3>3. UNCHANGED <<db, history>>
      BY <2>2 DEF TakeEvent, ReceiveZernio
    <3> QED
      BY <3>2, <3>3, StillGhost DEF db, history
  <2> QED
    BY <1>3, <2>1, <2>2, RemoteGateGhost DEF Arrive
<1>4. CASE Poll
  <2>1. CASE PollList \/ PollReadFails \/ PollMisread \/ PollSkip \/ \E c \in Customers : PollRead(c)
    BY <2>1, StillGhost, SteadyStill DEF PollList, PollReadFails, PollMisread, PollSkip, PollRead, db,
     history
  <2>2. CASE PollTake
    <3>1. Steady
      <4>1. Poller \in Workers
        BY DEF Workers
      <4>2. PICK m : Start(Poller, m)
        BY <2>2 DEF PollTake
      <4> QED
        BY <4>1, <4>2, StartSteady
    <3> QED
      BY <2>2, <3>1, StillGhost DEF PollTake, db, history
  <2> QED
    BY <1>4, <2>1, <2>2 DEF Poll
<1> QED
  BY <1>1, <1>2, <1>3, <1>4, RestartGhost, ProcessGhost DEF Next

(* A reply that no customer got leaves the history again, however many     *)
(* workers fail at once, unless the server is restarted before that, or    *)
(* two workers take back the same row or come after the drop window.       *)
THEOREM UnsentRepliesGo == Spec => []NoGhostReplies
<1>1. Init => Types /\ Inv /\ KeptInv /\ GhostInv
  BY TypesInit, InvInit, KeptInit, GhostInit
<1>2. Types /\ Inv /\ KeptInv /\ GhostInv /\ [Next]_vars
        => (Types /\ Inv /\ KeptInv /\ GhostInv)'
  BY TypesStep, InvStep, KeptStep, GhostStep
<1>3. GhostInv => NoGhostReplies
  BY DEF GhostInv, NoGhostReplies, Covered, Coming, Rows
<1> QED
  BY <1>1, <1>2, <1>3, PTL DEF Spec

=============================================================================
