------------------------- MODULE OrderNotify_proofs -------------------------
(***************************************************************************)
(* Proofs about OrderNotify for every set of orders and concurrent patch   *)
(* requests, every flush limit and every number of restarts and failing    *)
(* statements.                                                             *)
(***************************************************************************)
EXTENDS OrderNotify, TLAPS

(* notify_order_status returning leaves well-typed processes.              *)
LEMMA ReturnType ==
  ASSUME TypeOK, NEW p \in Processes, Return(p)
  PROVE  /\ proc' \in [Processes -> Activity]
         /\ batch' \subseteq Orders
         /\ \A q \in Processes : q # p => proc'[q] = proc[q]
         /\ proc'[p].at \in {"idle", "start"}
<1>1. CASE p = Flusher /\ batch # {}
  BY <1>1 DEF TypeOK, Return, Activity
<1>2. CASE ~(p = Flusher /\ batch # {})
  BY <1>2 DEF TypeOK, Return, Activity, Idle
<1> QED
  BY <1>1, <1>2

(* What a process that is notifying an order has in its hands.             *)
LEMMA HeldType ==
  ASSUME TypeOK, NEW p \in Processes
  PROVE  /\ proc[p].at = "refresh" => proc[p].order \in Orders
         /\ proc[p].at = "start" => proc[p].order \in Orders
         /\ proc[p].at = "loaded" =>
              proc[p].order \in Orders /\ proc[p].row \in OrderRow
         /\ proc[p].at \in {"sending", "answered"} =>
              proc[p].order \in Orders /\ proc[p].row \in NotifyRow
         /\ proc[p].at = "answered" => proc[p].sent \in BOOLEAN
  BY DEF TypeOK, Activity

LEMMA RowOfType == ASSUME TypeOK, NEW o \in Orders PROVE RowOf(o) \in OrderRow
  BY DEF TypeOK, RowOf, OrderRow

LEMMA TypeInit == Init => TypeOK
  BY GraceAssumption, MishapsAssumption DEF Init, TypeOK, Statuses, Idle, Activity

LEMMA FailType ==
  ASSUME TypeOK, NEW p \in Processes, Fail(p)
  PROVE  TypeOK'
<1>1. unsure' \subseteq Orders
  BY HeldType DEF Fail, TypeOK
<1>2. mishaps' \in 0..Mishaps
  BY MishapsAssumption DEF Fail, TypeOK
<1> QED
  BY <1>1, <1>2, ReturnType DEF Fail, TypeOK, row

LEMMA NotifyType ==
  ASSUME TypeOK, NEW p \in Processes, Notify(p)
  PROVE  TypeOK'
<1>1. CASE Load(p)
  <2>1. proc'[p] \in Activity
    BY <1>1, HeldType, RowOfType DEF Load, TypeOK, Activity
  <2>2. unsure' \subseteq Orders
    BY <1>1, HeldType DEF Load, Doubled, TypeOK
  <2> QED
    BY <1>1, <2>1, <2>2 DEF Load, TypeOK, row
<1>2. CASE Skip(p)
  BY <1>2, ReturnType DEF Skip, TypeOK, row, history
<1>3. CASE Drop(p)
  BY <1>3, ReturnType, HeldType, GraceAssumption DEF Drop, TypeOK
<1>4. CASE Postpone(p)
  <2>1. proc[p].order \in Orders /\ proc[p].row.pending \in BOOLEAN
    BY <1>4, HeldType DEF Postpone, MayNotify, OrderRow
  <2>2. Flushed(proc[p].row.pending, TRUE, pending[proc[p].order]) \in BOOLEAN
    BY <2>1 DEF TypeOK, Flushed
  <2>3. pending' \in [Orders -> BOOLEAN]
    BY <1>4, <2>1, <2>2 DEF Postpone, TypeOK
  <2>4. age' \in [Orders -> 0..Grace]
    BY <1>4, <2>1, GraceAssumption DEF Postpone, TypeOK
  <2>5. proc' \in [Processes -> Activity] /\ batch' \subseteq Orders
    BY <1>4, ReturnType DEF Postpone
  <2> QED
    BY <1>4, <2>3, <2>4, <2>5 DEF Postpone, TypeOK, history
<1>5. CASE Dial(p)
  <2>1. proc[p].order \in Orders /\ proc[p].row \in NotifyRow
    BY <1>5, HeldType DEF Dial, MayNotify, OrderRow, NotifyRow
  <2>2. proc' \in [Processes -> Activity]
    BY <1>5, <2>1 DEF Dial, TypeOK, Activity
  <2> QED
    BY <1>5, <2>2 DEF Dial, TypeOK, row, history
<1>6. ASSUME NEW reached \in BOOLEAN, NEW sent \in BOOLEAN, Send(p, reached, sent)
      PROVE  TypeOK'
  <2>1. proc[p].order \in Orders /\ proc[p].row \in NotifyRow
    BY <1>6, HeldType DEF Send
  <2>2. proc' \in [Processes -> Activity]
    BY <1>6, <2>1 DEF Send, TypeOK, Activity
  <2>3. delivered' \in [Orders -> SUBSET NotifyStatuses]
    BY <1>6, <2>1 DEF Send, TypeOK, NotifyRow
  <2> QED
    BY <1>6, <2>2, <2>3 DEF Send, TypeOK, row
<1>7. CASE Record(p)
  <2>1. proc[p].order \in Orders /\ proc[p].row \in NotifyRow /\ proc[p].sent \in BOOLEAN
    BY <1>7, HeldType DEF Record
  <2>2. PendingAfter(proc[p]) \in BOOLEAN
    BY <2>1 DEF PendingAfter, Flushed, TypeOK
  <2>3. NotifiedAfter(proc[p]) \in NotifyStatuses \cup {"none"}
    BY <2>1 DEF NotifiedAfter, Flushed, TypeOK, NotifyRow
  <2> QED
    BY <1>7, <2>1, <2>2, <2>3, ReturnType, GraceAssumption DEF Record, TypeOK, history
<1>8. CASE Fail(p)
  BY <1>8, FailType
<1> QED
  BY <1>1, <1>2, <1>3, <1>4, <1>5, <1>6, <1>7, <1>8 DEF Notify

LEMMA TypeStep == TypeOK /\ [Next]_vars => TypeOK'
<1> SUFFICES ASSUME TypeOK, [Next]_vars PROVE TypeOK'
  OBVIOUS
<1>1. CASE UNCHANGED vars
  BY <1>1 DEF vars, row, history, TypeOK
<1>2. CASE Toggle
  BY <1>2 DEF Toggle, row, history, TypeOK
<1>3. ASSUME NEW o \in Orders, CustomerWrites(o) \/ WindowCloses(o)
      PROVE  TypeOK'
  BY <1>3 DEF CustomerWrites, WindowCloses, row, history, TypeOK
<1>4. CASE Tick
  <2>1. age' \in [Orders -> 0..Grace]
    BY <1>4, GraceAssumption DEF Tick, TypeOK
  <2>2. proc' \in [Processes -> Activity]
    BY <1>4 DEF Tick, TypeOK, Activity, Processes
  <2> QED
    BY <1>4, <2>1, <2>2 DEF Tick, history, TypeOK
<1>5. CASE Restart
  BY <1>5, MishapsAssumption DEF Restart, row, history, TypeOK, Idle, Activity
<1>6. ASSUME NEW a \in Admins, NEW o \in Orders, NEW to \in NotifyStatuses, Patch(a, o, to)
      PROVE  TypeOK'
  <2>1. proc' \in [Processes -> Activity]
    BY <1>6 DEF Patch, TypeOK, Activity, Processes
  <2> QED
    BY <1>6, <2>1, GraceAssumption DEF Patch, TypeOK, Statuses
<1>7. ASSUME NEW a \in Admins, Refresh(a)
      PROVE  TypeOK'
  <2>1. proc[a].order \in Orders
    BY <1>7, HeldType DEF Refresh, Processes
  <2>2. proc' \in [Processes -> Activity]
    BY <1>7, <2>1 DEF Refresh, TypeOK, Activity, Processes, Idle
  <2> QED
    BY <1>7, <2>2 DEF Refresh, row, history, TypeOK
<1>8. CASE FlushQuery
  <2>0. unsure' \subseteq Orders
    BY <1>8 DEF FlushQuery, Doubled, TypeOK
  <2>1. CASE /\ proc' = [proc EXCEPT ![Flusher] = Idle]
             /\ batch' = {}
    BY <1>8, <2>0, <2>1 DEF FlushQuery, row, TypeOK, Idle, Activity
  <2>2. ASSUME NEW o \in Orders,
               proc' = [proc EXCEPT ![Flusher] = [at |-> "loaded", order |-> o, row |-> RowOf(o)]],
               batch' = Newest(Due) \ {o}
        PROVE  TypeOK'
    <3>1. proc' \in [Processes -> Activity]
      BY <2>2, RowOfType DEF TypeOK, Activity
    <3>2. batch' \subseteq Orders
      BY <2>2 DEF Newest, Due
    <3> QED
      BY <1>8, <2>0, <3>1, <3>2 DEF FlushQuery, row, TypeOK
  <2> QED
    BY <1>8, <2>1, <2>2 DEF FlushQuery
<1>9. ASSUME NEW p \in Processes, Notify(p)
      PROVE  TypeOK'
  BY <1>9, NotifyType
<1> QED
  BY <1>1, <1>2, <1>3, <1>4, <1>5, <1>6, <1>7, <1>8, <1>9 DEF Next

(* Rows, processes and history keep their types.                           *)
THEOREM TypeCorrect == Spec => []TypeOK
  BY TypeInit, TypeStep, PTL DEF Spec

-----------------------------------------------------------------------------
(* What a notifier holds in its hands: a message reported as sent was      *)
(* delivered, and its row is the order's unless a patch overtook it.       *)

AnswersAreDelivered ==
  \A p \in Processes :
    proc[p].at = "answered" /\ proc[p].sent =>
      proc[p].row.status \in delivered[proc[p].order]

HeldIsCurrent ==
  \A p \in Processes, o \in Orders :
    Holds(p, o) /\ o \notin overtaken => proc[p].row.status = status[o]

Inv == /\ TypeOK
       /\ AnswersAreDelivered
       /\ HeldIsCurrent
       /\ RecordedIsDelivered
       /\ ForgottenOnlyIfOvertaken

LEMMA InvInit == Init => Inv
<1> SUFFICES ASSUME Init PROVE Inv
  OBVIOUS
<1>1. \A p \in Processes : proc[p].at = "idle"
  BY DEF Init, Idle
<1>2. AnswersAreDelivered /\ HeldIsCurrent
  BY <1>1 DEF AnswersAreDelivered, HeldIsCurrent, Holds
<1>3. RecordedIsDelivered /\ ForgottenOnlyIfOvertaken
  BY DEF Init, RecordedIsDelivered, ForgottenOnlyIfOvertaken, Untold, NotifyStatuses
<1> QED
  BY <1>2, <1>3, TypeInit DEF Inv

(* A process that returns holds nothing, and the others what they held.    *)
LEMMA ReturnHolds ==
  ASSUME TypeOK, NEW p \in Processes, Return(p), NEW q \in Processes
  PROVE  /\ \A o : Holds(q, o)' => q # p /\ Holds(q, o) /\ proc'[q] = proc[q]
         /\ proc'[q].at = "answered" => q # p /\ proc'[q] = proc[q]
  BY ReturnType DEF Holds

LEMMA RecordStep ==
  ASSUME Inv, NEW p \in Processes, Record(p)
  PROVE  Inv'
<1> DEFINE w == proc[p]
           o == w.order
<1>0. TypeOK' /\ TypeOK
  BY TypeStep DEF Inv, Next, Notify
<1>1. o \in Orders /\ w.row \in NotifyRow /\ w.sent \in BOOLEAN /\ Holds(p, o)
  BY <1>0, HeldType DEF Record, Holds
<1>2. AnswersAreDelivered'
  BY <1>0, ReturnHolds DEF Record, history, Inv, AnswersAreDelivered
<1>3. HeldIsCurrent'
  BY <1>0, ReturnHolds DEF Record, history, Inv, HeldIsCurrent
<1>4. RecordedIsDelivered'
  <2>1. w.sent => w.row.status \in delivered[o]
    BY DEF Record, Inv, AnswersAreDelivered
  <2>2. notified'[o] # "none" => notified'[o] \in delivered[o]
    BY <1>0, <1>1, <2>1 DEF Record, NotifiedAfter, Flushed, TypeOK, Inv, RecordedIsDelivered
  <2>3. \A x \in Orders : x # o => notified'[x] = notified[x]
    BY <1>0, <1>1 DEF Record, TypeOK
  <2> QED
    BY <1>0, <1>1, <2>2, <2>3 DEF Record, history, Inv, RecordedIsDelivered
<1>5. ForgottenOnlyIfOvertaken'
  <2>1. UNCHANGED <<status, delivered, waived, overtaken>>
    BY DEF Record, history
  <2>2. \A x \in Orders : x # o => pending'[x] = pending[x]
    BY <1>0, <1>1 DEF Record, TypeOK
  <2>3. ASSUME Untold(o), o \notin overtaken
        PROVE  pending'[o]
    <3>1. w.row.status = status[o]
      BY <1>1, <2>3 DEF Inv, HeldIsCurrent
    <3>2. ~w.sent
      BY <2>3, <3>1 DEF Record, Inv, AnswersAreDelivered, Untold
    <3>3. pending[o]
      BY <1>1, <2>3 DEF Inv, ForgottenOnlyIfOvertaken
    <3>4. pending'[o] = PendingAfter(w)
      BY <1>0, <1>1 DEF Record, TypeOK
    <3> QED
      BY <3>2, <3>3, <3>4 DEF PendingAfter, Flushed
  <2> QED
    BY <2>1, <2>2, <2>3 DEF Inv, ForgottenOnlyIfOvertaken, Untold
<1> QED
  BY <1>0, <1>2, <1>3, <1>4, <1>5 DEF Inv

LEMMA SendStep ==
  ASSUME Inv, NEW p \in Processes, NEW reached \in BOOLEAN, NEW sent \in BOOLEAN,
         Send(p, reached, sent)
  PROVE  Inv'
<1> DEFINE w == proc[p]
<1>0. TypeOK' /\ TypeOK
  BY TypeStep DEF Inv, Next, Notify
<1>1. w.order \in Orders /\ w.row \in NotifyRow
  BY <1>0, HeldType DEF Send
<1>2. \A o \in Orders : delivered[o] \subseteq delivered'[o]
  BY <1>0, <1>1 DEF Send, TypeOK
<1>3. /\ proc'[p] = [at |-> "answered", order |-> w.order, row |-> w.row, sent |-> sent]
      /\ \A q \in Processes : q # p => proc'[q] = proc[q]
  BY <1>0 DEF Send, TypeOK
<1>4. AnswersAreDelivered'
  <2> SUFFICES ASSUME NEW q \in Processes, proc'[q].at = "answered", proc'[q].sent
               PROVE  proc'[q].row.status \in delivered'[proc'[q].order]
    BY DEF AnswersAreDelivered
  <2>1. CASE q = p
    BY <1>0, <1>1, <1>3, <2>1 DEF Send, TypeOK
  <2>2. CASE q # p
    <3>1. proc'[q] = proc[q]
      BY <1>3, <2>2
    <3>2. proc[q].order \in Orders
      BY <1>0, <3>1, HeldType
    <3> QED
      BY <1>2, <3>1, <3>2 DEF Inv, AnswersAreDelivered
  <2> QED
    BY <2>1, <2>2
<1>5. HeldIsCurrent'
  BY <1>1, <1>3 DEF Send, row, Inv, HeldIsCurrent, Holds
<1>6. RecordedIsDelivered'
  BY <1>2 DEF Send, row, Inv, RecordedIsDelivered
<1>7. ForgottenOnlyIfOvertaken'
  BY <1>2 DEF Send, row, Inv, ForgottenOnlyIfOvertaken, Untold
<1> QED
  BY <1>0, <1>4, <1>5, <1>6, <1>7 DEF Inv

LEMMA NotifyStep ==
  ASSUME Inv, NEW p \in Processes, Notify(p)
  PROVE  Inv'
<1>0. TypeOK' /\ TypeOK
  BY TypeStep DEF Inv, Next
<1>1. CASE Load(p)
  <2>1. proc[p].order \in Orders
    BY <1>0, <1>1, HeldType DEF Load
  <2>2. /\ proc'[p] = [at |-> "loaded", order |-> proc[p].order, row |-> RowOf(proc[p].order)]
        /\ \A q \in Processes : q # p => proc'[q] = proc[q]
    BY <1>0, <1>1 DEF Load, TypeOK
  <2> QED
    BY <1>0, <1>1, <2>1, <2>2 DEF Load, row, history, RowOf, Holds, Inv, Untold,
       AnswersAreDelivered, HeldIsCurrent, RecordedIsDelivered, ForgottenOnlyIfOvertaken
<1>2. CASE Skip(p)
  BY <1>0, <1>2, ReturnHolds DEF Skip, row, history, Inv, Untold,
     AnswersAreDelivered, HeldIsCurrent, RecordedIsDelivered, ForgottenOnlyIfOvertaken
<1>3. CASE Drop(p)
  <2>1. AnswersAreDelivered' /\ HeldIsCurrent' /\ RecordedIsDelivered'
    BY <1>0, <1>3, ReturnHolds DEF Drop, Inv, AnswersAreDelivered, HeldIsCurrent,
       RecordedIsDelivered
  <2>2. \A x \in Orders : x # proc[p].order => pending'[x] = pending[x]
    BY <1>0, <1>3 DEF Drop, TypeOK
  <2>3. ForgottenOnlyIfOvertaken'
    BY <1>3, <2>2 DEF Drop, Inv, ForgottenOnlyIfOvertaken, Untold
  <2> QED
    BY <1>0, <2>1, <2>3 DEF Inv
<1>4. CASE Postpone(p)
  <2>1. AnswersAreDelivered' /\ HeldIsCurrent' /\ RecordedIsDelivered'
    BY <1>0, <1>4, ReturnHolds DEF Postpone, history, Inv, AnswersAreDelivered,
       HeldIsCurrent, RecordedIsDelivered
  <2>2. \A x \in Orders : pending[x] => pending'[x]
    BY <1>0, <1>4 DEF Postpone, TypeOK, Flushed
  <2>3. ForgottenOnlyIfOvertaken'
    BY <1>4, <2>2 DEF Postpone, history, Inv, ForgottenOnlyIfOvertaken, Untold
  <2> QED
    BY <1>0, <2>1, <2>3 DEF Inv
<1>5. CASE Dial(p)
  <2>1. /\ proc'[p] = [at |-> "sending", order |-> proc[p].order, row |-> proc[p].row]
        /\ \A q \in Processes : q # p => proc'[q] = proc[q]
    BY <1>0, <1>5 DEF Dial, TypeOK
  <2>2. proc[p].at = "loaded"
    BY <1>5 DEF Dial, MayNotify
  <2> QED
    BY <1>0, <1>5, <2>1, <2>2 DEF Dial, row, history, Holds, Inv, Untold,
       AnswersAreDelivered, HeldIsCurrent, RecordedIsDelivered, ForgottenOnlyIfOvertaken
<1>6. ASSUME NEW reached \in BOOLEAN, NEW sent \in BOOLEAN, Send(p, reached, sent)
      PROVE  Inv'
  BY <1>6, SendStep
<1>7. CASE Record(p)
  BY <1>7, RecordStep
<1>8. CASE Fail(p)
  BY <1>0, <1>8, ReturnHolds DEF Fail, row, Inv, Untold,
     AnswersAreDelivered, HeldIsCurrent, RecordedIsDelivered, ForgottenOnlyIfOvertaken
<1> QED
  BY <1>1, <1>2, <1>3, <1>4, <1>5, <1>6, <1>7, <1>8 DEF Notify

LEMMA PatchStep ==
  ASSUME Inv, NEW a \in Admins, NEW o \in Orders, NEW to \in NotifyStatuses, Patch(a, o, to)
  PROVE  Inv'
<1>0. TypeOK' /\ TypeOK
  BY TypeStep DEF Inv, Next
<1>1. /\ proc'[a] = [at |-> "refresh", order |-> o]
      /\ \A q \in Processes : q # a => proc'[q] = proc[q]
  BY <1>0 DEF Patch, TypeOK, Processes
<1>2. \A q \in Processes, x \in Orders : Holds(q, x)' => Holds(q, x) /\ proc'[q] = proc[q]
  BY <1>1 DEF Holds
<1>3. AnswersAreDelivered'
  BY <1>1 DEF Patch, Inv, AnswersAreDelivered
<1>4. HeldIsCurrent'
  <2> SUFFICES ASSUME NEW q \in Processes, NEW x \in Orders, Holds(q, x)', x \notin overtaken'
               PROVE  proc'[q].row.status = status'[x]
    BY DEF HeldIsCurrent
  <2>1. x # o
    BY <1>2 DEF Patch, Held
  <2>2. x \notin overtaken /\ status'[x] = status[x]
    BY <1>0, <2>1 DEF Patch, TypeOK
  <2> QED
    BY <1>2, <2>2 DEF Inv, HeldIsCurrent
<1>5. RecordedIsDelivered'
  BY DEF Patch, Inv, RecordedIsDelivered
<1>6. ForgottenOnlyIfOvertaken'
  <2> SUFFICES ASSUME NEW x \in Orders, Untold(x)', x \notin overtaken'
               PROVE  pending'[x]
    BY DEF ForgottenOnlyIfOvertaken
  <2>1. CASE x = o
    BY <1>0, <2>1 DEF Patch, TypeOK
  <2>2. CASE x # o
    <3>1. /\ status'[x] = status[x]
          /\ pending'[x] = pending[x]
          /\ x \notin overtaken
          /\ x \notin waived
      BY <1>0, <2>2 DEF Patch, TypeOK, Untold
    <3> QED
      BY <3>1 DEF Patch, Inv, ForgottenOnlyIfOvertaken, Untold
  <2> QED
    BY <2>1, <2>2
<1> QED
  BY <1>0, <1>3, <1>4, <1>5, <1>6 DEF Inv

LEMMA InvStep == Inv /\ [Next]_vars => Inv'
<1> SUFFICES ASSUME Inv, [Next]_vars PROVE Inv'
  OBVIOUS
<1>0. TypeOK' /\ TypeOK
  BY TypeStep DEF Inv
<1>1. ASSUME NEW p \in Processes, Notify(p)
      PROVE  Inv'
  BY <1>1, NotifyStep
<1>2. ASSUME NEW a \in Admins, NEW o \in Orders, NEW to \in NotifyStatuses, Patch(a, o, to)
      PROVE  Inv'
  BY <1>2, PatchStep
<1>3. ASSUME UNCHANGED <<status, pending, notified, delivered, waived, overtaken>>,
             \A q \in Processes, o \in Orders :
               Holds(q, o)' => \/ Holds(q, o) /\ proc'[q] = proc[q]
                               \/ proc'[q].at = "loaded" /\ proc'[q].row.status = status[o],
             \A q \in Processes : proc'[q].at = "answered" => proc'[q] = proc[q]
      PROVE  Inv'
  BY <1>0, <1>3 DEF Inv, AnswersAreDelivered, HeldIsCurrent,
     RecordedIsDelivered, ForgottenOnlyIfOvertaken, Untold
<1>4. CASE UNCHANGED vars
  BY <1>3, <1>4 DEF vars, row, history, Holds
<1>5. CASE Toggle
  BY <1>3, <1>5 DEF Toggle, row, history, Holds
<1>6. CASE \E o \in Orders : CustomerWrites(o) \/ WindowCloses(o)
  BY <1>3, <1>6 DEF CustomerWrites, WindowCloses, row, history, Holds
<1>7. CASE Tick
  <2>1. \A q \in Processes : proc'[q] = proc[q] \/ proc'[q].at = "due"
    BY <1>0, <1>7 DEF Tick, TypeOK
  <2> QED
    BY <1>3, <1>7, <2>1 DEF Tick, history, Holds
<1>8. CASE Restart
  BY <1>3, <1>8 DEF Restart, row, Holds, Idle
<1>9. ASSUME NEW a \in Admins, Refresh(a)
      PROVE  Inv'
  <2>1. \A q \in Processes : proc'[q] = proc[q] \/ proc'[q].at \in {"start", "idle"}
    BY <1>0, <1>9 DEF Refresh, TypeOK, Idle
  <2> QED
    BY <1>3, <1>9, <2>1 DEF Refresh, row, history, Holds
<1>10. CASE FlushQuery
  <2>0. PICK act : proc' = [proc EXCEPT ![Flusher] = act] /\
                   (\/ act = Idle
                    \/ \E o \in Orders : act = [at |-> "loaded", order |-> o, row |-> RowOf(o)])
    BY <1>10 DEF FlushQuery
  <2>1. \A q \in Processes : q # Flusher => proc'[q] = proc[q]
    BY <1>0, <2>0 DEF TypeOK
  <2>2. \/ proc'[Flusher].at = "idle"
        \/ \E o \in Orders : proc'[Flusher] = [at |-> "loaded", order |-> o, row |-> RowOf(o)]
    BY <1>0, <2>0 DEF TypeOK, Idle, Processes
  <2>3. \A q \in Processes, o \in Orders :
          Holds(q, o)' => \/ Holds(q, o) /\ proc'[q] = proc[q]
                          \/ proc'[q].at = "loaded" /\ proc'[q].row.status = status[o]
    <3> SUFFICES ASSUME NEW q \in Processes, NEW o \in Orders, Holds(q, o)', q = Flusher
                 PROVE  proc'[q].at = "loaded" /\ proc'[q].row.status = status[o]
      BY <2>1 DEF Holds
    <3>1. proc'[Flusher].at # "idle" /\ proc'[Flusher].order = o
      BY DEF Holds
    <3>2. PICK x \in Orders :
            proc'[Flusher] = [at |-> "loaded", order |-> x, row |-> RowOf(x)]
      BY <2>2, <3>1, Zenon
    <3>3. x = o
      BY <3>1, <3>2
    <3> QED
      BY <3>2, <3>3 DEF RowOf
  <2>4. \A q \in Processes : proc'[q].at = "answered" => proc'[q] = proc[q]
    <3>1. proc'[Flusher].at \in {"idle", "loaded"}
      <4>1. ASSUME NEW o \in Orders,
                   proc'[Flusher] = [at |-> "loaded", order |-> o, row |-> RowOf(o)]
            PROVE  proc'[Flusher].at = "loaded"
        BY <4>1
      <4> QED
        BY <2>2, <4>1, Zenon
    <3> QED
      BY <2>1, <3>1
  <2>5. UNCHANGED <<status, pending, notified, delivered, waived, overtaken>>
    BY <1>10 DEF FlushQuery, row
  <2> QED
    BY <1>3, <2>3, <2>4, <2>5
<1> QED
  BY <1>1, <1>2, <1>4, <1>5, <1>6, <1>7, <1>8, <1>9, <1>10 DEF Next

LEMMA Invariance == Spec => []Inv
  BY InvInit, InvStep, PTL DEF Spec

(* The row only records statuses the customer was really told about.       *)
THEOREM RecordIsTrue == Spec => []RecordedIsDelivered
<1>1. Inv => RecordedIsDelivered
  BY DEF Inv
<1> QED
  BY Invariance, <1>1, PTL

(* A notification is only ever lost when a patch overtakes a notifier that *)
(* still holds the order's older row.                                      *)
THEOREM LossNeedsOvertaking == Spec => []ForgottenOnlyIfOvertaken
<1>1. Inv => ForgottenOnlyIfOvertaken
  BY DEF Inv
<1> QED
  BY Invariance, <1>1, PTL

-----------------------------------------------------------------------------
(* Why a customer is told once.  An order never comes back to a status it  *)
(* has left, so what was delivered are statuses gone through.  As long as  *)
(* nothing makes the order unsure, one notifier at most holds its row and  *)
(* nobody else writes it but a patch, which moves to a status not told     *)
(* yet; and a status told is recorded, or its notifier is about to record  *)
(* it.                                                                     *)
Past == [pending   |-> {"pending"},
         confirmed |-> {"pending", "confirmed"},
         shipped   |-> {"pending", "confirmed", "shipped"},
         cancelled |-> {"pending", "confirmed", "cancelled"}]

GoneThrough(o) == /\ delivered[o] \subseteq Past[status[o]]
                  /\ \A p \in Processes : Holds(p, o) => proc[p].row.status \in Past[status[o]]

HeldByOne(o) == \A p, q \in Processes : Holds(p, o) /\ Holds(q, o) => p = q

AsLoaded(o) == \A p \in Processes : Holds(p, o) =>
                 /\ proc[p].row.notified = notified[o]
                 /\ proc[p].row.status = status[o] => proc[p].row.pending = pending[o]
                 /\ proc[p].row.status # status[o] => status[o] \notin delivered[o]

StillToTell(p) == \/ proc[p].at = "loaded" /\ ~Told(proc[p].row)
                  \/ proc[p].at = "sending"
                  \/ proc[p].at = "answered" /\ ~proc[p].sent

NotTold(o) == \A p \in Processes : Holds(p, o) /\ StillToTell(p) =>
                proc[p].row.status \notin delivered[o]

Reports(p, o) == /\ proc[p].at = "answered" /\ proc[p].order = o /\ proc[p].sent
                 /\ proc[p].row.status = status[o]

TellingIsRecorded(o) == status[o] \in delivered[o] =>
                          \/ ~pending[o] /\ notified[o] = status[o]
                          \/ \E p \in Processes : Reports(p, o)

Sure(o) == HeldByOne(o) /\ AsLoaded(o) /\ NotTold(o) /\ TellingIsRecorded(o)


Once(o) == GoneThrough(o) /\ (o \notin unsure => Sure(o))

OnceInv == \A o \in Orders : Once(o)

LEMMA PastGrows ==
  /\ \A s \in Statuses : s \in Past[s]
  /\ \A s \in Statuses : \A to \in Transitions[s] : Past[s] \subseteq Past[to] /\ to \notin Past[s]
<1>1. /\ Past["pending"] = {"pending"}
      /\ Past["confirmed"] = {"pending", "confirmed"}
      /\ Past["shipped"] = {"pending", "confirmed", "shipped"}
      /\ Past["cancelled"] = {"pending", "confirmed", "cancelled"}
  BY DEF Past
<1>2. /\ Transitions["pending"] = {"confirmed", "cancelled"}
      /\ Transitions["confirmed"] = {"shipped", "cancelled"}
      /\ Transitions["shipped"] = {} /\ Transitions["cancelled"] = {}
  BY DEF Transitions
<1>3. \A s \in Statuses : s = "pending" \/ s = "confirmed" \/ s = "shipped" \/ s = "cancelled"
  BY DEF Statuses, NotifyStatuses
<1>4. \A s \in Statuses : s \in Past[s]
  BY <1>1, <1>3
<1>5. \A s \in Statuses : \A to \in Transitions[s] : Past[s] \subseteq Past[to] /\ to \notin Past[s]
  BY <1>1, <1>2, <1>3
<1> QED
  BY <1>4, <1>5

LEMMA OnceInit == Init => OnceInv
<1> SUFFICES ASSUME Init, NEW o \in Orders PROVE Once(o)
  BY DEF OnceInv
<1>1. \A p \in Processes : ~Holds(p, o)
  BY DEF Init, Idle, Holds
<1>2. delivered[o] = {}
  BY DEF Init
<1> QED
  BY <1>1, <1>2 DEF Once, GoneThrough, Sure, HeldByOne, AsLoaded, NotTold, TellingIsRecorded

(* Steps that leave an order's row and its holders alone.                  *)
LEMMA KeptOnce ==
  ASSUME NEW o \in Orders, Once(o), o \in unsure => o \in unsure',
         status'[o] = status[o], pending'[o] = pending[o],
         notified'[o] = notified[o], delivered'[o] = delivered[o],
         \A p \in Processes : Holds(p, o)' => proc'[p] = proc[p],
         \A p \in Processes : Reports(p, o) => proc'[p] = proc[p] \/ o \in unsure'
  PROVE  Once(o)'
<1>1. \A p \in Processes : Holds(p, o)' => Holds(p, o) /\ proc'[p] = proc[p]
  BY DEF Holds
<1>2. GoneThrough(o)'
  BY <1>1 DEF Once, GoneThrough
<1>3. ASSUME o \notin unsure'
      PROVE  Sure(o)'
  <2>1. Sure(o)
    BY <1>3 DEF Once
  <2>2. HeldByOne(o)'
    BY <1>1, <2>1 DEF Sure, HeldByOne
  <2>3. AsLoaded(o)'
    BY <1>1, <2>1 DEF Sure, AsLoaded
  <2>4. NotTold(o)'
    BY <1>1, <2>1 DEF Sure, NotTold, StillToTell
  <2>5. TellingIsRecorded(o)'
    BY <1>3, <2>1 DEF Sure, TellingIsRecorded, Reports
  <2> QED
    BY <2>2, <2>3, <2>4, <2>5 DEF Sure
<1> QED
  BY <1>2, <1>3 DEF Once

(* A notifier loads the row: it is the only one, or the order is unsure.   *)
LEMMA TakenOnce ==
  ASSUME TypeOK, NEW p \in Processes, NEW x \in Orders,
         proc[p].at \notin {"loaded", "sending", "answered"},
         proc' = [proc EXCEPT ![p] = [at |-> "loaded", order |-> x, row |-> RowOf(x)]],
         Doubled(x), UNCHANGED <<status, pending, notified, delivered>>,
         NEW o \in Orders, Once(o)
  PROVE  Once(o)'
<1>1. /\ proc'[p] = [at |-> "loaded", order |-> x, row |-> RowOf(x)]
      /\ \A q \in Processes : q # p => proc'[q] = proc[q]
  BY DEF TypeOK
<1>2. CASE o # x
  <2>1. \A q \in Processes : Holds(q, o)' => proc'[q] = proc[q]
    BY <1>1, <1>2 DEF Holds
  <2>2. \A q \in Processes : Reports(q, o) => proc'[q] = proc[q]
    BY <1>1 DEF Reports
  <2> QED
    BY <1>2, <2>1, <2>2, KeptOnce DEF Doubled
<1>3. CASE o = x
  <2>1. status[o] \in Past[status[o]]
    BY PastGrows DEF TypeOK
  <2>2. \A q \in Processes : Holds(q, o)' => \/ Holds(q, o) /\ proc'[q] = proc[q]
                                             \/ q = p /\ proc'[q].row.status = status[o]
    BY <1>1, <1>3 DEF Holds, RowOf
  <2>3. GoneThrough(o)'
    BY <2>1, <2>2 DEF Once, GoneThrough
  <2>4. ASSUME o \notin unsure'
        PROVE  Sure(o)'
    <3>1. \A q \in Processes : ~Holds(q, o)
      BY <1>3, <2>4 DEF Doubled, Held
    <3>2. Sure(o)
      BY <1>3, <2>4, <3>1 DEF Doubled, Held, Once
    <3>3. \A q \in Processes : Holds(q, o)' => q = p
      BY <1>1, <3>1 DEF Holds
    <3>4. HeldByOne(o)'
      BY <3>3 DEF HeldByOne
    <3>5. /\ proc'[p].row.status = status[o] /\ proc'[p].row.pending = pending[o]
          /\ proc'[p].row.notified = notified[o] /\ proc'[p].at = "loaded"
      BY <1>1, <1>3 DEF RowOf
    <3>6. AsLoaded(o)'
      BY <3>3, <3>5 DEF AsLoaded
    <3>7. status[o] \in delivered[o] => ~pending[o] /\ notified[o] = status[o]
      BY <3>1, <3>2 DEF Sure, TellingIsRecorded, Reports, Holds
    <3>8. NotTold(o)'
      BY <3>3, <3>5, <3>7 DEF NotTold, StillToTell, Told
    <3>9. TellingIsRecorded(o)'
      BY <3>7 DEF TellingIsRecorded
    <3> QED
      BY <3>4, <3>6, <3>8, <3>9 DEF Sure
  <2> QED
    BY <2>3, <2>4 DEF Once
<1> QED
  BY <1>2, <1>3

(* A notifier is done with the row and has written what it must.           *)
LEMMA LetGoOnce ==
  ASSUME TypeOK, NEW p \in Processes, NEW x \in Orders, Holds(p, x), Return(p),
         UNCHANGED <<status, delivered, unsure>>,
         \A o \in Orders \ {x} : pending'[o] = pending[o] /\ notified'[o] = notified[o],
         Sure(x) /\ status[x] \in delivered[x] => ~pending'[x] /\ notified'[x] = status[x],
         NEW o \in Orders, Once(o)
  PROVE  Once(o)'
<1>1. \A q \in Processes : /\ Holds(q, o)' => q # p /\ Holds(q, o) /\ proc'[q] = proc[q]
                           /\ q # p => proc'[q] = proc[q]
  BY ReturnHolds, ReturnType
<1>2. CASE o # x
  <2>1. \A q \in Processes : Reports(q, o) => proc'[q] = proc[q]
    BY <1>1, <1>2 DEF Reports, Holds
  <2> QED
    BY <1>1, <1>2, <2>1, KeptOnce
<1>3. CASE o = x
  <2>1. GoneThrough(o)'
    BY <1>1 DEF Once, GoneThrough
  <2>2. ASSUME o \notin unsure'
        PROVE  Sure(o)'
    <3>1. Sure(o)
      BY <2>2 DEF Once
    <3>2. \A q \in Processes : ~Holds(q, o)'
      BY <1>1, <1>3, <3>1 DEF Sure, HeldByOne
    <3>3. TellingIsRecorded(o)'
      BY <1>3, <3>1 DEF TellingIsRecorded
    <3> QED
      BY <3>2, <3>3 DEF Sure, HeldByOne, AsLoaded, NotTold
  <2> QED
    BY <2>1, <2>2 DEF Once
<1> QED
  BY <1>2, <1>3

(* Who holds the row before the send finds it as it was loaded.            *)
LEMMA BeforeSending ==
  ASSUME NEW p \in Processes, NEW x \in Orders, Holds(p, x), Sure(x), StillToTell(p)
  PROVE  status[x] \notin delivered[x]
  BY DEF Sure, AsLoaded, NotTold

LEMMA SendOnce ==
  ASSUME TypeOK, NEW p \in Processes, NEW reached \in BOOLEAN, NEW sent \in BOOLEAN,
         Send(p, reached, sent), NEW o \in Orders, Once(o)
  PROVE  Once(o)'
<1> DEFINE w == proc[p]
           x == w.order
<1>1. x \in Orders /\ w.row \in NotifyRow /\ Holds(p, x) /\ StillToTell(p)
  BY HeldType DEF Send, Holds, StillToTell
<1>2. /\ proc'[p] = [at |-> "answered", order |-> x, row |-> w.row, sent |-> sent]
      /\ \A q \in Processes : q # p => proc'[q] = proc[q]
  BY DEF Send, TypeOK
<1>3. UNCHANGED <<status, pending, notified>> /\ (sent => reached) /\ w.at = "sending"
  BY DEF Send, row
<1>4. /\ delivered'[x] = IF reached THEN delivered[x] \cup {w.row.status} ELSE delivered[x]
      /\ \A y \in Orders \ {x} : delivered'[y] = delivered[y]
  BY <1>1 DEF Send, TypeOK
<1>5. unsure' = IF reached /\ ~sent THEN unsure \cup {x} ELSE unsure
  BY DEF Send
<1>6. CASE o # x
  <2>1. \A q \in Processes : Holds(q, o)' => proc'[q] = proc[q]
    BY <1>2, <1>6 DEF Holds
  <2>2. \A q \in Processes : Reports(q, o) => proc'[q] = proc[q]
    BY <1>2, <1>6 DEF Reports
  <2>3. delivered'[o] = delivered[o] /\ (o \in unsure => o \in unsure')
    BY <1>4, <1>5, <1>6
  <2> QED
    BY <1>3, <2>1, <2>2, <2>3, KeptOnce
<1>7. CASE o = x
  <2>1. \A q \in Processes : Holds(q, o)' => Holds(q, o) /\ proc'[q].row = proc[q].row
    BY <1>1, <1>2, <1>7 DEF Holds
  <2>2. GoneThrough(o)'
    BY <1>1, <1>3, <1>4, <1>7, <2>1 DEF Once, GoneThrough
  <2>3. ASSUME o \notin unsure'
        PROVE  Sure(o)'
    <3>1. Sure(o) /\ (reached => sent)
      BY <1>5, <1>7, <2>3 DEF Once
    <3>2. \A q \in Processes : Holds(q, o)' => q = p
      BY <1>1, <1>7, <2>1, <3>1 DEF Sure, HeldByOne
    <3>3. HeldByOne(o)'
      BY <3>2 DEF HeldByOne
    <3>4. status[o] \notin delivered[o] /\ w.row.status \notin delivered[o]
      BY <1>1, <1>7, <3>1, BeforeSending DEF Sure, NotTold
    <3>5. w.row.notified = notified[o] /\ (w.row.status = status[o] => w.row.pending = pending[o])
      BY <1>1, <1>7, <3>1 DEF Sure, AsLoaded
    <3>6. w.row.status # status[o] => status[o] \notin delivered'[o]
      BY <1>4, <1>7, <3>4
    <3>7. AsLoaded(o)'
      BY <1>2, <1>3, <3>2, <3>5, <3>6 DEF AsLoaded
    <3>8. NotTold(o)'
      BY <1>2, <1>4, <1>7, <3>1, <3>2, <3>4 DEF NotTold, StillToTell
    <3>9. TellingIsRecorded(o)'
      <4>1. ASSUME status[o] \in delivered'[o]
            PROVE  Reports(p, o)'
        BY <1>2, <1>3, <1>4, <1>7, <3>1, <3>4, <4>1 DEF Reports
      <4> QED
        BY <1>3, <4>1 DEF TellingIsRecorded
    <3> QED
      BY <3>3, <3>7, <3>8, <3>9 DEF Sure
  <2> QED
    BY <2>2, <2>3 DEF Once
<1> QED
  BY <1>6, <1>7

LEMMA RecordOnce ==
  ASSUME TypeOK, NEW p \in Processes, Record(p), NEW o \in Orders, Once(o)
  PROVE  Once(o)'
<1> DEFINE w == proc[p]
           x == w.order
<1>1. x \in Orders /\ w.row \in NotifyRow /\ w.sent \in BOOLEAN /\ Holds(p, x)
  BY HeldType DEF Record, Holds
<1>2. UNCHANGED <<status, delivered, unsure>> /\ Return(p) /\ w.at = "answered"
  BY DEF Record, history
<1>3. /\ pending'[x] = PendingAfter(w) /\ notified'[x] = NotifiedAfter(w)
      /\ \A y \in Orders \ {x} : pending'[y] = pending[y] /\ notified'[y] = notified[y]
  BY <1>1 DEF Record, TypeOK
<1>4. ASSUME Sure(x), status[x] \in delivered[x]
      PROVE  ~pending'[x] /\ notified'[x] = status[x]
  <2>1. w.sent
    BY <1>1, <1>2, <1>4, BeforeSending DEF StillToTell
  <2>2. w.row.status = status[x] /\ w.row.pending = pending[x] /\ w.row.notified = notified[x]
    BY <1>1, <1>4 DEF Sure, AsLoaded
  <2>3. PendingAfter(w) = FALSE
    BY <1>1, <2>1, <2>2 DEF PendingAfter, Flushed, TypeOK
  <2>4. NotifiedAfter(w) = status[x]
    BY <2>1, <2>2 DEF NotifiedAfter, Flushed
  <2> QED
    BY <1>3, <2>3, <2>4
<1> HIDE DEF x
<1> QED
  BY <1>1, <1>2, <1>3, <1>4, LetGoOnce

(* A notifier that raises writes nothing; when its message is out the      *)
(* order is unsure, and otherwise the status it holds is not recorded.     *)
LEMMA FailOnce ==
  ASSUME TypeOK, NEW p \in Processes, Fail(p), NEW o \in Orders, Once(o)
  PROVE  Once(o)'
<1>1. UNCHANGED <<status, pending, notified, delivered>> /\ Return(p)
  BY DEF Fail, row
<1>2. \A q \in Processes : /\ Holds(q, o)' => q # p /\ Holds(q, o) /\ proc'[q] = proc[q]
                           /\ q # p => proc'[q] = proc[q]
  BY <1>1, ReturnHolds, ReturnType
<1>3. o \in unsure => o \in unsure'
  BY DEF Fail
<1>4. Reports(p, o) => o \in unsure'
  BY DEF Fail, Reports
<1> QED
  BY <1>1, <1>2, <1>3, <1>4, KeptOnce

LEMMA PatchOnce ==
  ASSUME TypeOK, NEW a \in Admins, NEW x \in Orders, NEW to \in NotifyStatuses, Patch(a, x, to),
         NEW o \in Orders, Once(o)
  PROVE  Once(o)'
<1>1. /\ proc'[a] = [at |-> "refresh", order |-> x] /\ proc[a].at = "idle"
      /\ \A q \in Processes : q # a => proc'[q] = proc[q]
  BY DEF Patch, TypeOK, Processes, Idle
<1>2. /\ \A q \in Processes : Holds(q, o)' => Holds(q, o) /\ proc'[q] = proc[q]
      /\ \A q \in Processes : Holds(q, o) \/ Reports(q, o) => proc'[q] = proc[q]
  BY <1>1 DEF Holds, Reports
<1>3. /\ status'[x] = to /\ to \in Transitions[status[x]] /\ status[x] \in Statuses
      /\ \A y \in Orders \ {x} : status'[y] = status[y] /\ pending'[y] = pending[y]
      /\ UNCHANGED <<notified, delivered>>
  BY DEF Patch, TypeOK
<1>4. unsure' = IF Held(x) THEN unsure ELSE unsure \ {x}
  BY DEF Patch
<1>5. CASE o # x
  BY <1>2, <1>3, <1>4, <1>5, KeptOnce
<1>6. CASE o = x
  <2>1. GoneThrough(o)'
    BY <1>2, <1>3, <1>6, PastGrows DEF Once, GoneThrough
  <2>2. to \notin delivered[o] /\ \A q \in Processes : Holds(q, o) => proc[q].row.status # to
    BY <1>3, <1>6, PastGrows DEF Once, GoneThrough
  <2>3. ASSUME o \notin unsure'
        PROVE  Sure(o)'
    <3>1. TellingIsRecorded(o)'
      BY <1>3, <1>6, <2>2 DEF TellingIsRecorded
    <3>2. CASE ~Held(o)
      BY <1>2, <3>1, <3>2 DEF Held, Sure, HeldByOne, AsLoaded, NotTold
    <3>3. CASE Held(o)
      <4>1. Sure(o)
        BY <1>4, <1>6, <2>3, <3>3 DEF Once
      <4>2. HeldByOne(o)'
        BY <1>2, <4>1 DEF Sure, HeldByOne
      <4>3. AsLoaded(o)'
        BY <1>2, <1>3, <1>6, <2>2, <4>1 DEF Sure, AsLoaded
      <4>4. NotTold(o)'
        BY <1>2, <1>3, <4>1 DEF Sure, NotTold, StillToTell
      <4> QED
        BY <3>1, <4>2, <4>3, <4>4 DEF Sure
    <3> QED
      BY <3>2, <3>3
  <2> QED
    BY <2>1, <2>3 DEF Once
<1> QED
  BY <1>5, <1>6

LEMMA NotifyOnce ==
  ASSUME TypeOK, NEW p \in Processes, Notify(p), NEW o \in Orders, Once(o)
  PROVE  Once(o)'
<1> DEFINE x == proc[p].order
<1>1. CASE Load(p)
  <2>1. x \in Orders
    BY <1>1, HeldType DEF Load
  <2>2. proc' = [proc EXCEPT ![p] = [at |-> "loaded", order |-> x, row |-> RowOf(x)]]
    BY <1>1 DEF Load
  <2>3. Doubled(x) /\ UNCHANGED <<status, pending, notified, delivered>> /\ proc[p].at = "start"
    BY <1>1 DEF Load, row
  <2> HIDE DEF x
  <2> QED
    BY <2>1, <2>2, <2>3, TakenOnce
<1>2. CASE Skip(p)
  <2>1. x \in Orders /\ Holds(p, x) /\ ~Reports(p, x)
    BY <1>2, HeldType DEF Skip, Holds, Reports
  <2>2. UNCHANGED <<status, pending, notified, delivered, unsure>> /\ Return(p)
    BY <1>2 DEF Skip, row, history
  <2>3. Sure(x) /\ status[x] \in delivered[x] => ~pending[x] /\ notified[x] = status[x]
    BY <2>1 DEF Sure, HeldByOne, TellingIsRecorded, Reports, Holds
  <2> HIDE DEF x
  <2> QED
    BY <2>1, <2>2, <2>3, LetGoOnce
<1>3. CASE Drop(p)
  <2>1. x \in Orders /\ Holds(p, x) /\ ~Reports(p, x)
    BY <1>3, HeldType DEF Drop, Holds, Reports
  <2>2. UNCHANGED <<status, notified, delivered, unsure>> /\ Return(p)
    BY <1>3 DEF Drop
  <2>3. pending' = [pending EXCEPT ![x] = FALSE]
    BY <1>3 DEF Drop
  <2>4. Sure(x) /\ status[x] \in delivered[x] => notified[x] = status[x]
    BY <2>1 DEF Sure, HeldByOne, TellingIsRecorded, Reports, Holds
  <2> HIDE DEF x
  <2>5. ~pending'[x] /\ \A y \in Orders \ {x} : pending'[y] = pending[y]
    BY <2>1, <2>3 DEF TypeOK
  <2> QED
    BY <2>1, <2>2, <2>4, <2>5, LetGoOnce
<1>4. CASE Postpone(p)
  <2>1. x \in Orders /\ Holds(p, x) /\ StillToTell(p)
    BY <1>4, HeldType DEF Postpone, MayNotify, Holds, StillToTell
  <2>2. UNCHANGED <<status, notified, delivered, unsure>> /\ Return(p)
    BY <1>4 DEF Postpone, history
  <2>3. \A y \in Orders \ {x} : pending'[y] = pending[y]
    BY <1>4 DEF Postpone, TypeOK
  <2> HIDE DEF x
  <2>4. Sure(x) => status[x] \notin delivered[x]
    BY <2>1, BeforeSending
  <2> QED
    BY <2>1, <2>2, <2>3, <2>4, LetGoOnce
<1>5. CASE Dial(p)
  <2>1. /\ proc'[p] = [at |-> "sending", order |-> x, row |-> proc[p].row]
        /\ \A q \in Processes : q # p => proc'[q] = proc[q]
    BY <1>5 DEF Dial, TypeOK
  <2>2. UNCHANGED <<status, pending, notified, delivered, unsure>>
    BY <1>5 DEF Dial, row, history
  <2>3. x \in Orders /\ Holds(p, x) /\ StillToTell(p) /\ proc[p].at = "loaded"
    BY <1>5, HeldType DEF Dial, MayNotify, Holds, StillToTell
  <2>4. CASE o # x
    <3>1. \A q \in Processes : Holds(q, o)' => proc'[q] = proc[q]
      BY <2>1, <2>4 DEF Holds
    <3>2. \A q \in Processes : Reports(q, o) => proc'[q] = proc[q]
      BY <2>1, <2>4 DEF Reports
    <3> QED
      BY <2>2, <3>1, <3>2, KeptOnce
  <2>5. CASE o = x
    <3>1. \A q \in Processes : Holds(q, o)' => Holds(q, o) /\ proc'[q].row = proc[q].row
      BY <2>1, <2>3, <2>5 DEF Holds
    <3>2. GoneThrough(o)'
      BY <2>2, <3>1 DEF Once, GoneThrough
    <3>3. ASSUME o \notin unsure'
          PROVE  Sure(o)'
      <4>1. Sure(o)
        BY <2>2, <3>3 DEF Once
      <4>2. HeldByOne(o)' /\ AsLoaded(o)'
        BY <2>2, <3>1, <4>1 DEF Sure, HeldByOne, AsLoaded
      <4>3. NotTold(o)'
        BY <2>1, <2>2, <2>3, <2>5, <3>1, <4>1 DEF Sure, NotTold, StillToTell
      <4>4. TellingIsRecorded(o)'
        BY <2>1, <2>2, <2>3, <4>1 DEF Sure, TellingIsRecorded, Reports
      <4> QED
        BY <4>2, <4>3, <4>4 DEF Sure
    <3> QED
      BY <3>2, <3>3 DEF Once
  <2> QED
    BY <2>4, <2>5
<1>6. ASSUME NEW reached \in BOOLEAN, NEW sent \in BOOLEAN, Send(p, reached, sent)
      PROVE  Once(o)'
  BY <1>6, SendOnce
<1>7. CASE Record(p)
  BY <1>7, RecordOnce
<1>8. CASE Fail(p)
  BY <1>8, FailOnce
<1> QED
  BY <1>1, <1>2, <1>3, <1>4, <1>5, <1>6, <1>7, <1>8 DEF Notify

LEMMA OnceStep == TypeOK /\ OnceInv /\ [Next]_vars => OnceInv'
<1> SUFFICES ASSUME TypeOK, OnceInv, [Next]_vars, NEW o \in Orders PROVE Once(o)'
  BY DEF OnceInv
<1>0. Once(o)
  BY DEF OnceInv
<1>1. ASSUME UNCHANGED <<status, pending, notified, delivered, unsure>>,
             \A q \in Processes : proc'[q] = proc[q] \/
               (/\ proc[q].at \notin {"loaded", "sending", "answered"}
                /\ proc'[q].at \notin {"loaded", "sending", "answered"})
      PROVE  Once(o)'
  <2>1. \A q \in Processes : Holds(q, o)' => proc'[q] = proc[q]
    BY <1>1 DEF Holds
  <2>2. \A q \in Processes : Reports(q, o) => proc'[q] = proc[q]
    BY <1>1 DEF Reports
  <2> QED
    BY <1>0, <1>1, <2>1, <2>2, KeptOnce
<1>2. CASE UNCHANGED vars
  BY <1>1, <1>2 DEF vars, row, history
<1>3. CASE Toggle
  BY <1>1, <1>3 DEF Toggle, row, history
<1>4. CASE \E y \in Orders : CustomerWrites(y) \/ WindowCloses(y)
  BY <1>1, <1>4 DEF CustomerWrites, WindowCloses, row, history
<1>5. CASE Tick
  <2>1. \A q \in Processes : proc'[q] = proc[q] \/
          (proc[q].at = "idle" /\ proc'[q].at = "due")
    BY <1>5 DEF Tick, TypeOK, Idle
  <2> QED
    BY <1>1, <1>5, <2>1 DEF Tick, history
<1>6. CASE Restart
  <2>1. \A q \in Processes : ~Holds(q, o)'
    BY <1>6 DEF Restart, Holds, Idle
  <2>2. \A q \in Processes : Reports(q, o) => o \in unsure'
    BY <1>6 DEF Restart, Reports
  <2>3. unsure \subseteq unsure' /\ UNCHANGED <<status, pending, notified, delivered>>
    BY <1>6 DEF Restart, row
  <2> QED
    BY <1>0, <2>1, <2>2, <2>3, KeptOnce
<1>7. ASSUME NEW a \in Admins, NEW x \in Orders, NEW to \in NotifyStatuses, Patch(a, x, to)
      PROVE  Once(o)'
  BY <1>0, <1>7, PatchOnce
<1>8. ASSUME NEW a \in Admins, Refresh(a)
      PROVE  Once(o)'
  <2>1. \A q \in Processes : proc'[q] = proc[q] \/
          (proc[q].at = "refresh" /\ proc'[q].at \in {"start", "idle"})
    BY <1>8 DEF Refresh, TypeOK, Idle
  <2> QED
    BY <1>1, <1>8, <2>1 DEF Refresh, row, history
<1>9. CASE FlushQuery
  <2>0. Flusher \in Processes /\ proc[Flusher].at = "due"
    BY <1>9 DEF FlushQuery, Processes
  <2>1. UNCHANGED <<status, pending, notified, delivered>>
    BY <1>9 DEF FlushQuery, row
  <2>2. ASSUME proc' = [proc EXCEPT ![Flusher] = Idle], UNCHANGED unsure
        PROVE  Once(o)'
    <3>1. \A q \in Processes : proc'[q] = proc[q] \/ (q = Flusher /\ proc'[q].at = "idle")
      BY <2>2 DEF TypeOK, Idle
    <3> QED
      BY <1>1, <2>0, <2>1, <2>2, <3>1
  <2>3. ASSUME NEW x \in Orders, Doubled(x),
               proc' = [proc EXCEPT ![Flusher] = [at |-> "loaded", order |-> x, row |-> RowOf(x)]]
        PROVE  Once(o)'
    BY <1>0, <2>0, <2>1, <2>3, TakenOnce
  <2> QED
    BY <1>9, <2>2, <2>3 DEF FlushQuery
<1>10. ASSUME NEW p \in Processes, Notify(p)
       PROVE  Once(o)'
  BY <1>0, <1>10, NotifyOnce
<1> QED
  BY <1>2, <1>3, <1>4, <1>5, <1>6, <1>7, <1>8, <1>9, <1>10 DEF Next

(* A customer hears a status once, whatever requests, flushes and failing  *)
(* sends there are, unless a named cause of doubt occurred.                *)
THEOREM ToldOnce == Spec => []ToldOnceUnlessUnsure
<1>1. TypeOK /\ OnceInv => ToldOnceUnlessUnsure
  <2> SUFFICES ASSUME TypeOK, OnceInv, NEW p \in Processes, proc[p].at = "sending",
                      proc[p].order \notin unsure
               PROVE  proc[p].row.status \notin delivered[proc[p].order]
    BY DEF ToldOnceUnlessUnsure
  <2>1. proc[p].order \in Orders /\ Holds(p, proc[p].order) /\ StillToTell(p)
    BY HeldType DEF Holds, StillToTell
  <2> QED
    BY <2>1 DEF OnceInv, Once, Sure, NotTold
<1> QED
  BY <1>1, OnceInit, OnceStep, TypeCorrect, PTL DEF Spec

=============================================================================
