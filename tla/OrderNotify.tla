----------------------------- MODULE OrderNotify -----------------------------
(***************************************************************************)
(* The direct messages that tell a customer a new order status             *)
(* (update_order's tail and app/service/order_notify_service.py).  A patch *)
(* queues the notification in the order's row; the background task of the  *)
(* request and the flush worker both call notify_order_status, each with   *)
(* its own session, and nothing keeps them apart.  The admin's patch is    *)
(* one step here: OrderLifecycle shows why it may be.                      *)
(***************************************************************************)
EXTENDS Naturals, FiniteSets

CONSTANTS Orders,   \* order ids; a larger id is a newer order
          Admins,   \* patch requests that may run at the same time
          Flusher,  \* the flush worker
          Grace,    \* FLUSH_GRACE_SECONDS in flush intervals
          Limit,    \* orders of one flush
          Mishaps   \* bound on restarts and on failing statements

ASSUME OrdersAssumption == Orders \subseteq Nat
ASSUME FlusherAssumption == Flusher \notin Admins
ASSUME GraceAssumption == Grace \in Nat \ {0}
ASSUME LimitAssumption == Limit \in Nat \ {0}
ASSUME MishapsAssumption == Mishaps \in Nat

NotifyStatuses == {"confirmed", "shipped", "cancelled"}
Statuses == {"pending"} \cup NotifyStatuses

Transitions == [pending   |-> {"confirmed", "cancelled"},
                confirmed |-> {"shipped", "cancelled"},
                shipped   |-> {},
                cancelled |-> {}]

VARIABLES status,    \* Order.status
          pending,   \* Order.notify_pending
          notified,  \* Order.notified_status, "none" for NULL
          age,       \* flush intervals since Order.notify_updated_at
          enabled,   \* BotSetting.order_notify_enabled
          open,      \* orders whose customer wrote in the last 24 hours
          proc,      \* what every request and the flush worker is doing
          batch,     \* orders the running flush has still to visit
          mishaps,   \* how often the server restarted or a statement failed
          delivered, \* history: statuses the customer got a message about
          waived,    \* history: orders whose message the disable switch dropped
          overtaken, \* history: orders patched while a notifier held their row
          unsure     \* history: orders whose customer may hear a status again

row == <<status, pending, notified, age>>
history == <<delivered, waived, overtaken, unsure>>
vars == <<row, enabled, open, proc, batch, mishaps, history>>

Processes == Admins \cup {Flusher}

OrderRow == [status : Statuses, pending : BOOLEAN,
             notified : NotifyStatuses \cup {"none"}]
NotifyRow == [status : NotifyStatuses, pending : BOOLEAN,
              notified : NotifyStatuses \cup {"none"}]

Activity == [at : {"idle", "due"}]
              \cup [at : {"refresh", "start"}, order : Orders]
              \cup [at : {"loaded"}, order : Orders, row : OrderRow]
              \cup [at : {"sending"}, order : Orders, row : NotifyRow]
              \cup [at : {"answered"}, order : Orders, row : NotifyRow, sent : BOOLEAN]

Idle == [at |-> "idle"]

TypeOK == /\ status \in [Orders -> Statuses]
          /\ pending \in [Orders -> BOOLEAN]
          /\ notified \in [Orders -> NotifyStatuses \cup {"none"}]
          /\ age \in [Orders -> 0..Grace]
          /\ enabled \in BOOLEAN
          /\ open \subseteq Orders
          /\ proc \in [Processes -> Activity]
          /\ batch \subseteq Orders
          /\ mishaps \in 0..Mishaps
          /\ delivered \in [Orders -> SUBSET NotifyStatuses]
          /\ waived \subseteq Orders
          /\ overtaken \subseteq Orders
          /\ unsure \subseteq Orders

Init == /\ status = [o \in Orders |-> "pending"]
        /\ pending = [o \in Orders |-> FALSE]
        /\ notified = [o \in Orders |-> "none"]
        /\ age = [o \in Orders |-> Grace]
        /\ enabled = TRUE
        /\ open = Orders
        /\ proc = [p \in Processes |-> Idle]
        /\ batch = {}
        /\ mishaps = 0
        /\ delivered = [o \in Orders |-> {}]
        /\ waived = {}
        /\ overtaken = {}
        /\ unsure = {}

-----------------------------------------------------------------------------
(* The environment: settings, the customer's messages, time.               *)

Toggle == /\ enabled' = ~enabled
          /\ UNCHANGED <<row, open, proc, batch, mishaps, history>>

CustomerWrites(o) == /\ open' = open \cup {o}
                     /\ UNCHANGED <<row, enabled, proc, batch, mishaps, history>>

WindowCloses(o) == /\ open' = open \ {o}
                   /\ UNCHANGED <<row, enabled, proc, batch, mishaps, history>>

(* A flush interval passes; a sleeping worker wakes.  A worker that is due *)
(* runs before the next interval is over, one that is busy may take longer. *)
Tick ==
  /\ proc[Flusher].at # "due"
  /\ age' = [o \in Orders |-> IF age[o] < Grace THEN age[o] + 1 ELSE Grace]
  /\ proc' = IF proc[Flusher] = Idle THEN [proc EXCEPT ![Flusher] = [at |-> "due"]]
                                     ELSE proc
  /\ UNCHANGED <<status, pending, notified, enabled, open, batch, mishaps, history>>

(* The server restarts: requests, their tasks and a running flush are      *)
(* lost, the rows are not, nor is a message that is out.                   *)
Restart == /\ mishaps < Mishaps
           /\ mishaps' = mishaps + 1
           /\ proc' = [p \in Processes |-> Idle]
           /\ batch' = {}
           /\ unsure' = unsure \cup {proc[p].order : p \in {q \in Processes :
                                      proc[q].at = "answered" /\ proc[q].sent}}
           /\ UNCHANGED <<row, enabled, open, delivered, waived, overtaken>>

-----------------------------------------------------------------------------
(* PATCH /orders/{id}: commit, refresh, schedule the task.                 *)

Holds(p, o) == /\ proc[p].at \in {"loaded", "sending", "answered"}
               /\ proc[p].order = o

Held(o) == \E p \in Processes : Holds(p, o)

Patch(a, o, to) ==
  /\ proc[a] = Idle
  /\ to \in Transitions[status[o]]
  /\ status' = [status EXCEPT ![o] = to]
  /\ pending' = [pending EXCEPT ![o] = TRUE]
  /\ age' = [age EXCEPT ![o] = 0]
  /\ proc' = [proc EXCEPT ![a] = [at |-> "refresh", order |-> o]]
  /\ waived' = waived \ {o}
  /\ overtaken' = IF Held(o) THEN overtaken \cup {o} ELSE overtaken \ {o}
  /\ unsure' = IF Held(o) THEN unsure ELSE unsure \ {o}
  /\ UNCHANGED <<notified, enabled, open, batch, mishaps, delivered>>

(* The row is read again after the commit, and that value decides.         *)
Refresh(a) ==
  /\ proc[a].at = "refresh"
  /\ proc' = [proc EXCEPT ![a] = IF pending[@.order]
                                 THEN [at |-> "start", order |-> @.order]
                                 ELSE Idle]
  /\ UNCHANGED <<row, enabled, open, batch, mishaps, history>>

-----------------------------------------------------------------------------
(* flush_pending_notifications                                             *)

(* Broken: a flush that does not wait FLUSH_GRACE_SECONDS between tries.   *)
DueAtOnce == {o \in Orders : pending[o] /\ status[o] \in NotifyStatuses}

Due == {o \in Orders : /\ pending[o]
                       /\ status[o] \in NotifyStatuses
                       /\ age[o] >= Grace}

(* The newest Limit of a set of orders.                                    *)
Newest(S) == {o \in S : Cardinality({x \in S : x > o}) < Limit}

IsTop(o, S) == o \in S /\ \A x \in S : x <= o

RowOf(o) == [status |-> status[o], pending |-> pending[o], notified |-> notified[o]]

(* Nothing keeps two notifiers from holding one order's row.               *)
Doubled(o) == unsure' = IF Held(o) THEN unsure \cup {o} ELSE unsure

(* The query loads the rows.  The first order is notified from the row the *)
(* query loaded; the commit that ends its turn expires the others, and so  *)
(* does a rollback.                                                        *)
FlushQuery ==
  LET picked == Newest(Due)
  IN  /\ proc[Flusher].at = "due"
      /\ \/ /\ picked = {}
            /\ proc' = [proc EXCEPT ![Flusher] = Idle]
            /\ batch' = {}
            /\ UNCHANGED unsure
         \/ \E o \in Orders :
              /\ IsTop(o, picked)
              /\ proc' = [proc EXCEPT ![Flusher] =
                            [at |-> "loaded", order |-> o, row |-> RowOf(o)]]
              /\ batch' = picked \ {o}
              /\ Doubled(o)
      /\ UNCHANGED <<row, enabled, open, mishaps, delivered, waived, overtaken>>

(* notify_order_status returns: a request ends, a flush goes on.           *)
Return(p) ==
  IF p = Flusher /\ batch # {}
  THEN \E o \in Orders : /\ IsTop(o, batch)
                         /\ proc' = [proc EXCEPT ![p] = [at |-> "start", order |-> o]]
                         /\ batch' = batch \ {o}
  ELSE /\ proc' = [proc EXCEPT ![p] = Idle]
       /\ UNCHANGED batch

-----------------------------------------------------------------------------
(* notify_order_status                                                     *)

(* The ORM writes an attribute only when it differs from the loaded value. *)
Flushed(loaded, new, current) == IF new = loaded THEN current ELSE new

Load(p) ==
  /\ proc[p].at = "start"
  /\ proc' = [proc EXCEPT ![p] = [at |-> "loaded", order |-> @.order,
                                  row |-> RowOf(@.order)]]
  /\ Doubled(proc[p].order)
  /\ UNCHANGED <<row, enabled, open, batch, mishaps, delivered, waived, overtaken>>

(* Broken: notified_status is not looked at before the send.               *)
ToldUnchecked(r) == FALSE

Told(r) == ~r.pending /\ r.notified = r.status

(* Nothing to do: skipped, already told, or switched off with no queue.    *)
Skip(p) ==
  /\ proc[p].at = "loaded"
  /\ LET r == proc[p].row
     IN  \/ r.status \notin NotifyStatuses
         \/ ~enabled /\ ~r.pending
         \/ enabled /\ Told(r)
  /\ Return(p)
  /\ UNCHANGED <<row, enabled, open, mishaps, history>>

(* Broken: notifications are off, but the queued one is kept.              *)
DropKeepsQueue(p) ==
  /\ proc[p].at = "loaded"
  /\ ~enabled
  /\ Return(p)
  /\ UNCHANGED <<row, enabled, open, mishaps, history>>

(* Notifications are switched off: the queued one is dropped.              *)
Drop(p) ==
  LET o == proc[p].order
  IN  /\ proc[p].at = "loaded"
      /\ proc[p].row.status \in NotifyStatuses
      /\ ~enabled
      /\ proc[p].row.pending
      /\ pending' = [pending EXCEPT ![o] = FALSE]
      /\ age' = [age EXCEPT ![o] = 0]
      /\ waived' = waived \cup {o}
      /\ Return(p)
      /\ UNCHANGED <<status, notified, enabled, open, mishaps, delivered, overtaken,
                     unsure>>

MayNotify(p) == /\ proc[p].at = "loaded"
                /\ proc[p].row.status \in NotifyStatuses
                /\ enabled
                /\ ~Told(proc[p].row)

(* Outside the 24 hour window the notification stays in the queue.         *)
Postpone(p) ==
  LET o == proc[p].order
  IN  /\ MayNotify(p)
      /\ o \notin open
      /\ pending' = [pending EXCEPT ![o] = Flushed(proc[p].row.pending, TRUE, @)]
      /\ age' = [age EXCEPT ![o] = 0]
      /\ Return(p)
      /\ UNCHANGED <<status, notified, enabled, open, mishaps, history>>

Dial(p) == /\ MayNotify(p)
           /\ proc[p].order \in open
           /\ proc' = [proc EXCEPT ![p] = [at |-> "sending", order |-> @.order,
                                           row |-> @.row]]
           /\ UNCHANGED <<row, enabled, open, batch, mishaps, history>>

(* The message reaches the customer or not; an answer that times out is    *)
(* reported as not sent although the message may have arrived.             *)
Send(p, reached, sent) ==
  LET w == proc[p]
  IN  /\ w.at = "sending"
      /\ sent => reached
      /\ delivered' = IF reached THEN [delivered EXCEPT ![w.order] = @ \cup {w.row.status}]
                                 ELSE delivered
      /\ proc' = [proc EXCEPT ![p] = [at |-> "answered", order |-> w.order,
                                      row |-> w.row, sent |-> sent]]
      /\ unsure' = IF reached /\ ~sent THEN unsure \cup {w.order} ELSE unsure
      /\ UNCHANGED <<row, enabled, open, batch, mishaps, waived, overtaken>>

(* Broken: the queue is left whether or not the message was sent.          *)
PendingCleared(w) == FALSE

(* Broken: the status is recorded from the row as it is after the send.    *)
NotifiedReread(w) == IF w.sent THEN status[w.order] ELSE notified[w.order]

(* Broken: what is recorded is the label shown to the customer.            *)
NotifiedLabel(w) == IF w.sent THEN "label" ELSE notified[w.order]

(* The columns written after the send, from the row loaded before it.      *)
PendingAfter(w) == Flushed(w.row.pending, ~w.sent, pending[w.order])
NotifiedAfter(w) == IF w.sent THEN Flushed(w.row.notified, w.row.status, notified[w.order])
                              ELSE notified[w.order]

Record(p) ==
  LET w == proc[p]
  IN  /\ w.at = "answered"
      /\ pending' = [pending EXCEPT ![w.order] = PendingAfter(w)]
      /\ notified' = [notified EXCEPT ![w.order] = NotifiedAfter(w)]
      /\ age' = [age EXCEPT ![w.order] = 0]
      /\ Return(p)
      /\ UNCHANGED <<status, enabled, open, mishaps, history>>

(* A statement or a commit raises: the caller rolls back, a request ends,  *)
(* the flush goes on.  A message that is out stays unrecorded.             *)
Fail(p) ==
  LET w == proc[p]
  IN  /\ mishaps < Mishaps
      /\ mishaps' = mishaps + 1
      /\ w.at \in {"refresh", "start", "loaded", "answered"}
      /\ Return(p)
      /\ unsure' = IF w.at = "answered" /\ w.sent THEN unsure \cup {w.order} ELSE unsure
      /\ UNCHANGED <<row, enabled, open, delivered, waived, overtaken>>

Notify(p) == \/ Load(p) \/ Skip(p) \/ Drop(p) \/ Postpone(p) \/ Dial(p)
             \/ \E reached, sent \in BOOLEAN : Send(p, reached, sent)
             \/ Record(p) \/ Fail(p)

-----------------------------------------------------------------------------

Next == \/ Toggle
        \/ \E o \in Orders : CustomerWrites(o) \/ WindowCloses(o)
        \/ Tick
        \/ Restart
        \/ \E a \in Admins, o \in Orders, to \in NotifyStatuses : Patch(a, o, to)
        \/ \E a \in Admins : Refresh(a)
        \/ FlushQuery
        \/ \E p \in Processes : Notify(p)

Spec == Init /\ [][Next]_vars

(* Threads that can run do run and time passes, failures of the program    *)
(* are bounded, and a message that is tried again and again is accepted.   *)
Fairness == /\ WF_vars(Tick)
            /\ WF_vars(FlushQuery)
            /\ \A a \in Admins : WF_vars(Refresh(a) \/ Fail(a))
            /\ \A p \in Processes : /\ WF_vars(Notify(p))
                                    /\ SF_vars(Send(p, TRUE, TRUE))

FairSpec == Spec /\ Fairness

-----------------------------------------------------------------------------
(* Properties                                                              *)

(* notified_status only ever names a status the customer got the message   *)
(* of, although it is written after the send from a row loaded before it.  *)
RecordedIsDelivered ==
  \A o \in Orders : notified[o] # "none" => notified[o] \in delivered[o]

(* A status the customer has not been told, with notifications on, is not  *)
(* forgotten: it is queued in the row, whatever tasks and restarts are     *)
(* lost, unless the order was patched while a notifier held its row.       *)
Untold(o) == /\ status[o] \in NotifyStatuses
             /\ status[o] \notin delivered[o]
             /\ o \notin waived

ForgottenOnlyIfOvertaken ==
  \A o \in Orders : Untold(o) /\ o \notin overtaken => pending[o]

(* The customer hears of a status once, although the task of the request,  *)
(* the flush and a restart may all be at it, unless two notifiers held the *)
(* row at once, a send that was reported as failed had arrived, or a       *)
(* restart or a failed commit came between a send and its record.          *)
ToldOnceUnlessUnsure ==
  \A p \in Processes :
    proc[p].at = "sending" /\ proc[p].order \notin unsure
      => proc[p].row.status \notin delivered[proc[p].order]

(* order_notify_service.py:8-9 promises that an undelivered notification   *)
(* stays in the queue until it is sent: it is queued or somebody is at it. *)
WorksOn(p, o) == proc[p].at \notin {"idle", "due"} /\ proc[p].order = o

UntoldStaysQueued ==
  \A o \in Orders : Untold(o) => pending[o] \/ \E p \in Processes : WorksOn(p, o)

(* order_notify_service.py:8-9 again: once the customer's window is open,  *)
(* a queued notification is sent, up to one order more than a flush takes; *)
(* with more of them the newest can keep the oldest out of every flush.    *)
Queued(o) == pending[o] /\ status[o] \in NotifyStatuses

QueueIsServed ==
  \A o \in Orders :
    <>[](o \in open /\ enabled) => [](Queued(o) => <>~Queued(o))

(* order_notify_service.py:131: with notifications switched off for good   *)
(* the queue drains, whatever sends were still in flight.                  *)
SwitchedOffDrains == <>[]~enabled => <>[](\A o \in Orders : ~pending[o])
=============================================================================
