----------------------------- MODULE ChatPipeline -----------------------------
(***************************************************************************)
(* Incoming direct messages: the Meta webhook with its queue, the Zernio   *)
(* webhook and the inbox poller each call process_incoming_message, which  *)
(* stores the message, decides on a reply and stores that; the caller then *)
(* sends the reply and takes its row back when Instagram refuses it.       *)
(* A step ends with each commit and each lookup a later insert relies on;  *)
(* the queries behind the decision on a reply are one step.                *)
(***************************************************************************)
EXTENDS Naturals, FiniteSets, Sequences

CONSTANTS Customers,   \* Instagram users
          Msgs,        \* the messages they may write
          From,        \* who writes each message
          Claims,      \* the messages that say "I have followed"
          MetaWorkers, \* consumers of webhook_queue
          ZernioCalls, \* concurrent requests of the Zernio webhook
          Poller,      \* the thread of poll_cycle
          PollerOn,    \* ENABLE_IG_WORKER
          Amount,      \* conversations of one poll
          Attempts,    \* send attempts per reply
          Cooldown,    \* FOLLOW_GATE_REPEAT_COOLDOWN in clock ticks
          DropWindow,  \* how far back drop_unsent_reply looks, in clock ticks
          None,        \* NULL
          MaxCalls,    \* bound on webhook deliveries
          MaxSwitches, \* bound on panel switches and follower changes
          MaxDeletes,  \* bound on deleted customers
          MaxRestarts, \* bound on restarts
          MaxClock     \* bound on the clock

ASSUME FromAssumption == From \in [Msgs -> Customers]
ASSUME ClaimsAssumption == Claims \subseteq Msgs
ASSUME WorkersAssumption == /\ MetaWorkers \cap ZernioCalls = {}
                            /\ Poller \notin MetaWorkers \cup ZernioCalls
ASSUME ThreadsAssumption == IsFiniteSet(MetaWorkers \cup ZernioCalls)
ASSUME AttemptsAssumption == Attempts \in Nat \ {0}
ASSUME CooldownAssumption == Cooldown \in Nat \ {0}
ASSUME DropWindowAssumption == DropWindow \in 1..Cooldown
ASSUME AmountAssumption == Amount \in Nat \ {0}

VARIABLES customers, \* the customers table: primary key (0: no row), bot_paused
          lastPk,    \* sequence of customers.id
          messages,  \* the messages table
          lastId,    \* sequence of messages.id
          botEnabled, gateEnabled, \* BotSetting
          follows,   \* follower status as follows_page sees it
          queue,     \* webhook_queue
          seen,      \* _processed_event_cache
          inbox,     \* the conversations as Zernio lists them
          newest,    \* conversations, last updated first
          todo,      \* conversations the running poll has still to read
          batch,     \* messages the running poll has still to process
          broken,    \* the poll's session refuses to work until a rollback
          lastDone,  \* _last_processed
          proc,      \* what each worker is doing
          now,
          written,   \* messages the customers have written
          calls, switches, deletes, restarts, \* used up bounds
          answers,   \* history: replies recorded per Instagram message id
          accepted,  \* history: replies to the current row's customer accepted,
                     \* or reported by Zernio as sent
          severed,   \* history: customers deleted while a reply was in flight
          haunted    \* history: customers whose unsent reply could not be taken back

db == <<customers, lastPk, messages, lastId>>
panel == <<botEnabled, gateEnabled, follows, switches>>
hook == <<queue, seen, calls>>
remote == <<inbox, newest, written>>
poll == <<todo, batch, broken, lastDone>>
history == <<answers, accepted, severed, haunted>>
vars == <<db, panel, hook, remote, poll, proc, now, deletes, restarts, history>>

Workers == MetaWorkers \cup ZernioCalls \cup {Poller}
ASSUME NoneAssumption == None \notin Msgs \cup Workers

(* Meta and Zernio give one message different ids; the poller reads Zernio's. *)
Channels == {"meta", "zernio"}
Mids == Msgs \X Channels
Channel(w) == IF w \in MetaWorkers THEN "meta" ELSE "zernio"
Mid(w, m) == <<m, Channel(w)>>

BotTexts == {"gate", "reminder", "answer"}

Inbound == [id : Nat, pk : Nat, sender : {"customer"}, text : Msgs, mid : Mids]
Outbound == [id : Nat, pk : Nat, sender : {"bot"}, text : BotTexts,
             at : Nat, by : Workers \cup {None}]

Work == [step : {"idle"}]
          \cup [step : {"dedup", "find", "create"}, msg : Msgs]
          \cup [step : {"rename", "store", "decide"}, msg : Msgs, pk : Nat]
          \cup [step : {"record"}, msg : Msgs, pk : Nat, text : BotTexts]
          \cup [step : {"send"}, msg : Msgs, pk : Nat, text : BotTexts, tries : Nat]
          \cup [step : {"pick"}, msg : Msgs, text : BotTexts]
          \cup [step : {"erase"}, msg : Msgs, row : Nat]

Idle == [step |-> "idle"]

TypeOK == /\ customers \in [Customers -> [pk : Nat, paused : BOOLEAN]]
          /\ lastPk \in Nat
          /\ messages \subseteq Inbound \cup Outbound
          /\ lastId \in Nat
          /\ botEnabled \in BOOLEAN
          /\ gateEnabled \in BOOLEAN
          /\ follows \in [Customers -> BOOLEAN]
          /\ queue \in Seq(Msgs)
          /\ seen \subseteq Msgs
          /\ inbox \in [Customers -> [last : Msgs \cup {None}, answered : BOOLEAN,
                                      changed : BOOLEAN, misread : BOOLEAN]]
          /\ newest \in Seq(Customers)
          /\ todo \in Seq(Customers)
          /\ batch \in Seq(Msgs)
          /\ broken \in BOOLEAN
          /\ lastDone \in [Customers -> Msgs \cup {None}]
          /\ proc \in [Workers -> Work]
          /\ now \in Nat
          /\ written \subseteq Msgs
          /\ calls \in Nat /\ switches \in Nat
          /\ deletes \in Nat /\ restarts \in Nat
          /\ answers \in [Mids -> Nat]
          /\ accepted \in [Customers -> [BotTexts -> Nat]]
          /\ severed \subseteq Customers
          /\ haunted \subseteq Customers

Unwritten == [last |-> None, answered |-> FALSE, changed |-> FALSE, misread |-> FALSE]
Unheard == [t \in BotTexts |-> 0]

Init == /\ customers = [c \in Customers |-> [pk |-> 0, paused |-> FALSE]]
        /\ lastPk = 0
        /\ messages = {}
        /\ lastId = 0
        /\ botEnabled = TRUE
        /\ gateEnabled \in BOOLEAN
        /\ follows = [c \in Customers |-> TRUE]
        /\ queue = <<>>
        /\ seen = {}
        /\ inbox = [c \in Customers |-> Unwritten]
        /\ newest = <<>>
        /\ todo = <<>>
        /\ batch = <<>>
        /\ broken = FALSE
        /\ lastDone = [c \in Customers |-> None]
        /\ proc = [w \in Workers |-> Idle]
        /\ now = 0
        /\ written = {}
        /\ calls = 0 /\ switches = 0 /\ deletes = 0 /\ restarts = 0
        /\ answers = [i \in Mids |-> 0]
        /\ accepted = [c \in Customers |-> Unheard]
        /\ severed = {}
        /\ haunted = {}

-------------------------------------------------------------------------------
(* Panel, customers and Zernio.                                            *)

(* The conversations of these customers, last updated first.               *)
Listed(S) ==
  LET at == {i \in 1..Len(newest) : newest[i] \in S}
      Nth(n) == CHOOSE i \in at : Cardinality({j \in at : j < i}) = n - 1
  IN  [n \in 1..Cardinality(at) |-> newest[Nth(n)]]

ToFront(c) == <<c>> \o Listed(Customers \ {c})

(* A message from either side moves its conversation to the front and      *)
(* changes its updatedTime.                                                *)
Update(c, entry) == /\ inbox' = [inbox EXCEPT ![c] = entry]
                    /\ newest' = ToFront(c)

(* The cached updatedTime is not the conversation's: a poll will read it.  *)
Unread(entry) == [entry EXCEPT !.changed = TRUE, !.misread = FALSE]

WeAnswer(c) == Update(c, [Unread(inbox[c]) EXCEPT !.answered = TRUE])

Write(m) ==
  /\ m \notin written
  /\ written' = written \cup {m}
  /\ Update(From[m], [last |-> m, answered |-> FALSE, changed |-> TRUE,
                      misread |-> FALSE])
  /\ UNCHANGED <<db, panel, hook, poll, proc, now, deletes, restarts, history>>

Switch == switches < MaxSwitches /\ switches' = switches + 1

ToggleBot ==
  /\ Switch
  /\ botEnabled' = ~botEnabled
  /\ UNCHANGED <<db, gateEnabled, follows, hook, remote, poll, proc, now,
                 deletes, restarts, history>>

ToggleGate ==
  /\ Switch
  /\ gateEnabled' = ~gateEnabled
  /\ UNCHANGED <<db, botEnabled, follows, hook, remote, poll, proc, now,
                 deletes, restarts, history>>

TogglePaused(c) ==
  /\ Switch
  /\ customers[c].pk # 0
  /\ customers' = [customers EXCEPT ![c].paused = ~@]
  /\ UNCHANGED <<lastPk, messages, lastId, botEnabled, gateEnabled, follows, hook,
                 remote, poll, proc, now, deletes, restarts, history>>

(* Broken: a conversation without follower data overwrites what is known.  *)
ForgetFollower(c) ==
  /\ Switch
  /\ follows' = [follows EXCEPT ![c] = None]
  /\ UNCHANGED <<db, botEnabled, gateEnabled, hook, remote, poll, proc, now,
                 deletes, restarts, history>>

LearnFollower(c) ==
  /\ Switch
  /\ follows' = [follows EXCEPT ![c] = ~@]
  /\ UNCHANGED <<db, botEnabled, gateEnabled, hook, remote, poll, proc, now,
                 deletes, restarts, history>>

(* Broken: the customer's messages stay behind.                            *)
DeleteOnlyCustomer(c) ==
  /\ deletes < MaxDeletes
  /\ customers[c].pk # 0
  /\ deletes' = deletes + 1
  /\ customers' = [customers EXCEPT ![c] = [pk |-> 0, paused |-> FALSE]]
  /\ answers' = [i \in Mids |-> IF From[i[1]] = c THEN 0 ELSE answers[i]]
  /\ accepted' = [accepted EXCEPT ![c] = Unheard]
  /\ severed' = severed \cup {c}
  /\ haunted' = haunted \ {c}
  /\ UNCHANGED <<lastPk, messages, lastId, panel, hook, remote, poll, proc, now, restarts>>

(* The messages go with their customer.                                    *)
DeleteCustomer(c) ==
  /\ deletes < MaxDeletes
  /\ customers[c].pk # 0
  /\ deletes' = deletes + 1
  /\ customers' = [customers EXCEPT ![c] = [pk |-> 0, paused |-> FALSE]]
  /\ messages' = {r \in messages : r.pk # customers[c].pk}
  /\ answers' = [i \in Mids |-> IF From[i[1]] = c THEN 0 ELSE answers[i]]
  /\ accepted' = [accepted EXCEPT ![c] = Unheard]
  /\ severed' = IF \E w \in Workers : /\ proc[w].step \in {"send", "pick"}
                                      /\ From[proc[w].msg] = c
                THEN severed \cup {c} ELSE severed
  /\ haunted' = haunted \ {c}
  /\ UNCHANGED <<lastPk, lastId, panel, hook, remote, poll, proc, now, restarts>>

(* A tick is WEBHOOK_DEDUP_TTL_SECONDS, five minutes: it ends the TTL of    *)
(* the events seen early enough.                                           *)
Tick ==
  /\ now < MaxClock
  /\ now' = now + 1
  /\ \E old \in SUBSET seen : seen' = seen \ old
  /\ UNCHANGED <<db, panel, queue, calls, remote, poll, proc, deletes, restarts, history>>

Replying == {w \in Workers : proc[w].step \in {"send", "pick", "erase"}}

(* What is not in the database is lost.                                    *)
Restart ==
  /\ restarts < MaxRestarts
  /\ restarts' = restarts + 1
  /\ proc' = [w \in Workers |-> Idle]
  /\ queue' = <<>>
  /\ seen' = {}
  /\ todo' = <<>>
  /\ batch' = <<>>
  /\ broken' = FALSE
  /\ lastDone' = [c \in Customers |-> None]
  /\ follows' = [c \in Customers |-> TRUE]
  /\ inbox' = [c \in Customers |-> IF inbox[c].last # None
                 THEN Unread(inbox[c]) ELSE inbox[c]]
  /\ haunted' = haunted \cup {From[proc[w].msg] : w \in Replying}
  /\ UNCHANGED <<db, botEnabled, gateEnabled, switches, calls, newest, written, now,
                 deletes, answers, accepted, severed>>

-------------------------------------------------------------------------------
(* Ways in.                                                                *)

Go(w, work) == proc' = [proc EXCEPT ![w] = work]
Start(w, m) == proc[w].step = "idle" /\ Go(w, [step |-> "dedup", msg |-> m])

Called == calls < MaxCalls /\ calls' = calls + 1

(* enqueue_event: an event seen within the TTL is dropped.                 *)
EnqueueEvent(m) ==
  /\ Called
  /\ m \in written \ seen
  /\ seen' = seen \cup {m}
  /\ queue' = Append(queue, m)
  /\ UNCHANGED <<db, panel, remote, poll, proc, now, deletes, restarts, history>>

TakeEvent(w) ==
  /\ w \in MetaWorkers
  /\ queue # <<>>
  /\ Start(w, Head(queue))
  /\ queue' = Tail(queue)
  /\ UNCHANGED <<db, panel, seen, calls, remote, poll, now, deletes, restarts, history>>

ReceiveZernio(w, m) ==
  /\ w \in ZernioCalls
  /\ Called
  /\ m \in written
  /\ Start(w, m)
  /\ UNCHANGED <<db, panel, queue, seen, remote, poll, now, deletes, restarts, history>>

(* Zernio's own automation sent a gate text: it is recorded as ours.       *)
RecordRemoteGate(c, text) ==
  /\ Called
  /\ inbox[c].last # None
  /\ WeAnswer(c)
  /\ IF customers[c].pk # 0
       THEN UNCHANGED <<customers, lastPk>>
       ELSE /\ lastPk' = lastPk + 1
            /\ customers' = [customers EXCEPT ![c] = [pk |-> lastPk', paused |-> FALSE]]
  /\ lastId' = lastId + 1
  /\ messages' = messages \cup
       {[id |-> lastId', pk |-> customers'[c].pk, sender |-> "bot", text |-> text,
         at |-> now, by |-> None]}
  /\ accepted' = [accepted EXCEPT ![c][text] = @ + 1]
  /\ UNCHANGED <<panel, queue, seen, written, poll, proc, now, deletes, restarts,
                 answers, severed, haunted>>

(* fetch_unread_messages: the newest conversations, those whose            *)
(* updatedTime is the cached one left out.  Reading one caches its time.   *)
PollList ==
  /\ PollerOn /\ botEnabled
  /\ proc[Poller].step = "idle" /\ todo = <<>> /\ batch = <<>>
  /\ LET top == {newest[i] : i \in 1..Len(newest) \cap 1..Amount}
     IN  /\ todo' = Listed({c \in top : inbox[c].changed})
         /\ inbox' = [c \in Customers |-> IF c \in top
                        THEN [inbox[c] EXCEPT !.changed = FALSE] ELSE inbox[c]]
  /\ todo' # <<>>
  /\ broken' = FALSE
  /\ UNCHANGED <<db, panel, hook, newest, written, batch, lastDone, proc, now,
                 deletes, restarts, history>>

Unhandled(c) == /\ inbox[c].last # None
                /\ inbox[c].last # lastDone[c]
                /\ ~inbox[c].answered

PollRead(c) ==
  /\ todo # <<>> /\ c = Head(todo)
  /\ todo' = Tail(todo)
  /\ batch' = IF Unhandled(c) THEN Append(batch, inbox[c].last) ELSE batch
  /\ UNCHANGED <<db, panel, hook, remote, broken, lastDone, proc, now, deletes, restarts,
                 history>>

(* Broken: the time of a conversation is cached before it could be read.   *)
ReadFailsUnnoticed ==
  /\ todo # <<>>
  /\ \E n \in {1, Len(todo)} : todo' = SubSeq(todo, n + 1, Len(todo))
  /\ UNCHANGED <<db, panel, hook, remote, batch, broken, lastDone, proc, now,
                 deletes, restarts, history>>

(* The request for the messages fails: on to the next conversation, or, at *)
(* the rate limit or a time-out, to the end of the poll.                   *)
PollReadFails ==
  /\ todo # <<>>
  /\ \E n \in {1, Len(todo)} :
       /\ todo' = SubSeq(todo, n + 1, Len(todo))
       /\ inbox' = [c \in Customers |-> IF \E i \in 1..n : todo[i] = c
                      THEN Unread(inbox[c]) ELSE inbox[c]]
  /\ UNCHANGED <<db, panel, hook, newest, written, batch, broken, lastDone, proc, now,
                 deletes, restarts, history>>

(* The answer lists no message, or cannot be parsed and ends the poll: its *)
(* conversation is cached by then, and what is in the batch is kept.       *)
PollMisread ==
  /\ todo # <<>>
  /\ \E n \in {1, Len(todo)} :
       /\ todo' = SubSeq(todo, n + 1, Len(todo))
       /\ inbox' = [c \in Customers |->
                      IF c = Head(todo) THEN [inbox[c] EXCEPT !.misread = ~inbox[c].changed]
                      ELSE IF \E i \in 2..n : todo[i] = c THEN Unread(inbox[c])
                      ELSE inbox[c]]
  /\ UNCHANGED <<db, panel, hook, newest, written, batch, broken, lastDone, proc, now,
                 deletes, restarts, history>>

PollTake ==
  /\ todo = <<>> /\ batch # <<>>
  /\ ~broken
  /\ Start(Poller, Head(batch))
  /\ batch' = Tail(batch)
  /\ UNCHANGED <<db, panel, hook, remote, todo, broken, lastDone, now, deletes, restarts,
                 history>>

(* The first query raises PendingRollbackError; the message is skipped.    *)
PollSkip ==
  /\ todo = <<>> /\ batch # <<>>
  /\ broken
  /\ proc[Poller].step = "idle"
  /\ batch' = Tail(batch)
  /\ UNCHANGED <<db, panel, hook, remote, todo, broken, lastDone, proc, now, deletes,
                 restarts, history>>

-------------------------------------------------------------------------------
(* process_incoming_message.                                               *)

world == <<panel, hook, remote, todo, batch, now, deletes, restarts, severed, haunted>>

At(w, step) == proc[w].step = step
Msg(w) == proc[w].msg
Sender(w) == From[Msg(w)]
Stored(i) == \E r \in messages : r.sender = "customer" /\ r.mid = i
OwnMid(w) == Mid(w, Msg(w))

(* The row the worker holds is still in the table.                         *)
Alive(w) == customers[Sender(w)].pk = proc[w].pk

(* The call returned: the poller marks its message as processed.           *)
Finish(w) ==
  /\ Go(w, Idle)
  /\ lastDone' = IF w = Poller THEN [lastDone EXCEPT ![Sender(w)] = Msg(w)] ELSE lastDone
  /\ UNCHANGED broken

(* Broken: the message is marked whether or not it could be stored.        *)
RaiseMarked(w, flushFailed) ==
  /\ Go(w, Idle)
  /\ broken' = (broken \/ (w = Poller /\ flushFailed))
  /\ lastDone' = IF w = Poller THEN [lastDone EXCEPT ![Sender(w)] = Msg(w)] ELSE lastDone

(* The call raised: a failed flush makes the session useless until a       *)
(* rollback, which poll_cycle, sharing one session in a batch, never does. *)
Raise(w, flushFailed) ==
  /\ Go(w, Idle)
  /\ broken' = (broken \/ (w = Poller /\ flushFailed))
  /\ UNCHANGED lastDone

Continue(w, work) == Go(w, work) /\ UNCHANGED <<broken, lastDone>>

KnownMessage(w) ==
  /\ At(w, "dedup")
  /\ Stored(OwnMid(w))
  /\ Finish(w)
  /\ UNCHANGED <<db, world, answers, accepted>>

NewMessage(w) ==
  /\ At(w, "dedup")
  /\ ~Stored(OwnMid(w))
  /\ Continue(w, [step |-> "find", msg |-> Msg(w)])
  /\ UNCHANGED <<db, world, answers, accepted>>

(* Meta's events carry no name, so only the others can find a changed one. *)
FindCustomer(w) ==
  /\ At(w, "find")
  /\ IF customers[Sender(w)].pk = 0
       THEN Continue(w, [step |-> "create", msg |-> Msg(w)])
       ELSE \E next \in IF w \in MetaWorkers THEN {"store"} ELSE {"store", "rename"} :
              Continue(w, [step |-> next, msg |-> Msg(w), pk |-> customers[Sender(w)].pk])
  /\ UNCHANGED <<db, world, answers, accepted>>

CreateCustomer(w) ==
  /\ At(w, "create")
  /\ IF customers[Sender(w)].pk = 0
       THEN /\ lastPk' = lastPk + 1
            /\ customers' = [customers EXCEPT ![Sender(w)] = [pk |-> lastPk + 1,
                                                              paused |-> FALSE]]
            /\ Continue(w, [step |-> "store", msg |-> Msg(w), pk |-> lastPk + 1])
       ELSE /\ Raise(w, TRUE)
            /\ UNCHANGED <<customers, lastPk>>
  /\ UNCHANGED <<messages, lastId, world, answers, accepted>>

RenameCustomer(w) ==
  /\ At(w, "rename")
  /\ IF Alive(w) THEN Continue(w, [proc[w] EXCEPT !.step = "store"]) ELSE Raise(w, TRUE)
  /\ UNCHANGED <<db, world, answers, accepted>>

(* Broken: no unique index on instagram_message_id.                        *)
StoreUnchecked(w) ==
  /\ At(w, "store")
  /\ Alive(w)
  /\ lastId' = lastId + 1
  /\ messages' = messages \cup
       {[id |-> lastId', pk |-> proc[w].pk, sender |-> "customer", text |-> Msg(w),
         mid |-> OwnMid(w)]}
  /\ Continue(w, [proc[w] EXCEPT !.step = "decide"])
  /\ UNCHANGED <<customers, lastPk, world, answers, accepted>>

StoreMessage(w) ==
  /\ At(w, "store")
  /\ Alive(w)
  /\ ~Stored(OwnMid(w))
  /\ lastId' = lastId + 1
  /\ messages' = messages \cup
       {[id |-> lastId', pk |-> proc[w].pk, sender |-> "customer", text |-> Msg(w),
         mid |-> OwnMid(w)]}
  /\ Continue(w, [proc[w] EXCEPT !.step = "decide"])
  /\ UNCHANGED <<customers, lastPk, world, answers, accepted>>

(* Any IntegrityError is taken for a concurrent duplicate.                 *)
StoreRefused(w) ==
  /\ At(w, "store")
  /\ ~Alive(w) \/ Stored(OwnMid(w))
  /\ Finish(w)
  /\ UNCHANGED <<db, world, answers, accepted>>

BotRows(pk, texts) == {r \in messages : r.sender = "bot" /\ r.pk = pk /\ r.text \in texts}
CustomerRows(pk) == {r \in messages : r.sender = "customer" /\ r.pk = pk}
Latest(rows) == CHOOSE r \in rows : \A s \in rows : s.id <= r.id

(* Broken: the cooldown is compared the other way round.                   *)
GatedLongAgo(pk) == \E r \in BotRows(pk, {"gate"}) : now - r.at > Cooldown

RecentlyGated(pk) == \E r \in BotRows(pk, {"gate"}) : now - r.at < Cooldown

JustReminded(pk) == Latest(BotRows(pk, BotTexts)).text = "reminder"

(* One of the five rows before the worker's own asks for something.        *)
AskedBefore(w) ==
  LET before == {r \in CustomerRows(proc[w].pk) : r.mid # OwnMid(w)}
  IN  \E r \in before : /\ r.text \notin Claims
                        /\ Cardinality({s \in before : s.id > r.id}) < 5

(* The texts process_incoming_message may reply with, none to stay silent. *)
Reply(w) ==
  LET pk == proc[w].pk
      claims == Msg(w) \in Claims
      blocked == gateEnabled /\ ~follows[Sender(w)]
  IN  IF customers[Sender(w)].paused \/ ~botEnabled THEN {}
      ELSE IF blocked /\ ~RecentlyGated(pk) THEN {"gate"}
      ELSE IF blocked THEN IF claims /\ ~JustReminded(pk) THEN {"reminder"} ELSE {}
      ELSE IF claims /\ ~(gateEnabled /\ AskedBefore(w)) THEN {} ELSE {"answer"}

Decide(w) ==
  /\ At(w, "decide")
  /\ IF ~Alive(w) THEN Raise(w, FALSE)
     ELSE \/ Reply(w) = {} /\ Finish(w)
          \/ \E text \in Reply(w) : Continue(w, [step |-> "record", msg |-> Msg(w),
                                                 pk |-> proc[w].pk, text |-> text])
  /\ UNCHANGED <<db, world, answers, accepted>>

RecordReply(w) ==
  /\ At(w, "record")
  /\ IF Alive(w)
       THEN /\ lastId' = lastId + 1
            /\ messages' = messages \cup
                 {[id |-> lastId', pk |-> proc[w].pk, sender |-> "bot",
                   text |-> proc[w].text, at |-> now, by |-> w]}
            /\ answers' = [answers EXCEPT ![OwnMid(w)] = @ + 1]
            /\ Continue(w, [step |-> "send", msg |-> Msg(w), pk |-> proc[w].pk,
                            text |-> proc[w].text, tries |-> Attempts])
       ELSE /\ Raise(w, TRUE)
            /\ UNCHANGED <<messages, lastId, answers>>
  /\ UNCHANGED <<customers, lastPk, world, accepted>>

-------------------------------------------------------------------------------
(* send_direct_message_with_retry and drop_unsent_reply.                   *)

around == <<customers, lastPk, lastId, panel, hook, written, todo, batch, now,
            deletes, restarts, severed, answers>>

SendAccepted(w) ==
  /\ At(w, "send")
  /\ WeAnswer(Sender(w))
  /\ accepted' = IF Alive(w) THEN [accepted EXCEPT ![Sender(w)][proc[w].text] = @ + 1]
                 ELSE accepted
  /\ Finish(w)
  /\ UNCHANGED <<around, messages, haunted>>

(* A time-out counts as a failure although the text may have arrived.      *)
SendFails(w) ==
  /\ At(w, "send")
  /\ IF proc[w].tries > 1
       THEN Continue(w, [proc[w] EXCEPT !.tries = @ - 1])
       ELSE Continue(w, [step |-> "pick", msg |-> Msg(w), text |-> proc[w].text])
  /\ \/ UNCHANGED <<inbox, newest>>
     \/ WeAnswer(Sender(w))
  /\ UNCHANGED <<around, messages, accepted, haunted>>

(* Broken: the recorded reply is forgotten.                                *)
NowhereToSend(w) ==
  /\ w \in ZernioCalls
  /\ At(w, "send")
  /\ proc[w].tries = Attempts
  /\ Finish(w)
  /\ UNCHANGED <<around, messages, inbox, newest, accepted, haunted>>

(* The event came without a conversationId: there is nowhere to send.      *)
NoConversation(w) ==
  /\ w \in ZernioCalls
  /\ At(w, "send")
  /\ proc[w].tries = Attempts
  /\ Continue(w, [step |-> "pick", msg |-> Msg(w), text |-> proc[w].text])
  /\ UNCHANGED <<around, messages, inbox, newest, accepted, haunted>>

(* Broken: the latest row is taken back whatever its text.                 *)
DroppableAnyText(w) == {r \in BotRows(customers[Sender(w)].pk, BotTexts) :
                          now - r.at < DropWindow}

Droppable(w) == {r \in BotRows(customers[Sender(w)].pk, {proc[w].text}) :
                   now - r.at < DropWindow}

(* The customer keeps a row for the reply when the rows are too old or     *)
(* another worker is about to delete the same one.                         *)
Haunt(w, when) == haunted' = IF when THEN haunted \cup {Sender(w)} ELSE haunted

PickUnsent(w) ==
  /\ At(w, "pick")
  /\ IF customers[Sender(w)].pk = 0 \/ Droppable(w) = {}
       THEN /\ Finish(w)
            /\ Haunt(w, BotRows(customers[Sender(w)].pk, {proc[w].text}) # {})
       ELSE \E r \in Droppable(w) :
              /\ \A s \in Droppable(w) : s.id <= r.id
              /\ Continue(w, [step |-> "erase", msg |-> Msg(w), row |-> r.id])
              /\ Haunt(w, \E v \in Workers : At(v, "erase") /\ proc[v].row = r.id)
  /\ UNCHANGED <<around, messages, inbox, newest, accepted>>

EraseUnsent(w) ==
  /\ At(w, "erase")
  /\ messages' = {r \in messages : r.sender = "bot" => r.id # proc[w].row}
  /\ Finish(w)
  /\ UNCHANGED <<around, inbox, newest, accepted, haunted>>

-------------------------------------------------------------------------------
Process(w) == \/ KnownMessage(w) \/ NewMessage(w)
              \/ FindCustomer(w) \/ CreateCustomer(w) \/ RenameCustomer(w)
              \/ StoreMessage(w) \/ StoreRefused(w)
              \/ Decide(w) \/ RecordReply(w)
              \/ SendAccepted(w) \/ SendFails(w) \/ NoConversation(w)
              \/ PickUnsent(w) \/ EraseUnsent(w)

Panel == \/ ToggleBot \/ ToggleGate
         \/ \E c \in Customers : TogglePaused(c) \/ LearnFollower(c) \/ DeleteCustomer(c)

Arrive == \/ \E m \in Msgs : Write(m) \/ EnqueueEvent(m)
          \/ \E w \in Workers : TakeEvent(w) \/ \E m \in Msgs : ReceiveZernio(w, m)
          \/ \E c \in Customers, text \in {"gate", "reminder"} : RecordRemoteGate(c, text)

Poll == \/ PollList
        \/ (\E c \in Customers : PollRead(c)) \/ PollReadFails \/ PollMisread
        \/ PollTake \/ PollSkip

Next == \/ Panel \/ Arrive \/ Poll \/ Tick \/ Restart
        \/ \E w \in Workers : Process(w)

Spec == Init /\ [][Next]_vars

(* run_worker polls again and again and finishes what it took; Zernio does *)
(* not refuse to show the same conversation for ever.                      *)
Fairness == /\ WF_vars(PollList) /\ WF_vars(PollTake) /\ WF_vars(PollSkip)
            /\ WF_vars(Process(Poller))
            /\ \A c \in Customers : SF_vars(PollRead(c))

FairSpec == Spec /\ Fairness

-------------------------------------------------------------------------------
(* Properties.                                                             *)

(* The deduplication of process_incoming_message: however often, on however *)
(* many threads one Instagram message id is handed in, at most one reply is *)
(* recorded for it (deleting the customer starts its history anew).        *)
OneReplyPerId == \A i \in Mids : answers[i] <= 1

History == INSTANCE Conversation WITH
          People <- Customers, Ids <- Mids,
          Writer <- [i \in Mids |-> From[i[1]]],
          enrolled <- {c \in Customers : customers[c].pk # 0},
          known <- {i \in Mids : Stored(i)},
          replies <- answers

(* The workers, each with its lookups and inserts apart from the others',  *)
(* behave like the indivisible steps of Conversation.                      *)
ImplementsConversation == History!Spec

(* drop_unsent_reply takes the latest row of the same text, whoever wrote  *)
(* it: the rows left still account for every reply Instagram accepted,     *)
(* unless the customer was deleted while a reply was on its way.           *)
AcceptedAreKept ==
  \A c \in Customers \ severed, t \in BotTexts :
    Cardinality(BotRows(customers[c].pk, {t})) >= accepted[c][t]

(* A recorded reply that is on its way or about to be taken back.          *)
UnderWay(w, c, t) ==
  /\ w \in Replying
  /\ Sender(w) = c
  /\ At(w, "send") => Alive(w) /\ proc[w].text = t
  /\ At(w, "pick") => proc[w].text = t
  /\ At(w, "erase") => \E r \in BotRows(customers[c].pk, {t}) : r.id = proc[w].row

(* Every recorded reply was accepted, is on its way or is taken back: one  *)
(* that no customer got stays in the history only after a restart, or when *)
(* two workers took back the same row or came after the drop window.       *)
NoGhostReplies ==
  \A c \in Customers \ haunted, t \in BotTexts :
    Cardinality(BotRows(customers[c].pk, {t})) <=
      accepted[c][t] + Cardinality({w \in Workers : UnderWay(w, c, t)})

(* The gate text is not repeated within the cooldown by one worker.        *)
GateSpaced ==
  \A r, s \in messages :
    (/\ r # s /\ r.sender = "bot" /\ s.sender = "bot"
     /\ r.text = "gate" /\ s.text = "gate"
     /\ r.pk = s.pk /\ r.by = s.by /\ r.by # None)
    => \/ r.at >= s.at + Cooldown
       \/ s.at >= r.at + Cooldown

(* mark_processed is only reached when the message is in the panel's       *)
(* history, so a message the poll failed on is picked up by a later one    *)
(* (as long as no customer is deleted).                                    *)
MarkedIsStored ==
  \A c \in Customers :
    (lastDone[c] # None /\ deletes = 0) => Stored(<<lastDone[c], "zernio">>)

(* The running poll still has the conversation's last message before it.   *)
InHand(c) == \/ \E i \in 1..Len(todo) : todo[i] = c
             \/ \E i \in 1..Len(batch) : batch[i] = inbox[c].last
             \/ ~At(Poller, "idle") /\ Msg(Poller) = inbox[c].last

(* A message to handle that no poll will look at: the conversation's       *)
(* updatedTime is the cached one.                                          *)
Dropped(c) == Unhandled(c) /\ ~inbox[c].changed /\ ~InHand(c)

(* poll_cycle skips the message in a broken session, its call raises, or   *)
(* the answer that should have held it is of no use.                       *)
GivenUp(c) == \/ broken /\ batch # <<>> /\ Head(batch) = inbox[c].last
              \/ /\ ~At(Poller, "idle") /\ proc'[Poller] = Idle
                 /\ Msg(Poller) = inbox[c].last
                 /\ lastDone' = lastDone
              \/ PollMisread /\ c = Head(todo)

(* The time of a conversation is cached before its message is processed,   *)
(* and marks are kept per conversation: still no poll loses a message, by  *)
(* failing requests, the rate limit, late marks or messages that come      *)
(* while it runs, except by giving up on it in a step of its own.          *)
NothingSlipsThrough ==
  [][\A c \in Customers : Dropped(c)' => Dropped(c) \/ GivenUp(c)]_vars

InTop(c) == \E i \in 1..Len(newest) \cap 1..Amount : newest[i] = c

(* The poller keeps up with every conversation that stays among the newest *)
(* Amount: its last message is stored, or the page answered or the customer *)
(* went on, although requests fail, the rate limit cuts polls short, other *)
(* conversations push in and the server restarts; only an answer that was  *)
(* of no use may hide it.                                                  *)
LastMessageIsStored ==
  \A m \in Msgs : LET entry == inbox[From[m]] IN
    <>[]InTop(From[m]) =>
      (entry.last = m ~> (Stored(<<m, "zernio">>) \/ entry.last # m \/ entry.answered
                          \/ entry.misread))

(* A customer gets one reply to one message, whichever ways it came in.    *)
OneReplyPerMessage ==
  \A m \in Msgs : answers[<<m, "meta">>] + answers[<<m, "zernio">>] <= 1
=============================================================================
