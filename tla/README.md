# GramCRM in TLA+

GramCRM is a CRM for shops that sell through Instagram direct messages. One
uvicorn process (`run.py:13`, `deploy.sh:77`) serves the admin panel and the two
webhooks, runs the inbox poller, the webhook workers and the order-notification
worker, and keeps its data in Postgres or SQLite through SQLAlchemy. Handlers
are plain functions, so FastAPI runs them in a thread pool: any two of them
interleave between their database statements.

This directory holds the models of that program, the TLC configurations that
check them on small instances, and the theorems TLAPS proves about them for
every instance. Paths below are relative to the repository root.

## 1. Inventory

| Component | State | Operations | Talks to | What is hard | What makes it correct |
|---|---|---|---|---|---|
| Orders (`app/routers/order.py`) | `orders` rows with status, version, tracking code, receipt, notification columns | create, patch, receipt, list | products (stock), customers, notifications | two patches of one order; check first, write later; stock in the same transaction | transition table, stock conservation, no lost update, references |
| Products (`product.py`) | `products` rows, `stock` | create, edit, delete | orders, keywords | an edit writes an absolute stock; a delete checks before it deletes | stock never negative, no dangling order |
| Customers (`customer.py`) | `customers` rows, `bot_paused` | list, pause, delete, manual send, AI draft | messages, orders, Instagram | deletion under messages in flight; a manual send that timed out | references; history shows what was sent |
| Order notifications (`order_notify_service.py`) | four columns of the order, the flush worker | queue, notify, flush, drop | Instagram, settings | row held over a send of seconds; two notifiers; lost tasks; backlog | never recorded untold, never forgotten, queue served |
| Inbound pipeline (`chat_service.py`) | `customers`, `messages` | process_incoming_message, drop_unsent_reply | all three ways in, Instagram | one message on several threads, several commits per call, failing sends | one reply per message, history agrees with what was sent |
| Meta webhook (`webhook.py`) | TTL cache, queue in memory | receive, enqueue_event, workers | pipeline | lost on restart, redelivery | no event processed twice |
| Zernio webhook (`zernio_webhook.py`) | none | receive | pipeline | second id for the same message | as above |
| Inbox poller (`worker.py`, `instagram_service.py`) | cached `updatedTime`s, `_last_processed`, one session per batch | poll_cycle, fetch_unread_messages, mark_processed | Zernio, pipeline | rate limits, partial batches, caches ahead of the database | the last message gets read, none is marked without being stored |
| Reply engine, product responses | none | normalise, match, format | keywords, products | text normalisation | exact match on normalised text |
| Keywords (`keyword.py`) | `keywords` rows | CRUD | synchronisation | duplicate check before insert | one keyword per normalised text |
| Comment automations (`zernio_service.py`, `postzen_service.py`, `automation_service.py`) | remote rules | sync_all_keywords, set_active, delete, pause_all | Zernio / Postzen | concurrent syncs, pause against sync, partial failure | remote rules converge to the keywords |
| Keyword diagnostics (`keyword.py`, `zernio_service.py`) | none | read | keywords, remote rules | | |
| Settings, credentials (`settings.py`, `bot_settings.py`) | one `bot_settings` row, fields of the live clients | update, discover, apply_credentials | every client | stale row applied to the shared clients | clients hold the saved credentials |
| Backup and restore (`system_service.py`) | every table | create, restore | settings | clients changed before the commit | restore is all or nothing |
| Panel messages (`message.py`) | `messages` rows | create, list | pipeline | | |
| AI draft (`gemini_service.py`) | cooldown per customer | draft | Gemini | | |
| Authentication (`auth.py`) | failed logins per address | login | | sliding window | |
| Licensing | a key file | activate, validate | | | |
| Live updates (`ws_manager.py`) | sockets | broadcast | every writer | | |
| Start-up, migrations, database, configuration | | lifespan | all | | |
| Panel (JavaScript) | the browser | | every endpoint | | |
| Scripts | | | | | |

`PROJECT.json` lists the same components with their status, and every hazard
with the line where it bites and the property that covers it.

## 2. Modules

| Module | Models | Proofs |
|---|---|---|
| `OrderBook` | what order handling promises: an abstract order book whose operations are indivisible | used by the refinement |
| `OrderLifecycle` | `routers/order.py`, `product.py`, the deletion in `customer.py` | `OrderLifecycle_proofs` |
| `OrderNotify` | the tail of `update_order`, `order_notify_service.py` | `OrderNotify_proofs` |
| `Conversation` | what the pipeline promises of a customer's history: each message received once, replied to once, deleted with its customer, in indivisible steps | used by the refinement |
| `ChatPipeline` | `chat_service.py` under `webhook.py`, `zernio_webhook.py`, `worker.py`, `instagram_service.py` | `ChatPipeline_proofs`, `ChatHistory_proofs` |
| `KeywordSync` | `keyword.py`, `sync_all_keywords` of `zernio_service.py` and `postzen_service.py`, `automation_service.py`, and what schedules them in `product.py`, `order.py`, `settings.py`, `system_service.py` | `KeywordSync_proofs`, `KeywordRepairs_proofs` |
| `Credentials` | `bot_settings.py`, the credentials in `settings.py` and `restore_backup`, the clients of `zernio_service.py`, `postzen_service.py`, `instagram_service.py`, the start in `main.py` | `Credentials_proofs`, `CredentialsSaves_proofs` |
| `MC...` | the values TLC gives the constants of the module they extend | |

`PROJECT.json` "map" gives, for each definition, the lines it stands for. A
definition introduced by a comment that starts with "Broken:" is not part of the
model: it is a plausible bug (a dropped guard, a missing unique index, a check
on the wrong row) of the definition that follows it. Putting it in that
definition's place must make TLC report the property it is listed with in
`PROJECT.json` "mutants", which shows that the property depends on that code.

### OrderLifecycle and OrderBook

State: `orders` (by `request_key`, which is unique), `stock` (products),
`customers`, and `req`, what each running handler has loaded and not yet
committed. A handler is two actions: `...Load` does its reads and checks and
takes its early returns by not being enabled; `...Commit` does its writes and the
commit. `PatchCommit` is `update_order`'s two UPDATEs: the one on the order
guarded by the version, the one on the product guarded by the stock; when either
hits no row, or the stock would not fit its column, the handler rolls back
(`PatchRefused`). `Fail` and `Crash` end handlers between the two. `supplied` is
a history variable: the units the admin ever put on sale. The units of confirmed
and shipped orders are counted as a set of pairs (order, number), `Committed`, so
that the sum over the orders is a cardinality.

`OrderBook` promises less detail and more atomicity: place, change status
together with the stock, edit stock, in one step each. `ImplementsOrderBook`
says that `OrderLifecycle` is one under the mapping that keeps product, quantity
and status of each row.

### OrderNotify

A patch is one step here (`OrderLifecycle` shows that it may be). It commits
status and `notify_pending`; `Refresh` re-reads the row and decides whether to
schedule the task (`order.py:100-105`). The task and the flush worker both run
`notify_order_status`: `Load`, then `Skip`, `Drop`, `Postpone` or `Dial`, `Send`,
and `Record`, which writes from the row loaded before the send. `Fail` is a
statement or a commit that raises at any of these places: the caller rolls back
(`order_notify_service.py:202-204`, `:233-235`), the task ends and the flush goes
on, and a message that is out by then stays unrecorded. The ORM writes only
attributes that differ from the value it loaded: `Flushed` models that. A
clock tick is one flush interval of 30 s; `age` counts ticks since
`notify_updated_at`.

History variables: `delivered` and `waived` (what the customer was told, and what
the switch dropped), `overtaken` (orders patched while a notifier held their
row) and `unsure` (orders whose customer may hear a status again: two notifiers
held the row, a send reported as failed had arrived, or a restart or a failed
commit came between a send and its record).

### ChatPipeline and Conversation

Each of `MetaWorkers`, `ZernioCalls` and the `Poller` runs
`process_incoming_message` for one message at a time, one action per commit and
per lookup on which a later insert relies: `dedup`, `find`/`create`/`rename` the
customer, `store` the message, `decide` on the reply, `record` it, `send` it and,
if Instagram refuses, `pick` and `erase` the row again. Around it are the TTL
cache and queue of the Meta webhook, the requests of Zernio's, and the poll with
its cached update times (`changed`), its batch, and the session the batch shares
(`broken`: a failed flush that nobody rolled back). Meta and Zernio give one
message different ids, hence `Mids == Msgs \X Channels`. Reply texts are three
classes: the follow-gate text, the reminder, and an answer. A tick of the clock
is five minutes, the TTL of the webhook's cache; `Cooldown` and `DropWindow` are
counted in ticks.

Zernio's list of conversations is `newest`; `Listed(S)` is that list cut down to
the customers of `S` in the same order, which is what the poll's `todo` is made
of. When the request for a conversation's messages fails (`PollReadFails`) the
poll goes on with the next one; when it hits the rate limit or raises, the rest
of the list is dropped. In both cases the conversation is read again later,
because its time is cached only when the answer is there. From that line on
(`instagram_service.py:156`) it is too late: an answer that lists no message, or
that raises while it is parsed, leaves a conversation that looks read
(`PollMisread`, which sets `misread`).

`Conversation` promises what the panel's history shows: a customer is enrolled,
an id is received once and only of an enrolled customer, it gets at most one
reply and only while it is in the history, and deleting the customer takes all
of it. `ImplementsConversation` says that the pipeline is one, under the mapping
that keeps the customers that have a row, the ids stored and the replies recorded
per id. The look-ups, the refused inserts, sending and taking rows back, the
polls and the restarts are all stutters.

History variables: `answers` (replies recorded per message id), `accepted`
(replies Instagram accepted, and gate texts that Zernio reported as sent),
`severed` (customers deleted while a reply to them was on its way) and `haunted`
(customers that may keep the row of a reply they never got: the server restarted
while a reply was under way, two workers picked the same row, or the drop window
had passed).

### KeywordSync

State: the keywords (`rows`), the price the linked product gives a reply, the
follow gate, the provider in use, and `remote`, the rules each provider holds.
A request of the panel changes the database and makes a background thread
`Due` (a sync, a sync with reset, or a pause). The thread goes through the places
of the code: `list` (GET the rules), `read` (the keywords, once), `write` (one
call per action: delete and create, patch, or halt) and `done`. What it read it
keeps in its own record, so threads overlap each other and later requests as in
the program. `List` builds the dictionary by name, which keeps one of several
rules with the same name; `Found` is the look-up by exact name, then by the
prefix `KW_<id>_`. A pause lists and halts the rules of Zernio, then of Postzen.
Calls fail (`Fault`), the provider refuses rules beyond its quota, and a rule
may have been deleted by another thread (404).

History variables: `disturbed` (running threads that met an edit, another thread,
a failed call or a refusal) and `overlapped` (a sync listed while another one of
the same provider was past its list, or a reset failed to delete).

### Credentials

State: the row `bot_settings` (key and account of each provider), the fields of
the three live clients every thread shares, and `cooling`, the hourly limit on
one kind of look-up. A thread runs one of five programs: `read` (a poll, or any
request that needs the settings), `save`, `discover`, `test`, `restore`. Its
record holds the row it read, its object with its changes, and what a call in
flight was sent with. There is one action for each commit, each network call and
each assignment to a client, as the code has no lock around them: `LookUp`, `Save`
(the UPDATE of the changed columns only, `Merged`), `ApplyKeys`, `ApplyIds`,
`ApplyPostzenKey`, `ApplyPostzenId`, `Ensure`, `Login`, `DiscoverPostzen`, and what
each caller does next. `Use` and `Used` are the look-ups a client makes for itself
when it is about to be used without an account: by the poll, by a sync or a send,
and by the PostZen branch of a connection test.

A form gives each field a value, empties it (`Blank`) or leaves it out, or masked
(`None`), and `Edited` treats both services at once, as the panel sends them. An
account is named by its key (`KeysOf` has the keys of each provider), so "this
account belongs to that key" is equality; a look-up answers the key's account or
nothing.

History variables: `disturbed` as above, and `doubt`: why key and account of the
row may not belong together. The causes are a look-up of a save that was not
answered while an id stood there, an id typed where none is looked up (for a key
that stays or is emptied: with the key emptied, the one of `.env` takes its
place, `bot_settings.py:119`), a row that changed since it was read, and an id
from a backup or, for another key, from `.env`.

The conversation caches of the Instagram client are left out. `apply` empties
them when it sees other credentials, but nothing ties an entry to an account
after that: the poller's loop caches conversations for seconds after its fetch
(`worker.py:52-56`), and so do the webhooks, `mark_processed` and
`find_conversation_id` (`instagram_service.py:328-371`), so entries of the former
account come back. No property of the program's own could be stated about them.

## 3. Runs

Passing runs:

| Run | Question | Shows |
|---|---|---|
| `order_lifecycle` | do two concurrent handlers keep orders, stock and references right? | types, the version lock, stock conservation, references, tracking codes, legal moves, refinement of `OrderBook` |
| `order_notify` | two admins, the worker, the switch, restarts and failing statements over one order | the record is true; a notification is lost only when a patch overtook a notifier; a status is told again only for a named cause |
| `order_notify_backlog` | a backlog of one order more than a flush takes, each due at a time of its own | every order whose window stays open is served; switching off empties the queue |
| `chat_webhooks` | a queue worker and two Zernio requests, the follow gate, failing sends, a deletion | one reply per id, refinement of `Conversation`, accepted replies stay in the history and unsent ones leave it, one worker spaces its gate texts |
| `chat_race` | the poller beside the Meta webhook, two new customers, a restart | a message is marked only when it is stored; no step of a poll loses the last message of a conversation but the one that gives up on it or gets an answer of no use |
| `chat_poller` | the poller alone, three customers and room for two in the list, with failing requests, rate limits, failing sends, a restart | the last message of each conversation that stays in the list is stored, unless an answer of no use hides it |
| `keyword_sync` | two background threads and three requests over two keywords and both providers, a failing call, a restart | a second rule for a keyword needs overlapping syncs or a failed delete; an undisturbed sync or pause repairs whatever was left behind |
| `credentials` | the poller and a request that saves any form, discovers, tests or restores, clients that look an account up for themselves, two accounts, look-ups that fail, restarts | an undisturbed thread leaves the saved credentials; key and account match unless a named cause occurred; the clients converge |

Runs that find what a comment of the code says not to hold (each is a finding in
`PROJECT.json`, with the quoted line):

| Run | Violates | Because |
|---|---|---|
| `order_notify_lost` | `UntoldStaysQueued` | a send in flight writes `notify_pending=False` over a newer patch, and the patch's request then reads that value and schedules nothing |
| `chat_double_reply` | `OneReplyPerMessage` | "last message is ours" was checked when the poller fetched, before the webhook's reply, and the two ids differ |
| `keyword_deleted` | `DeletedStopsFiring` | two overlapping syncs both create the rule of a new keyword; the dictionary by name keeps one of them, and after the keyword is deleted the other goes on answering comments |
| `credentials_key` | `KeyOwnsAccount` | a save clears the ids of the old account when the key changes, then takes those the form still holds; when the look-up for the new key is not answered, the new key is committed with the old account |

### Bounds, and why they are enough

- `order_lifecycle`: two keys, one product, one customer, two handlers, one unit
  per order, stock 0 or 1, `MaxInt` 1. Every race here is between two handlers,
  over the same order or over two orders of the same product; the column limit
  is reached by giving a unit back after an edit. `MaxVersion` 4 allows the two
  patches of a full life (pending, confirmed, shipped) and one more that keeps the
  status and rewrites the tracking code; a patch beyond it is refused. Symmetric
  in keys and handlers.
- `order_notify`: one order, two admins: three notifiers of the same row. `Grace`
  2 is 60 s in 30 s intervals, exact; `Limit` 1 stands for 10. `Mishaps` bounds
  restarts and failing statements together: two of them, so that one can undo
  what the recovery from the other did.
- `order_notify_backlog`: three orders, `Limit` 2, `Grace` 2, so a flush has a
  batch whose sends end at different times, and one order is left out of it. It
  starts with all of them queued after a first send that timed out, so that what
  was delivered does not multiply the states. With
  `Limit` + 1 orders the one that is left out has its turn: it can be kept out of a
  flush only by `Limit` newer ones due at once, that is by all of them, and the
  last of a batch to be tried comes due after the others. With `Limit` + 2 that
  argument fails, and TLC shows the newest orders starving the oldest.
- `chat_webhooks`: one customer, a question and a claim to follow, three
  threads, two deliveries, a deletion, one switch. Races on one id need two
  threads, and a failing reply that erases another one's row needs two replies.
  No restart happens there: that a restart may leave a reply behind is part of the
  theorem about `NoGhostReplies`.
  `chat_race` has two customers because a batch must go on after a failure.
  `chat_poller` has three customers with a message each and `Amount` 2, so that
  one conversation is always pushed out of the list; all follow the page
  (`FollowedSpec`), as the gate only chooses between reply texts. `Amount` 2 stands
  for 10 conversations and `Attempts` 1 or 2 for 3.
- `keyword_sync`: two threads (every overlap is between two), two keywords with
  two spellings (renames, reused ids, an orphan beside a live keyword), two
  prices, one text (price and word stand for every kind of content that changes,
  the first read late, the second early), three rule ids per provider, so that two
  keywords and a duplicate reach the quota, three requests, one failing call,
  one restart. `keyword_deleted` needs one keyword and its creation, edit and
  deletion.
- `credentials`: the poller and one serving thread, two keys of Zernio and one of
  PostZen, every form over them, one request that changes the row; `.env` names
  the key of one account and leaves its id to the look-up. A race over the clients
  needs two threads with different rows, which the poller and a save are.
  Restarts and the clients' own look-ups are not bounded. `credentials_key` has
  the same values.
- `MaxEdits`, `MaxFaults`, `MaxRequests`, `MaxCalls`, `MaxSwitches`,
  `MaxDeletes`, `MaxRestarts`, `MaxClock` and `Mishaps` bound the environment:
  messages, panel clicks, deletions, restarts, failures, time. Once they are used up `OrderLifecycle` and `ChatPipeline` may really be idle for ever,
  hence `CHECK_DEADLOCK FALSE` there, and for the same reason for `KeywordSync`
  and `Credentials`; `OrderNotify` has a clock and deadlock is
  checked. The bounds are constants, and the theorems hold for all their values.

### Fairness

- `OrderNotify!FairSpec`: weak fairness of time, of the flush worker's loop, of
  the requests and of a running `notify_order_status`: threads of a live process.
  A statement may raise instead of ending well, so it is the choice of the two
  that is fair. Strong fairness of an accepted `Send`, for each process, is an
  assumption about Instagram: a message that is tried again and again is accepted
  in the end. No fairness is assumed of the customer, the switch, or the admin.
  Restarts and failing statements are bounded: a database that fails in each
  flush serves no queue.
- `ChatPipeline!FairSpec`: weak fairness of the poll loop (`run_worker` never
  returns) and of the call it runs. Strong fairness of `PollRead(c)`: reading
  one conversation does not fail for ever. Restarts are bounded, as a server
  that restarts for ever within each poll makes no progress.
- `Credentials!FairSpec`: weak fairness of `Poll` (the worker's loop calls
  `get_bot_settings` each time round, also when the bot is off, unless
  `ENABLE_IG_WORKER` is off, which the model excludes) and of the worker's own
  steps, whose calls all have time-outs. Nothing is assumed of requests, which may
  hang before any of their assignments, and look-ups may go unanswered for ever.
  Requests that change the row are bounded: convergence is a claim about what
  follows the last change. Restarts need no bound, as each one applies the row.

## 4. Proofs

| Theorem | States | Argument |
|---|---|---|
| `OrderLifecycle_proofs!TypeCorrect` | `Spec => []TypeOK` | inductive by itself |
| `VersionLocks` | `[]OptimisticLock` | inductive with `TypeOK`: a commit takes a new version, so requests with an older one become stale and those with the current version stay exact |
| `OnlyLegalMoves` | `LegalMoves` | a patch that hits has, by `OptimisticLock`, checked the transition against the current status |
| `ShippedHasCode` | `[]ShippedIsTracked` | the check on the loaded row holds for the current one, again by the lock |
| `StockIsConserved` | `[]StockConservation` | `StockInv` (which adds that the units can be counted), with the version lock and the references: each commit adds to or removes from the units exactly the pairs of its own order, which no other order's are |
| `OrdersKeepReferences` | `[]ReferentialIntegrity` | the foreign keys are tested by the commit, not only by the load |
| `Refinement` | `ImplementsOrderBook` | each commit maps to one abstract operation, each load to a stutter; a patch needs the lock, and deleting a product the references |
| `OrderNotify_proofs!TypeCorrect` | `[]TypeOK` | inductive by itself |
| `RecordIsTrue` | `[]RecordedIsDelivered` | strengthened by `AnswersAreDelivered` (a positive answer in hand means the message arrived) |
| `LossNeedsOvertaking` | `[]ForgottenOnlyIfOvertaken` | strengthened by `HeldIsCurrent` (a held row of an order that was not overtaken has its current status) |
| `ToldOnce` | `[]ToldOnceUnlessUnsure` | `OnceInv`, see below |
| `ChatPipeline_proofs!TypeCorrect` | `[]TypeOK` | `Types` and `Rest`; a filtered list is a list because ranks among the places it keeps are unique (`RankOnce`, `RankRange`) |
| `RepliesOnce` | `[]OneReplyPerId` | see below |
| `NoPollSlips` | `NothingSlipsThrough` | `Track`, see below |
| `PipelineImplementsConversation` | `ImplementsConversation` | with the invariant of `RepliesOnce`, see below |
| `ChatHistory_proofs!MarksAreTrue` | `[]MarkedIsStored` | `MarkInv`: without deletions stored messages stay, and a worker about to mark has seen its message stored (`Sound`) |
| `GateTextsAreSpaced` | `[]GateSpaced` | `GateInv`: a worker cleared to record a gate text has no recent one of its own in the table (`Cleared`), and no row is dated ahead of the clock |
| `RepliesAreAccounted` | `[]AcceptedAreKept` | `KeptInv`, see below |
| `UnsentRepliesGo` | `[]NoGhostReplies` | `GhostInv` on top of `KeptInv`, see below |
| `KeywordSync_proofs!TypeCorrect` | `[]TypeOK` | inductive by itself |
| `DuplicatesNeedOverlap` | `[]DuplicateNeedsOverlap` | `OverlapInv`, see below |
| `KeywordRepairs_proofs!PausesSilence` | `[]CleanPauseSilences` | `PauseInv`: an undisturbed thread is the only one running; a pause past Zernio has silenced it, and every rule still active is among its halts |
| `SyncsMirror` | `[]CleanSyncMirrors` | `SyncInv`, see below |
| `Credentials_proofs!TypeCorrect` | `[]TypeOK` | inductive by itself |
| `CredentialsSaves_proofs!AnsweredSavesMatch` | `[]AnsweredSaveMatches` | `MatchInv`: without doubt the row matches and so does the draft of every thread, by the place it is at (`Draft`) |
| `AloneRequestApplies` | `[]AloneApplies` | `AloneInv`: a thread that is alone is the only busy one, and each place says which clients it has already set (`Progress`) |

`ToldOnceUnlessUnsure` has to survive a patch in the middle of a send, whose
record then overwrites the row of the new status. `OnceInv` says why it does.
An order never comes back to a status it has left, so the statuses delivered and
those in hand are among those gone through (`GoneThrough`), and a patch always
moves to one not told yet. While an order is not unsure, one notifier at most
holds its row (`HeldByOne`), which is as loaded but for patches (`AsLoaded`);
what it may still send was not told (`NotTold`), and if the present status was
told, the row records that or the notifier is about to (`TellingIsRecorded`). A
notifier holding an outdated row can then only overwrite a record that is not
there.

The property `OneReplyPerId` says nothing of threads. What makes it inductive is
that storing a message under a unique id is a token: exactly one thread takes it
and only its holder may record the reply. `Held` says so of a thread between
storing and recording whose customer still exists: its message is stored, has no
reply yet, and no other such thread has the same id. `Fresh` says that an id with
no message has no reply, `Owned` that a stored message belongs to the present row
of its writer, and `Keys` that primary keys come from a sequence and no two
customers share one; `Types` has the types the steps need. Deleting a customer
takes his messages away from under a thread, and `Keys` is needed because
`Alive` then fails for it for good: a key is not issued again.

The same invariant carries the refinement of `Conversation`. The steps that do
not stutter are the two inserts that a look-up precedes, the recording of a reply
and the deletion. For the inserts, the unique indexes are the abstract guards.
`Conversation!Reply` needs an id that is in the history and has no reply: `Held`
says so of the thread that records one. If its customer was deleted meanwhile,
the insert fails its foreign key and the thread ends, which is a stutter.

`NothingSlipsThrough` is about single steps: in none may a conversation with an
unhandled last message become one that no poll will look at, unless in that very
step the batch skips the message, its call raises, or the answer that should have
held it is of no use. What could do it is a
conversation that changes while a poll has its former last message in hand.
`Track` says that this is harmless: whatever the poll has in hand is the last
message of its conversation, or the conversation has changed since its time was
cached and the next poll reads it.

`AcceptedAreKept` compares counts: rows with a text against replies with that
text that were accepted. A failing send takes back the latest row with the same
text, which may be another worker's, so no row belongs to one reply. `KeptInv`
counts instead: the rows of a customer and text are at least the accepted replies
plus the workers that have recorded one and may still take a row back or have it
accepted (`Balanced`); `Book` has the finiteness the counts need.
`NoGhostReplies` bounds the rows from the other side: at most the accepted replies
plus those under way (`Covered`). An accepted reply moves from one count to the
other; a deleted row must take exactly one worker with it, which is what `Lone`
says: outside `haunted`, no two workers are about to delete the same row. The two
theorems together say that once all calls have ended, the rows of a customer
outside `severed` and `haunted` are exactly as many as the accepted replies.

`DuplicateNeedsOverlap` becomes inductive with what a sync in the middle of its
work knows (`Tracked`): what it has seen are the rules there are, a job to create
belongs to a keyword without a rule, a job to patch names the rule of its
keyword, no keyword has two jobs, and only one sync per provider is past its
list. The last part is what an overlap breaks.

`SyncInv` is about a sync nothing disturbed, so the keywords, the price and the
gate are still as it read them. `Ahead` says what holds between any two of its
calls: every keyword in use has its rule up to date or a job still to come; of
the rules of any other keyword one is off or among the halts; jobs and halts
name rules that are there. At the end there are no jobs and no halts left. It
does not ask for one rule per keyword: the property does, since with duplicates a
sync manages only one of them (which is what `keyword_deleted` shows).

The theorems assume only the named ASSUMEs of the modules (quantities are
positive, the poller is not a webhook worker, `Grace` and `Limit` are at least
one, the bounds are natural numbers, the threads of the pipeline are finitely
many and so on). TLC evaluates all of them in the runs.

Every invariant, action property and refinement that the passing runs check is
proved. Only model-checked are the liveness properties: `QueueIsServed` and
`SwitchedOffDrains` (`OrderNotify`), `LastMessageIsStored` (`ChatPipeline`) and
`ClientsConverge` (`Credentials`) rest on fairness and on `ENABLED`, which the
prover cannot treat. The four violations are counterexamples, which need no proof.

## 5. Abstractions and what is left out

- `run.py` and `deploy.sh` start one process; several workers would break the
  in-memory caches and are not modelled.
- Primary keys are never reused, as with a Postgres sequence. SQLite without
  AUTOINCREMENT may issue the largest deleted key again.
- A delete of a customer with its messages is one transaction and one step.
- `Product.active` is always true: no endpoint changes it.
- A patch that keeps the status (a new tracking code) queues no notification
  and is left out of `OrderNotify`; it is in `OrderLifecycle`.
- `decide` reads follower data, settings and history in one step. A switch
  thrown between these reads acts as if it came before or after.
- `RecordRemoteGate` (the gate text Zernio's own automation sent) is one step.
- Not modelled in the pipeline: the webhook without a queue
  (`ENABLE_WEBHOOK_QUEUE=false`), events without a message id, the cut-off for
  messages older than 23 h, the bound of 3000 on the TTL cache, the text of
  replies, handing a thread's control back to Meta's inbox.
- In `KeywordSync` both providers are taken as configured (a key and an account
  are saved); buttons, delays, variations and the account filter travel with the
  text of a row in the same call; spellings are compared as they are, not
  normalised. A call that took effect although its answer was lost counts as one
  that succeeded, since the code handles both alike.
- In `Credentials` account, profile and username of Zernio are one id: they are
  looked up and cleared together.
- In `OrderNotify` a failing statement is a step of its own at the place the
  process is at; in `OrderLifecycle` it is `Fail`.

Observations made while modelling that no run states as a violation:

- `drop_unsent_reply` selects the latest row with the text of the failed reply and
  deletes it in a later commit (`chat_service.py:72-86`). Two calls that fail with
  the same text can both select the later row; the other one then stays, although
  line 57 says that the recorded reply is deleted. Without the clause of `haunted`
  for it, TLC finds this in `chat_webhooks`.
- The flush takes the ten newest due orders (`order_notify_service.py:225-226`),
  and the sends of a batch end at different times, so the orders that are tried
  again come back spread over the following flushes: with more than eleven orders
  postponed or failing over and over, the newer ones can keep an older one out for
  ever. With two orders more than a flush takes, `QueueIsServed` fails.
- The update time of a conversation is cached before its messages are parsed
  (`instagram_service.py:156`): an empty or malformed answer hides the last message
  until the conversation changes or the server restarts.
- The poller's session is not rolled back after a failed flush, so the rest of
  the batch is skipped, and as their update times are cached by then
  (`instagram_service.py:156`), these conversations are looked at again only when
  they change or the server restarts (`worker.py:97`).
- The list of conversations is cut to the newest ten before unchanged ones are
  left out (`instagram_service.py:110`).
- With an account id missing, `ensure_configured` and `ensure_authenticated` look
  it up each time the settings are read; only the look-up in `get_bot_settings`
  itself is limited to one an hour (`bot_settings.py:9`, `:150`).
- A new Postzen key does not clear `postzen_account_id`, as a new Zernio key does
  with its ids.
- The sync that follows an edit of a keyword or a restore switches rules on again
  also while the bot is off (compare `automation_service.py:43-46`).
- A change of provider leaves the rules of the old provider active.
- The diagnostics compare a rule's texts only when the listing has them
  (`keyword_diagnostics.py:87-91`), and compare them with the reply as it is in the
  keyword, although the sync strips it and cuts it to 640 characters
  (`zernio_service.py:200-204`). They never compare the follow gate, buttons,
  delays, variations and the post.
- The settings form may store an account with no key, when the key field is
  emptied and the ids are kept; the key of `.env` is then used with it
  (`settings.py:141-155`, `bot_settings.py:119`).

## 6. Not modelled

| Part | Why |
|---|---|
| Licensing | a key is signed and validated by one computation over a hash; nothing interleaves with it |
| Authentication | a signed cookie, and a list of recent failures per address that only the login reads |
| AI draft | one HTTP call and a cooldown; the draft goes to the operator and nothing else reads it |
| Panel messages, manual send | one call and one insert at most per click; the ambiguity of a timed-out send is between Instagram and the operator |
| Live updates | best-effort broadcasts that nothing waits for |
| Webhook without a queue, events without an id, the bound of the TTL cache | the same pipeline on another thread; a fingerprint of text; a capacity far above what a model instance holds |
| Matching and rendering of texts | pure functions of strings |
| Keyword diagnostics, preview, delivery logs | only read; what a listing shows of a rule is up to the provider |
| The conversation caches of the Instagram client across a change of account | later writers put entries of the former account back, see Credentials |
| Export of backups, logs, status, version check, self-update | I/O |
| Migrations, configuration | DDL; read once at the start |
| The panel's JavaScript, operator scripts | an environment that issues any request; tools without state |
