# Verification of leaf-flow-chat

TLA+ models of the chat service: what its transactions, its outbox and its
workers promise when they run concurrently, fail half way and are retried, what the
WebSocket hub does between two awaits, what a client is shown that reads page by
page, and how a message gets from its commit to the clients of all instances.
TLC checks small instances; TLAPS proves every safety property and every
refinement for every size of the constants. Only liveness is model-checked alone:
TLAPS has no rules for fairness and ENABLED here.

Paths below are relative to the repository; `chat/` stands for
`src/chat_service/`.

## 1. Inventory

### Components and the state they keep

| Component | Code | State | Operations |
|---|---|---|---|
| Services over PostgreSQL | `chat/services/*.py`, `chat/infrastructure/db/repositories/*.py` | tables conversations, participants, messages, read_state, outbox_messages | send_message, get_or_create_support/topic, assign, close, mark_read, lists |
| Outbox worker | `chat/workers/outbox_worker.py`, `repositories/outbox.py` | status, attempts, next_retry_at of the outbox rows; the open transaction and `sent_ids` of each worker | poll, claim a batch, publish, mark failed, mark sent, commit |
| LeafFlow consumer | `chat/workers/leaf_events_consumer.py`, `infrastructure/bus/redis_streams.py` | consumer group and its pending entries in Redis | read new entries, handle, acknowledge |
| Pub/Sub fan-out | `infrastructure/bus/redis_pubsub.py`, `chat/app.py` | one listening task per API instance | publish, listen, dispatch |
| WebSocket hub | `infrastructure/ws/manager.py`, `api/v1/routers/ws.py` | sockets per principal, principals per conversation | connect, disconnect, subscribe, broadcast, send |
| Cursor pagination | `repositories/_cursor.py`, the list queries | none (the client holds the cursor) | first page, next page |
| Routers, schemas, middleware, auth, mappers, scripts | `chat/api`, `infrastructure/auth`, `infrastructure/db/mappers`, `chat/scripts` | none | translation and verification |

### How they interact

A REST call, a WebSocket frame or a stream entry becomes one call of a service
with its own session. The service writes its tables and one outbox row in one
transaction. The outbox worker, a separate process that may run in several
copies, carries committed outbox rows to the Redis channel `chat.fanout`. Each
API instance listens to the channel and broadcasts to its own sockets; a sender
on a WebSocket is also answered by a direct broadcast of its instance.

### What is hard

* Transactions interleave at READ COMMITTED: checks precede inserts, locks are
  taken by whichever statement comes first, clocks are read before locks.
* The channel is outside the database transaction: a crash between publish and
  commit, or a lost answer of Redis, duplicates; repeated failures give up.
* Retries by clients race the attempt they repeat.
* Stream entries that were read and not acknowledged belong to a consumer name
  that is random and gone after a restart.
* Broadcasts iterate live sets across awaits; subscriptions are per principal,
  connections per socket.
* A dead socket is disconnected by each broadcast that found it and by its own
  handler, at different times, and takes the subscriptions of its principal along
  each time.
* Pages are read while messages with earlier timestamps are still uncommitted.

### What makes each component correct

* *Outbox*: no row in two hands, nothing settled that was not published, every
  duplicate has a cause, no row stranded, every row ends.
* *Services*: one message and one event per client key, truthful answers, no
  internal errors and no deadlocks from interleavings, closing is final,
  participants, assignee and the messages of assignments agree, timestamps agree
  with commits where locks make them.
* *Consumer*: acknowledged implies handled; what is never handled is known.
* *Hub*: a broadcast reaches every socket subscribed throughout it, and takes
  nobody down who is there.
* *Fan-out*: what is told is stored; a page that has loaded the history after its
  subscription took effect lacks nothing until it is cut off, unless something
  happened that can be named.
* *Pagination*: pages do not repeat or leave out what was there when the first
  was read, nor what was sent later.
* *Read state*: a tab never takes its own progress back.

`PROJECT.json` lists the hazards at their lines, with the properties that cover
each.

## 2. Plan

| Order | Module | Contents | State |
|---|---|---|---|
| 1 | `EventRelay`, `OutboxRelay`, `OutboxRelayProofs` | abstract relay, the workers, refinement, proofs | done |
| 2 | `ChatStore` | the services as concurrent transactions | done |
| 3 | `ChatStoreProofs` | locks exclusive, so `NeverFails`, `NoWaitCycle`, `ExactlyOnce`, `AnswersAgree`, `ClosedIsFinal`; over them `AdminMessagesAreNewest`, `LastFollowsCommits`, `RightMembers` | done |
| 4 | `LeafConsumer`, `LeafInbox`, `LeafConsumerProofs`, `LeafOrderProofs` | stream, group, pending entries, restarts, order events out of order; what all that amounts to for the services, and the refinement | done |
| 5 | `WsHub`, `WsHubProofs` | connection registry with awaits inside broadcast | done |
| 6 | `CursorPaging`, `CursorPagingProofs` | list queries page by page under concurrent commits, read pointers | done |
| 7 | `Fanout`, `FanoutProofs` | composition: commit, `EventRelay`, channel, listeners, both disconnects of a socket, subscriptions, histories | done |
| 8 | `ChatLedger`, `ChatLedgerProofs` | the services as atomic calls, implemented by `ChatStore` | done |

Three abstract specifications say what a component promises, each checked and
proved to be implemented: `EventRelay` by `OutboxRelay` (`RelaySpec`),
`ChatLedger` by `ChatStore` (`LedgerSpec`), `LeafInbox` by `LeafConsumer`
(`InboxSpec`). `EventRelay` also ties the modules together: `Fanout` is built on
it and moves it in no way of its own (`UsesRelay`). `WsHub` stands to a
broadcast of `Fanout`, `ChatStore` to a commit and `CursorPaging` to the loading
of a history as the detailed module to a step. Each module has one run for its
invariants and liveness, or two where the instance for liveness must be smaller,
and one per finding.

## 3. OutboxRelay

State: `row` is the committed version of each outbox row and `draft` the version
written by the transaction that holds its lock, if any. `claimed`, `todo` and
`acked` are a worker's batch, the rest of its loop, and `sent_ids`.
`publishes`, `strays` and `rollbacks` are history: copies on the channel, copies
that no committed "sent" will account for, and lost transactions.

| Action | Code |
|---|---|
| `Add` | `OutboxWriterRepo.add` and the commit of the service |
| `FetchPending` | `fetch_pending`: select due rows not locked by others, oldest first, mark them |
| `Skip`, `PublishOk`, `PublishFails` | one turn of the loop of `_process_batch`; a failure may or may not have reached Redis |
| `Commit` | `mark_sent`, commit |
| `Rollback` | an exception of a statement or the death of the worker; the loop in `run_outbox_worker` goes on |
| `Tick` | time brings `next_retry_at` nearer, in open transactions too |

Abstractions: ids are in created_at order and commits happen in any order; the
select is one atomic step (a row another worker commits during it is skipped by
PostgreSQL's recheck, which amounts to a smaller batch of the same kind); delays
are ticks instead of seconds; payloads are left out.

### Runs

| Run | Bounds | Shows |
|---|---|---|
| `outbox` | 2 events, 2 workers, batch 2, 3 attempts, 2 rollbacks, delays 1, 2 and the cap 3, fair | the safety properties and the inductive invariant, of which `TypeOK` is a conjunct; `EventRelay` is implemented; final rows stay final; copies are bounded (`CopiesBounded`); every row is sent or given up |
| `outbox_at_least_once` | 1 event, 1 worker, 2 attempts | finding: an event can be given up undelivered |

Two events fill a batch or are shared out among the workers, and while one
worker holds both or one of them the other finds nothing or a remainder. Three
attempts make a row fail, be retried, reach the cap of the back-off and the
limit. Two rollbacks let an event be published twice by two batches that are
lost.

Fairness: each worker's loop never ends (`while True` with every exception
caught), so its enabled steps are weakly fair, and time passes. Writers need not
write, and publishes may fail each time. Rollbacks are bounded, that is, the
database is usable eventually.

### Proofs (`OutboxRelayProofs`)

For all `Events`, `Workers`, `BatchSize`, `MaxAttempts`, delays and
`MaxRollbacks`, from `ConstantsAssumption` alone (numbers are naturals; the
back-off of every attempt is one, which the solver cannot derive for `2^n`):

* `Typing`, `Exclusive`, `SentIsPublished`, `DuplicatesHaveCause`,
  `StuckIsExhausted`, `CopiesAreBounded`: the invariants of `outbox`, and that a
  row committed as sent was published (which `RelaySpec` contains);
* `FinalForever`: the action property;
* `Implements`: `Spec => RelaySpec`, the refinement of `EventRelay`.

None of the properties is inductive alone. `RelayInvariant` adds what the code
relies on: a row outside every batch has no uncommitted version
(`OnlyClaimedAreDrafted`); a row of a batch is due in its committed version and
carries exactly the mark, the failure or the acknowledgement that its place in
the loop calls for (`DraftOfClaimed`); and copies on the channel equal strays
plus one if the row is sent or in some `sent_ids` (`PublishesAccounted`). There
is one lemma per action; `TurnFrame` does what the three outcomes of a loop turn
share. `Implements` maps a publish to `Deliver` or a stutter, a commit to
`Finish(sent_ids, skipped rows)`, and everything else but `Add` to a stutter.

`CopiesBounded` is a bound on duplicates: `OUTBOX_MAX_ATTEMPTS` broadcasts of an
event, and one more for each batch that was rolled back. It needs `StraysCounted`
on top: a copy that no commit will record has cost an attempt in the newest
version of the row, or came with a rollback, which takes one attempt back at most
(`DraftAttempts`); and a row that is sent had an attempt left.

Only model-checked: `EventuallyFinal` (liveness).

## 4. ChatStore

A request is a call of a service with a session of its own. The tables `conv`,
`member`, `log` (messages in commit order) and `events` (outbox rows) hold
committed data. `pc`, `dest`, `at` and `reply` are the request: the statement it
is at, its conversation, the clock it has read, its answer. What it has written
is implied by `pc` and becomes visible in `Commit` or `Create`; `HoldsKey` and
`HoldsRow` say which locks that implies and `Blockers` who waits for whom.

| Actions | Code |
|---|---|
| `Send`, `Insert`, `Refetch`, `Touch`, `Commit` | `send_message`, `create_if_not_exists`, `touch_last_message_at` |
| `Notify`, then as a send | `_handle_order_status_changed` |
| `Load`, `Lock`, `CheckMember`, `Join`, `Commit` | `assign_conversation`; closing skips the two in the middle |
| `Lookup`, `Create` | the two get_or_create functions |
| `Abort` | an error, a disconnect or a crash: rollback |

PostgreSQL is modelled as the code uses it: an `INSERT ... ON CONFLICT DO
NOTHING` waits for an uncommitted row of the same key and then sees it or
inserts; an UPDATE locks the row until the end of the transaction; the foreign
key check of an insert takes a lock that does not conflict with these UPDATEs;
each statement sees what is committed when it starts.

Abstractions: one clock for all processes, so timestamps differ; the two reads
of the access check are one step (membership of users never changes after
creation, and admins need none); the participant row of a new conversation and
the rows written between the last lock and the commit are written in one step,
since nobody can see or wait for them. The response of `PATCH`, which returns
the session's own copy of the conversation, is left out.

### Runs

| Run | Bounds | Shows |
|---|---|---|
| `store_requests` | 3 requests of 13 tasks, fair | `ExactlyOnce`, `AnswersAgree`, `NeverFails`, `LastFollowsCommits`, `RightMembers`, the inductive invariant (with `TypeOK`), `NoWaitCycle`, `AdminMessagesAreNewest`, `LedgerSpec`, `EveryRequestEnds` |
| `store_one_support` | 3 lookups of one user | finding: two open support conversations |

Three requests are enough for two to race and a third to see or repeat the
outcome, and to wait in circles of two and three; longer ones are excluded by
proof. Every state of an existing conversation at the start (open,
one user, no messages) is one that `Create` produces. The deadlock check of TLC
is off in all runs: a request need not arrive, and all of them end.

Fairness: a started request's next statement is executed when it need not wait
for a lock. Starting is not fair, nor is aborting.

What the runs mean: `LastFollowsCommits` holds, so last_message_at is the
timestamp of the message *committed* last. That need not be the newest message,
as the repository's `README.md:453` ("время последнего сообщения") has it: of
two overlapping sends, the one that read its clock first may commit last. It
only matters for the order of the lists, see `CursorPaging`.
`AdminMessagesAreNewest` holds because assign and close read the clock after
their first UPDATE; sends read it before. `NeverFails` covers the membership
check of `assign_conversation`, which is safe only because the UPDATE before it
already holds the row. `RightMembers` relates the three tables an assignment
writes: the admins among a conversation's participants are exactly those whose
assignment a committed message announces, and the assignee is the admin of the
last of these messages. An assignment adds a participant only by way of `Join`;
one that takes the other way out of `CheckMember` relies on the row it found, and
a check that forgets whom it is about (the mutant `CheckAnyMember`) leaves an
assignee outside.

### Proofs (`ChatStoreProofs`)

For all `Requests`, `Tasks`, `Existing`, users, admins, topics and keys, from
`StoreAssumption`: what tasks are (only a send carries a client's key, a
conversation is opened by a user on a topic, an admin is assigned) and that
names do not coincide. Users and admins are apart because a participant is a
kind and an id.

* `StoreInductive`, `StoreTyping`: the inductive invariant and the types;
* `SendOnce`, `SameAnswer`: idempotence of `send_message`;
* `NoneFails`, `WaitsEnd`: no internal error, no circle of waiting transactions;
* `WaitsStayShort`, `RequestsAdvance`: a wait passes over two holders at most, and
  a request ends after five statements;
* `ClosedForever`: a closed conversation is never reopened (no run lists
  `ClosedIsFinal`, for `LedgerSpec` implies it);
* `LastMessage`, `AdminNewest`, `Membership`: what the row lock orders.

`StoreInvariant` joins three things that only hold together. `LocksExclusive`: a
row and a key have one holder. `InPlace`: what a request relies on at each
statement, for instance that the admin it is about to add is still not a
participant, that the one it found still is, or that no committed message has the
key it holds. `ExactlyOnce`
itself. A request's reliance survives the commit of another because the other
would have to hold the same lock. `MoveFrame`, `MoveInPlace` and `MoveKeeps`
treat the steps that write no table; `Commit` and `Create` have lemmas of their
own. `WaitsEnd` needs no order of requests: whoever is past its last wait waits
for nobody, whoever waits for the row waits for one of those, and whoever waits
for a key for one of either.

The last three rest on a second invariant, `OrderInvariant`, inductive given the
first. `LateUnderLock` is its core: an assignment or closing that is ready to
commit has a time later than every message its conversation has. It holds when
the clock is read, for no time lies ahead of the clock, and it stays true
because nobody else can commit to that conversation while the row is locked.
`Housed` keeps messages and participants out of conversations that do not exist
yet, so that a new one starts with nobody assigned and nobody announced.
`MovesInOrder` says what a step that writes no table may read and answer, so
that only `Commit` and `Create` need an argument about the log.

Only model-checked: `EveryRequestEnds` (liveness). `WaitsStayShort` and
`RequestsAdvance` are its part that is a matter of safety: someone never waits,
and whoever moves gets nearer to its end.

### The ledger (`ChatLedger`, `ChatLedgerProofs`)

`ChatLedger` is `ChatStore` without statements and locks. A call that is pending
ends in one step: `Post`, `Assign`, `Close` and `Open` change every table they
concern, `Repeat` and `Find` answer with what is stored, `Refuse` is possible only
while the call must not be served, and `BreakOff` changes nothing. `Tick` is time.
The mapping keeps the tables, `task` and `reply`; `messages` is `log` with the
conversation and time of each request, and `outcome` is "pending" until a request
has ended. What it leaves out is what is *not* promised: `Find` may miss an open
conversation (`Open` needs no `Matching(r) = {}`), which is the finding of
`store_one_support`, and a `Post` may carry any time up to now.

`ImplementsLedger` proves `Spec => LedgerSpec`. A request takes effect where it
commits (`CommitTakesEffect`, `CreateOpens`), reads the message it repeats
(`RefetchRepeats`) or finds its conversation (`LookupFinds`); an abort is a
`BreakOff` (`AbortBreaksOff`), a refusal is a `Refuse` (`RefusesRightly`), and all
other steps are a `Tick` or nothing (`InnerSteps`). The checks a request made
before, at other statements, have to hold at that moment too: `StoreInvariant`
says so of keys, `LateUnderLock` of times, and a third invariant, `RightsLast`, of
the right to write to the conversation, which nobody can take away since the
tables only grow in that respect (`StepGrows`).

## 5. WsHub

One API instance, one event loop. A step lasts from one await to the next, so
the handlers, the listening task and `disconnect` are atomic between awaits; the
registry (`conns`, `subs`) is read across awaits only by
`broadcast_to_conversation`. `job[a]` is the broadcast actor `a` (a socket's
handler or the listening task) is in: `to` is the socket whose `send_text` is
awaited, `outer` and `inner` the two iterators.

| Actions | Code |
|---|---|
| `Connect`, `Over` | `ws_chat`: `connect`, and the `finally` with `disconnect` |
| `Subscribe`, `Broadcast` | `_read_loop`, `_handle_send` |
| `Leave` | the peer goes away: `send_text` raises from then on |
| `Begin`, `Enter`, `Deliver` (`Tried`, `Proceed`) | one turn of the loops of `broadcast_to_conversation` |
| `Finish`, `Break` | its end: dead sockets are disconnected, or `RuntimeError` leaves the loops |
| `Publish`, `Dispatch`, `StopListening` | the channel, `_listen` and `_on_pubsub_event` |

A Python set iterator compares the size of the set with the size it started
with: `Breaks`. If the set was changed and has that size again, the iterator
goes on at some place of a table that may have been rebuilt, so `Ahead` allows
any part of the set. When a principal's last socket goes, its set is deleted
from the dict, empty; an iterator still over it is "gone" and raises at its next
step. Order of iteration is never assumed.

Abstractions: `send_text` has no duration and either reaches the peer's side or
raises; pongs and error frames change nothing; the database work of
`message.send` is in `ChatStore` and precedes the broadcast; a socket connects
once and a client asks for a conversation once; a subscription set that was
never made is the empty set, which the code's `get(..., set())` also yields; the
loss of the Redis connection is noticed between two events.

### Runs

| Run | Bounds | Shows |
|---|---|---|
| `hub_safety` | 3 sockets, 2 principals, 1 conversation, 2 events, 1 direct broadcast; the sockets of one principal symmetric | types, `RegistryOwned`, `CalmReachesAll`, `OnlyTabsUnsubscribe`, `FanoutInOrder` |
| `hub_liveness` | 2 sockets of one principal, 2 events, 1 direct broadcast, fair | `BroadcastsEnd`, `ChannelDrains` |
| `hub_reach` | as `hub_safety` with one event and no direct broadcast | finding: a subscriber is not reached |

Two sockets of one principal and one of another reach both loops: a change of
the inner set, of the outer set, of both, and a set that shrinks and grows back
to its size. Two events and a direct broadcast make two broadcasts overlap and
two follow each other. Deadlock checking is off: clients may do nothing.

Fairness: an awaited `send_text` returns or raises, and the loop dispatches what
the channel holds; both are what the event loop does with a ready task. Nothing
is assumed of clients, of publishers or of the Redis connection.

What the finding means: a client that joins or leaves while another one's socket
is written to may cost the remaining subscribers the event (`hub_reach`); a copy
of the two sets before the loops would mend it. `CalmReachesAll` says that this
is the only way to be missed by a broadcast.

`OnlyTabsUnsubscribe` draws the line of another surprise. `disconnect` ends the
subscriptions of the whole principal, so a tab that is still open hears nothing
more once another tab of the user has gone, although the repository's
`README.md:443` promises the update to "all subscribers". The property says that
nothing else has that effect: broadcasts that overlap, find the same socket dead
twice or run into a handler's own end never unregister a client that is there.

### Proofs (`WsHubProofs`)

From `HubAssumption`, for all sockets, principals, conversations and numbers of
events and frames: `RegistryClean`, `HubTyping`, `CalmBroadcasts`, `OnlyTabs` and
`InOrder`, the five invariants of `hub_safety`.

`RegistryOwned` is inductive with the types of the registry. `WithoutKeeps`
carries it: the sockets `disconnect` removes take their principals'
subscriptions along, so their handlers may end in the same step (`Over`,
`Break`) or go on (`Finish`). The others rest on `HubInvariant`, which adds what
holds between two awaits. `JobsOnCourse` speaks of every broadcast: whom it found
dead is gone for good, whom it owes its event is registered and subscribed, and
while it is calm they lie ahead of its iterators, which no change has touched.
`DisturbedOnCourse` shows that a step of another actor either leaves this as it
is or ends the calm; `Register`, which all such steps go through, needs the
argument only once. `NewAreQuiet` makes a fresh socket owe nothing.
`EventsAhead` puts the event in broadcast behind those received and before those
waiting. The proof is in two halves, for the registry and the broadcasts
(`HubPart`) and for the events (`EventPart`), joined in `HubStep`.

Only model-checked: the liveness properties.

## 6. LeafConsumer

`stream` is what LeafFlow added, `start` where the group was made, `group` its
last delivered entry and `pending` its pending entries, each with a consumer's
name. `name`, `batch` and `stage` are the running processes; every start draws a
fresh name. `chats` and `notes` are what handlers committed. `effects`,
`dropped`, `acked`, `errors` and `losses` are history.

| Action | Code |
|---|---|
| `Add` | LeafFlow (external) |
| `CreateGroup`, `Start` | `create_consumer_group.py`; `run_consumer` and `ensure_group` |
| `Fetch` | XREADGROUP with `">"`; the reply may be lost |
| `Handle` | the callback: `_handle_event` and its handlers |
| `Ack` | XACK and the turn to the next entry |
| `Fail` | the callback, before or after its commit, or the XACK raises: logged, next entry |
| `Crash` | the process is stopped or dies |

Abstractions: a handler is one step (its statements interleave in `ChatStore`);
an XACK whose answer is lost is an `Ack`, since nobody looks at its result;
user.blocked and user.updated do nothing but log. A process that dies between
the commit of its handler and the XACK is a `Handle` followed by `Crash`.

### Runs

| Run | Bounds | Shows |
|---|---|---|
| `leaf_group` | 2 consumers, batch 2, 3 entries, 3 starts, 2 errors or losses, fair | `AckedTookEffect`, `HandledOnce`, `StrandedHasCause`, `NotesInOrder`, `InboxSpec`, `DroppedHasCause`, `EntriesSettle` |
| `leaf_reprocess` | 1 consumer, 1 entry, 2 starts, fair | finding: pending entries are not processed again |

Three entries of one order are a creation and two status changes in two batches
or three, so that order can be lost within a batch, between two of one consumer
and between two consumers. Three starts
are two processes and a restart, or one process restarted twice. `MaxStarts`
bounds crashes: the processes of the last starts stay. Deadlock checking is off,
for the stream ends.

Fairness: a consumer that is down is started again, and its loop goes on whatever
is raised in it. Errors need not stop, but are bounded. The loop is the code's
own; the restart is an assumption about whoever runs the service, for
`docker-compose.yml` sets no restart policy for `chat-leaf-consumer`. Without one, the
run says what happens as long as somebody starts it again. The safety properties
and theorems need neither.

What the finding means: the consumer delivers every entry at most once.
`InboxSpec` and `HandledOnce` are the good side of it and `StrandedHasCause` the price: an error
strands one entry, a crash or a lost reply at most a batch. Order is kept per
consumer (`NotesInOrder`); with two consumers a status change may overtake the
creation of its order and is then dropped (`DroppedHasCause`). A stranded
order.created costs all status messages of its order (`DroppedHasCause`), for
these are acknowledged with nothing done.

### Proofs (`LeafConsumerProofs`, `LeafOrderProofs`)

From `ConsumerAssumption`, for all consumers, orders, batch sizes and bounds:
`AckedIsDone` and `HandledAtMostOnce`, the two invariants that a change of the
acknowledgement or of the fetch would break, both from `GroupInductive`. The
invariant adds `HandsFull`: whatever a consumer holds lies behind the group's
position and took no effect, except the head that is about to be acknowledged.
Together with `HandledOnce` it shows that the handler's entry had no effect
before, hence that messages are not repeated; with `AckedTookEffect` that a new
batch meets nobody else's. `EnsureGroupKeeps`, `NextEntryFacts` and
`EffectFacts` are shared by the actions that start, finish an entry and commit.

`LeafOrderProofs` puts a second invariant over it and proves the types
(`ConsumerTyping`), `AnnouncedInOrder`, `FewStranded` and `DropsExplained`. A
batch is ascending (`ReadInOrder`), nothing in hand lies before what the same
consumer announced (`NotesBehind`), and an order whose creation took effect has
its conversation (`Conversed`). No step but `Fetch` puts anything into a hand:
`Shrinks` states this once, and order survives it. For `DroppedHasCause`, an
earlier creation that is neither acknowledged nor stranded is in somebody's
hands, and not in those of the consumer that drops the status, whose head comes
first. For `StrandedHasCause` each step is shown to strand nothing, one head, or
one batch, and a batch has at most `BatchSize` entries (`BatchCount`).

`ImplementsInbox` proves the refinement of `LeafInbox`, which knows neither group
nor consumers: an entry added since the inbox is open takes effect at most once,
as a whole and as its type says (`TakeEffect`), and is acknowledged only then
(`Acknowledge`). A handler that commits is the `TakeEffect` of its entry whether
or not it raises afterwards (`EffectTaken`); reading, crashing and failing before
the commit are invisible. `LeafInbox` promises neither that an entry takes effect
nor an order, which is what the other properties are about. Notes are mapped to
their entries; whose they are is left out.

Only model-checked: `EntriesSettle` (liveness).

## 7. CursorPaging

A row is its sort key, the pair of a timestamp and an id. A reader keeps the
cursor, its last page and what it was shown before; tabs read one history,
listers the list of conversations. `stamp` is the clock a service has read for a
message, `stored` says that it has committed: keys become visible in another
order than their own.

| Action | Code |
|---|---|
| `Begin`, `Commit` | a service reads its clock; `create_if_not_exists` and `touch_last_message_at` take effect |
| `Create` | a conversation is committed, with no last message |
| `NextPage` (`Rows`, `Matches`, `Precedes`, `IsPage`, `Advance`) | `list_messages`, `list_for_user`, `list_for_admin`: the join or the filters, WHERE, ORDER BY, LIMIT, and the cursor of the last row |
| `Mark` | a client reports the last message of the page it shows (external) |
| `MarkRead`, `Upsert` | `_handle_mark_read`, `mark_read`, `upsert_last_read`; an exception is logged |

Abstractions: clocks of different processes agree, though two services may read
the same time; a cursor is the key itself, since `decode_cursor` returns what
`encode_cursor` got (a NULL is encoded as the earliest time, here 0); ids are any
numbers, so every order of them among equal timestamps is met; a filter is a set
of conversations that commits change.

### Runs

| Run | Bounds | Shows |
|---|---|---|
| `paging` | 4 messages, 3 conversations, 2 tabs, 1 lister, pages of one row | `PagesInOrder`, `NothingSkipped`, `MissedOverlapped`, `OneTabForward`, the inductive invariant |
| `paging_all_listed` | the same | finding: conversations without messages are on no page but the first |

Pages of one row put a page boundary between any two rows, among them two with
one timestamp; three rows make a first, a middle and a last page. The constraint
`OneKindReads` examines tabs and listers one kind at a time, which is sound
because readers change nothing that another reader sees. Deadlock checking stays
on: a client can always ask for a further page.

What the runs mean: the README of the repository (`README.md:312`) gives
stability under inserts as the reason for cursors. `NothingSkipped` and
`PagesInOrder` are that promise. It has two limits. `MissedOverlapped`: what was
being sent while a page was read may lie behind the cursor when it commits, and
then never shows up in that reading. And `paging_all_listed`: a comparison with
NULL is never true, so a conversation nobody has written in is only listed if it
fits on the first page. `OneTabForward` says when `mark_read` cannot go back;
between two tabs of one user it can.

### Proofs (`CursorPagingProofs`)

From `PagingAssumption`, for all messages, conversations, readers and page sizes:
`PagesAdvance`, `PagesCover`, `MissesOverlap`, `PointerForward` and `Typing`, from
`InvariantHolds`. `PagingInvariant` says where everything stands relative to the
cursor: it is the last of all rows shown (`CursorIsLast`), so a page of rows
beyond it begins after all of them; what is owed was shown or lies beyond
(`OwedIsAhead`); a message that is being sent carries a time not before the
cursor's, or overlapped a page (`SentIsAhead`); frames of a tab follow the order
of its pages, and so does the pointer if the tab set it (`MarksInOrder`). That
the order of keys is total and transitive is proved first, for both directions.

## 8. Fanout

The composition. `stage` and `delivered` are those of `EventRelay`, which the
workers implement; `queue` is what Redis has sent to each instance, `listener`
the state of its task. A socket is the connection of one page. `at` is the
instance that runs its handler, `peer` what became of the page: "gone" while the
hub still has the socket among its connections, "dropped" once a broadcast has
disconnected it and its handler is still to end. `subs` are the principals the
hub of an instance has as subscribers. `direct` is the message a handler is about
to broadcast, `found` the dead sockets that the broadcast of an actor (a
listening task or a handler) has met and not yet disconnected. A page `has` some
messages, and `view` says how it came by its history.

| Action | Code |
|---|---|
| `Post` | a message is committed with its outbox row, over REST, by an admin action or the LeafFlow consumer |
| `Send` | `_handle_send`: the commit, or a repetition that stores nothing |
| `Answer`, `AnswerBreaks` | the broadcast of the handler itself, to its end or to the `RuntimeError` that ends the handler too |
| `Publish`, `Settle` | the outbox worker: `Deliver` and `Finish` of `EventRelay` |
| `Start`, `Listen`, `StopListening`, `Stop` | `lifespan`, the start of `_listen` and its subscription, its end by an error, the end of the process |
| `Dispatch` | `_listen`, `_on_pubsub_event` and the sends of the broadcast |
| `CleanUp` | the last loop of `broadcast_to_conversation`: `disconnect` of every socket found dead |
| `Connect`, `Subscribe` | `ws_chat` and the frame in `_read_loop` |
| `Leave`, `Over` | the page goes away; later its handler notices, or a frame raises, and the `finally` disconnects (`End`) |
| `Load` | a page reads the history over REST, at any time |

`disconnect` takes away the subscriptions of the whole principal, and a dead
socket is disconnected by every broadcast that found it and by its handler, in
any order and with anything in between. All of that happens here: a page comes
back with a new socket before the old one is noticed, subscribes, loads, and is
unsubscribed by the end of a broadcast; it subscribes and loads again, and is
unsubscribed once more by the end of the old handler.

Abstractions: one conversation; the sends of a broadcast are one step and reach
any part of the subscribers, as one that was disturbed does in `WsHub`, the rest
being noted in `lost`; what a broadcast breaks off in is not cleaned up; a
history is one page, `CursorPaging` has more; an event that the outbox gives up
is `dropped`.

### Run

| Run | Bounds | Shows |
|---|---|---|
| `fanout` | 1 message, 2 instances, 2 sockets of one user, 1 event at a time on its way to an instance; fair | `NothingPhantom`, `NoGap`, `EventuallyTold` |

Messages share nothing but their place in a queue, and a message can be
published any number of times, so one message has every accident on its way:
duplicates and repetitions behind a settled event come one after another. Two
sockets of one user are two tabs, or a page before and after it came back; they
meet at one instance, where the end of one unsubscribes the other once or twice,
or use two, of which one may be deaf or down. Instances and sockets come and go
without bound. `has` is kept while there is a page, and `lost` while the page is
whole, for only then does any property ask. No symmetry is used, so that the
same run can check liveness.

Fairness: every event is settled or given up in the end, which is
`EventuallyFinal` of `OutboxRelay`; an instance dispatches what it was sent, and
disconnects what it found dead before the next event. Nothing is assumed of
pages, of handlers, of starts or of connections.

What the runs mean: the outbox's promise ends at the channel. `NoGap` names
everything that can come between it and a page. Two accidents are in `lost`: the
instance was not yet or no longer listening (`start` returns before the
subscription exists, and nothing restarts the task), or the broadcast was
disturbed. The event may have been given up. And a page is only promised
anything while its `view` is "whole". It is "blind" if it loaded before its
subscribe frame was handled, which it cannot know, for the frame is not
acknowledged. It is "cut" from the moment another socket's disconnect, the first
or the second, takes its principal out of the subscribers, which it is not told
either; `OnlyTabsUnsubscribe` of `WsHub` says that nothing else does so. In all
these cases only a new subscription and a new load mend it. A sender's frame is
answered with `message.created`, the event of the channel is called
`chat.message_created`; the names differ on the wire and a subscriber may get
both (`README.md:441` mentions the first only).

### Proofs (`FanoutProofs`)

From `FanoutAssumption`, for all messages, instances, sockets and principals and
any length of queues: `OnlyStoredIsTold`, `GapsHaveCause` and `FanoutTyping`, from
`Carried`. Four things make `FanoutInvariant` inductive. `NoGap` speaks of
settled events; the invariant has to speak of carried ones (`CarriedArrives`),
because an event may be on the channel long before the batch commits. A page that
is whole is a subscriber (`WholeReachable`): a late `CleanUp` or `Over` may come
when its principal has subscribed again, and then cuts it. `HubAgrees` says who
has a handler, that a handler either is about to broadcast or cleans up, and that
whoever a broadcast found dead is not there any more, however often that socket
was disconnected meanwhile. `StagesAgree` ties what handlers broadcast to what is
stored. `HubFrame` serves every step of the hub: nobody becomes whole by it, and
who stays whole keeps what it has and its subscription. `EndStep` is the argument
for `Over` and `AnswerBreaks`. `UsesRelay` shows that the composition assumes
nothing of the outbox beyond `EventRelay`, which `OutboxRelayProofs` proves of
the workers. Only model-checked: `EventuallyTold`.

## 9. Not modelled

HTTP routing and schemas, token verification, mappers and scripts have no state
of their own. The size of the connection pool is left out: every request and
frame holds one session and waits only for locks, so waits for a connection end
when those do (`EveryRequestEnds`). The comparison of a naive `utcnow()` with a
timestamptz column depends on the time zone of the deployment. Pings, pongs and
the heartbeat change no state; `send_to_principal` and `unsubscribe` have no
caller. `user.blocked` and `user.updated` are logged and nothing else.
